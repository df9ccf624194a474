------------------------------- MODULE Route -------------------------------
(***************************************************************************)
(* The route engine (internal/route): what does it cost in roubles to have *)
(* target BTC arrive at an outside address?  A path of steps is evaluated  *)
(* backward, from the BTC that shall arrive to the asset that must be      *)
(* bought from a P2P offer.  Routes are tried one after another; one that  *)
(* is not available spoils no other, and the caller's context may be done  *)
(* between any two steps.                                                  *)
(*                                                                         *)
(* Data that are disabled, older than their time to live or not there are  *)
(* Missing from the market.                                                *)
(***************************************************************************)
EXTENDS Money, FiniteSets

CONSTANTS
    Markets,   \* snapshots an engine may be given
    Targets,   \* amounts that may be asked for
    Filters,   \* what users accept
    Missing

VARIABLES
    market, target, filter,  \* the arguments of Engine.Calculate
    expired,                 \* the context is done
    calc,                    \* the route being tried, the step and what it needs
    quotes,                  \* Result.Quotes
    refused                  \* Result.Unavailable: why, and in front of which step

vars == <<market, target, filter, expired, calc, quotes, refused>>
given == <<market, target, filter>>

-----------------------------------------------------------------------------
(* DefaultEngine.  Routes are in the order of their names. *)

Step(kind, key) == [kind |-> kind, key |-> key]

Routes == <<"bestchange", "bybit", "wallet">>
StepsOf == [bybit  |-> <<Step("buy", "bybit:BTC"), Step("withdraw", "bybit:BTC")>>,
            wallet |-> <<Step("withdraw", "wallet:GRAM"), Step("deposit", "okx:GRAM"),
                         Step("sell", "okx:GRAM"), Step("buy", "okx:BTC"),
                         Step("withdraw", "okx:BTC")>>]
AssetOf == [bybit |-> "USDT", wallet |-> "GRAM"]

(* What the providers let through.  Levels of a book are checked to be positive; every other    *)
(* number may be anything, and is checked where it is used.  The caller asks for some bitcoins. *)

Keys       == {"bybit:BTC", "okx:BTC", "okx:GRAM", "wallet:GRAM"}
FeeType    == [fixed : Int, rate : Int, step : Int, min : Int, max : Int, fallback : BOOLEAN]
InstType   == [step : Int, tick : Int, quoteStep : Int, minBase : Int, minQuote : Int,
               maxBase : Int, maxQuote : Int]
BookType   == {b \in [asks : Seq(LevelType), bids : Seq(LevelType)] : Valid(b.asks) /\ Valid(b.bids)}
OfferType  == [asset : STRING, price : Int, min : Int, max : Int, assetStep : Int,
               restricted : BOOLEAN, available : Int, completion : Int, orders : Int,
               methods : SUBSET STRING, feeFallback : BOOLEAN, takerSells : BOOLEAN]
OfficeType == [enabled : BOOLEAN, rate : Int, min : Int, max : Int, reserve : Int, method : STRING]

Typed(table, T) == DOMAIN table = Keys /\ \A k \in Keys : table[k] \in T \cup {Missing}

ASSUME RouteAssumption ==
    /\ Targets \subseteq Nat \ {0}
    /\ \A m \in Markets :
         /\ Typed(m.books, BookType) /\ Typed(m.instruments, InstType)
         /\ Typed(m.trade, FeeType) /\ Typed(m.deposit, FeeType) /\ Typed(m.fees, FeeType)
         /\ \A k \in {"bybit", "wallet", "bybit:usd"} : m.p2p[k] \in Seq(OfferType)
         /\ m.exchange \in Seq(OfficeType)

\* Fees for trading and for moving an asset are kept apart.
FeeOf(s)  == IF s.kind \in {"buy", "sell"} THEN market.trade[s.key]
             ELSE IF s.kind = "deposit" THEN market.deposit[s.key] ELSE market.fees[s.key]
InstOf(s) == market.instruments[s.key]
BookOf(s) == market.books[s.key]

-----------------------------------------------------------------------------
(* Backward: the input a step asks for so that n comes out of it. *)

OnTick(levels, tick) == \A i \in DOMAIN levels : levels[i].price % tick = 0

Ready(s) ==
    /\ FeeOf(s) # Missing
    /\ s.kind = "withdraw" => FeeOf(s).fixed >= 0 /\ FeeOf(s).rate = 0 /\ FeeOf(s).step > 0
    /\ s.kind \in {"buy", "sell"} =>
         /\ BookOf(s) # Missing /\ InstOf(s) # Missing
         /\ FeeOf(s).rate >= 0 /\ FeeOf(s).rate < One /\ FeeOf(s).fixed = 0
         /\ InstOf(s).step > 0 /\ InstOf(s).tick > 0
         /\ OnTick(BookOf(s).asks \o BookOf(s).bids, InstOf(s).tick)

\* Mutant: the fixed fee is left out.
Below(output, fee) == output
Above(output, fee) == output + fee

BaseBought(s, n) == CeilRatio(n * One, One - FeeOf(s).rate, InstOf(s).step)

\* Mutant: the cost is not rounded to the step of the quote asset.
AsWalked(cost, step) == cost
RoundedCost(cost, step) == IF cost # Failed /\ step > 0 THEN Ceil(cost, step) ELSE cost

Input(s, n) ==
    CASE s.kind = "deposit"  -> n
      [] s.kind = "withdraw" -> Above(Ceil(n, FeeOf(s).step), FeeOf(s).fixed)
      [] s.kind = "sell"     -> SellForQuote(n, FeeOf(s).rate, InstOf(s).step, BookOf(s).bids)
      [] s.kind = "buy"      -> RoundedCost(CalculateBuyCost(BaseBought(s, n), BookOf(s).asks),
                                            InstOf(s).quoteStep)

NotAbove(x, max) == max > 0 => x <= max

Within(s, n, input) ==
    CASE s.kind = "deposit"  -> n >= FeeOf(s).min
      [] s.kind = "withdraw" -> Ceil(n, FeeOf(s).step) >= FeeOf(s).min
                                /\ NotAbove(input, FeeOf(s).max)
      [] s.kind = "sell"     -> LET gross == Walk(input, BestBids(BookOf(s).bids)).money IN
                                /\ input >= InstOf(s).minBase /\ gross >= InstOf(s).minQuote
                                /\ NotAbove(input, InstOf(s).maxBase)
                                /\ NotAbove(gross, InstOf(s).maxQuote)
      [] s.kind = "buy"      -> /\ BaseBought(s, n) >= InstOf(s).minBase
                                /\ input >= InstOf(s).minQuote
                                /\ NotAbove(BaseBought(s, n), InstOf(s).maxBase)
                                /\ NotAbove(input, InstOf(s).maxQuote)

-----------------------------------------------------------------------------
(* Engine.Calculate and Path.Calculate. *)

NotRefused == [why |-> "no", step |-> Step("none", ""), needed |-> 0]
Begun(i) == [route |-> i, legs |-> <<>>, needed |-> target, degraded |-> FALSE]

Init ==
    /\ market \in Markets /\ target \in Targets /\ filter \in Filters
    /\ expired = FALSE
    /\ calc = Begun(1)
    /\ quotes = <<>>
    /\ refused = [r \in {Routes[i] : i \in DOMAIN Routes} |-> NotRefused]

Trying == calc.route <= Len(Routes)
Name   == Routes[calc.route]
IsPath == Trying /\ Name # "bestchange"
\* The step before the legs computed so far.
Ahead  == StepsOf[Name][Len(StepsOf[Name]) - Len(calc.legs)]

\* Mutant: a route drops out without a word.
DropsOut(s, why) == calc' = Begun(calc.route + 1) /\ UNCHANGED <<given, expired, quotes, refused>>
RefuseAt(s, why) ==
    /\ refused' = [refused EXCEPT ![Name] = [why |-> why, step |-> s, needed |-> calc.needed]]
    /\ calc' = Begun(calc.route + 1)
    /\ UNCHANGED <<given, expired, quotes>>

Refuse(why) == RefuseAt(Step("none", ""), why)

\* A quote that uses fallback fees goes to those only who allow them.
Offer(q) ==
    IF filter.noFallback /\ q.degraded THEN Refuse("fallback")
    ELSE /\ quotes' = Append(quotes, q)
         /\ calc' = Begun(calc.route + 1)
         /\ UNCHANGED <<given, expired, refused>>

Expire == ~expired /\ expired' = TRUE /\ UNCHANGED <<given, calc, quotes, refused>>

\* The engine looks at the context before a route, the path before each step.
Cancelled ==
    /\ Trying /\ expired
    /\ calc.legs = <<>> \/ (IsPath /\ Len(calc.legs) < Len(StepsOf[Name]))
    /\ Refuse("cancelled")

\* The cheapest exchange office that covers the request.
BestChange ==
    LET offers == market.exchange
        rub(o) == Ceil(target * o.rate, Kopeck)
        able == {i \in DOMAIN offers :
                   /\ offers[i].enabled /\ offers[i].rate > 0
                   /\ offers[i].min >= 0 /\ offers[i].max >= offers[i].min
                   /\ offers[i].reserve >= target
                   /\ PaymentMatches(filter.payment, {offers[i].method})
                   /\ offers[i].min <= rub(offers[i]) /\ rub(offers[i]) <= offers[i].max}
    IN
    /\ Trying /\ ~IsPath /\ ~expired
    /\ IF able = {} THEN Refuse("no offer")
       ELSE \E i \in able :
              /\ \A j \in able : rub(offers[i]) <= rub(offers[j])
              /\ Offer([route |-> Name, offer |-> i, rub |-> rub(offers[i]), bought |-> target,
                        legs |-> <<>>, received |-> target, degraded |-> FALSE])

Mark(s) == calc.degraded \/ (s.kind # "deposit" /\ FeeOf(s).fallback)

Backward ==
    LET s == Ahead
        input == Input(s, calc.needed)
    IN
    /\ IsPath /\ ~expired /\ Len(calc.legs) < Len(StepsOf[Name])
    /\ IF ~Ready(s) THEN RefuseAt(s, "missing")
       ELSE IF input = Failed THEN RefuseAt(s, "thin")
       ELSE IF ~Within(s, calc.needed, input) THEN RefuseAt(s, "limits")
       ELSE /\ calc' = [calc EXCEPT !.legs = <<input>> \o @, !.needed = input,
                                    !.degraded = Mark(s)]
            /\ UNCHANGED <<given, expired, quotes, refused>>

\* The asset is bought from one offer; the payment method may differ by platform.
Wanted == [filter EXCEPT !.payment =
             IF Name \in DOMAIN filter.byProvider THEN filter.byProvider[Name] ELSE @]

\* Mutant: the mark of the offer is forgotten.
StepsMark(o) == calc.degraded
Degraded(o)  == calc.degraded \/ o.feeFallback

Purchase ==
    LET offers == market.p2p[Name]
        best == SelectP2P(calc.needed, AssetOf[Name], offers, Wanted)
        o == offers[best]
        last == StepsOf[Name][Len(StepsOf[Name])]
    IN
    /\ IsPath /\ Len(calc.legs) = Len(StepsOf[Name])
    /\ IF best = 0 THEN Refuse("no offer")
       ELSE Offer([route |-> Name, offer |-> best, rub |-> Price(calc.needed, o),
                   bought |-> Lots(calc.needed, o), legs |-> calc.legs,
                   received |-> Ceil(target, FeeOf(last).step), degraded |-> Degraded(o)])

\* Quotes are ranked by their price, then by name.
Place(q) == CHOOSE i \in DOMAIN Routes : Routes[i] = q.route
Precedes(a, b) == a.rub < b.rub \/ (a.rub = b.rub /\ Place(a) < Place(b))
Ranked(qs) == Sorted(qs, Precedes)

Rank ==
    /\ calc.route = Len(Routes) + 1
    /\ quotes' = Ranked(quotes)
    /\ calc' = Begun(calc.route + 1)
    /\ UNCHANGED <<given, expired, refused>>

Next == Expire \/ Cancelled \/ BestChange \/ Backward \/ Purchase \/ Rank

Spec == Init /\ [][Next]_vars

-----------------------------------------------------------------------------
(* What the venues make of an amount, by their own rules and not by the    *)
(* code: an order is filled from the book as well as it can be, and coins  *)
(* move in whole steps.  Results are in parts of One.                      *)

Deepest(levels) == Max({0} \cup {levels[i].amount : i \in DOMAIN levels})

\* All ways to fill an order: the base traded and the money for it.
Fills(levels) ==
    LET takes == {f \in [DOMAIN levels -> 0..Deepest(levels)] :
                    \A i \in DOMAIN levels : f[i] <= levels[i].amount}
        Worth(f) == [i \in DOMAIN levels |-> f[i] * levels[i].price]
    IN {[base |-> FoldFunction(+, 0, f), money |-> FoldFunction(+, 0, Worth(f))] : f \in takes}

Whole(x, step) == IF step > 0 THEN x - (x % step) ELSE x

Yields(s, x) ==
    LET rest == x - FeeOf(s).fixed
        sold == {f \in Fills(BookOf(s).bids) : f.base <= Whole(x, InstOf(s).step)}
        paid == {f \in Fills(BookOf(s).asks) : /\ f.money <= Whole(x, InstOf(s).quoteStep)
                                               /\ f.base % InstOf(s).step = 0}
    IN
    CASE s.kind = "deposit"  -> x * One
      [] s.kind = "withdraw" -> IF rest > 0 THEN Whole(rest, FeeOf(s).step) * One ELSE 0
      [] s.kind = "sell"     -> Max({f.money : f \in sold}) * (One - FeeOf(s).rate)
      [] s.kind = "buy"      -> Max({f.base : f \in paid}) * (One - FeeOf(s).rate)

\* Everything the book holds, in the asset the step asks for.
AllOf(s) ==
    IF s.kind = "sell" THEN Max({f.base : f \in Fills(BookOf(s).bids)})
    ELSE LET all == Max({f.money : f \in Fills(BookOf(s).asks)})
         IN IF InstOf(s).quoteStep > 0 THEN all + InstOf(s).quoteStep ELSE all

-----------------------------------------------------------------------------
(* Properties *)

Quoted == {quotes[i] : i \in DOMAIN quotes}
Paths  == {q \in Quoted : q.route # "bestchange"}
Legs(q) == DOMAIN q.legs
Chosen(q) == market.p2p[q.route][q.offer]
After(q, i) == IF i = Len(q.legs) THEN target ELSE q.legs[i + 1]

\* The shape of the calculation; a route is not yet tried, quoted or refused.
TypeOK ==
    /\ calc.route \in 1..(Len(Routes) + 2) /\ calc.needed \in Nat /\ calc.degraded \in BOOLEAN
    /\ calc.legs \in Seq(Nat \ {Failed})
    /\ \A q \in Quoted :
         /\ q.rub \in Nat \ {0} /\ q.bought \in Nat /\ q.received \in Nat
         /\ q.legs \in Seq(Nat) /\ q.degraded \in BOOLEAN
    /\ \A i \in DOMAIN Routes :
         Cardinality({q \in Quoted : q.route = Routes[i]})
           + (IF refused[Routes[i]] = NotRefused THEN 0 ELSE 1) = (IF i < calc.route THEN 1 ELSE 0)

\* One advertisement, open to the user, trades the amount for the money in a single order.
InOneOrder(o, amount, fiat) ==
    ~o.restricted /\ amount <= o.available /\ o.min <= fiat /\ fiat <= o.max

\* README: no less than the target arrives at the address.  Who follows the steps of a quote
\* never stands short: the advertisement sells all that the first step asks for, what each step
\* yields covers what the next one asks for, and the last yields what the quote promises.
NeverShort ==
    \A q \in Paths :
        /\ InOneOrder(Chosen(q), q.bought, q.rub)
        /\ q.bought >= q.legs[1] /\ q.received >= target
        /\ \A i \in Legs(q) : Yields(StepsOf[q.route][i], q.legs[i]) >= After(q, i) * One
        /\ Yields(StepsOf[q.route][Len(q.legs)], q.legs[Len(q.legs)]) >= q.received * One

\* Nor does a quote ask for more than it must: with any less, a step falls short.
NothingToSpare ==
    \A q \in Paths : \A i \in Legs(q) :
        Yields(StepsOf[q.route][i], q.legs[i] - 1) < After(q, i) * One

\* A book is called too thin only if all of it would not be enough.
ThinForReal ==
    \A i \in DOMAIN Routes :
        LET r == refused[Routes[i]] IN
        r.why = "thin" => Yields(r.step, AllOf(r.step)) < r.needed * One

\* README: fallback fees, of any step or for taking the advertisement, are always marked, and
\* are not used for who excludes them.
UsesFallback(q) ==
    \/ Chosen(q).feeFallback
    \/ \E i \in DOMAIN StepsOf[q.route] :
         StepsOf[q.route][i].kind # "deposit" /\ FeeOf(StepsOf[q.route][i]).fallback

FallbacksMarked ==
    \A q \in Paths : UsesFallback(q) => q.degraded /\ ~filter.noFallback
=============================================================================
