-------------------------------- MODULE Usd --------------------------------
(***************************************************************************)
(* Dollars on an account of TBC (route.CalculateUSD), calculated from the  *)
(* market a user of the routes is shown: USDT is bought from one           *)
(* advertisement and sold to another.  The advertisements for dollars are  *)
(* considered one after another, with the cheapest purchase for each.      *)
(***************************************************************************)
EXTENDS Route

CONSTANTS
    Cent,
    TBC        \* the payment method of the bank

VARIABLE usd   \* not asked: Missing; else the next advertisement and the best pair so far

both == <<vars, usd>>

\* The best pair so far, and none.
PairType == [buy : Nat, sell : Nat, needed : Int, received : Int, rub : Int,
             bought : Int, degraded : BOOLEAN]

ASSUME UsdAssumption == Cent \in Nat \ {0} /\ Missing \notin PairType

Sellers == market.p2p["bybit:usd"]

Payment == [filter EXCEPT !.payment =
              IF "bybit" \in DOMAIN filter.byProvider THEN filter.byProvider["bybit"] ELSE @]

Allowed(o) == filter.noFallback => ~o.feeFallback
Buyers ==
    LET offers == market.p2p["bybit"] IN
    Restrict(offers, {i \in DOMAIN offers : ~offers[i].takerSells /\ Allowed(offers[i])})

Eligible(o) ==
    /\ CountryEligible(o) /\ o.takerSells /\ o.asset = "USDT"
    /\ PaymentMatches(TBC, o.methods)
    /\ o.price > 0 /\ o.assetStep > 0 /\ o.min >= 0 /\ o.max >= o.min
    /\ filter.completion <= o.completion /\ o.completion <= 100 /\ o.orders >= filter.orders
    /\ Allowed(o)

\* Mutant: what is needed is cut to the step.
NeededCut(o) == CutRatio(target, o.price, o.assetStep)
Needed(o)    == CeilRatio(target, o.price, o.assetStep)
Truncated(x) == x - (x % Cent)
Received(o)  == Truncated(Needed(o) * o.price)

Fits(o) ==
    /\ Needed(o) <= o.available /\ Received(o) >= target
    /\ o.min <= Received(o) /\ Received(o) <= o.max

Cheapens(rub, best) == best = Missing \/ rub < best.rub

\* Mutant: only the sale marks the pair.
SellersMark(buy, sell) == sell.feeFallback
EitherMark(buy, sell) == buy.feeFallback \/ sell.feeFallback

AskUsd ==
    /\ calc.route > Len(Routes) + 1 /\ usd = Missing
    /\ usd' = [next |-> IF target % Cent = 0 THEN 1 ELSE Len(Sellers) + 1, best |-> Missing]
    /\ UNCHANGED vars

Consider ==
    LET sell == Sellers[usd.next]
        need == Needed(sell)
        buy  == SelectP2P(need, "USDT", Buyers, Payment)
        rub  == Price(need, Buyers[buy])
        pair == [buy |-> buy, sell |-> usd.next, needed |-> need, received |-> Received(sell),
                 rub |-> rub, bought |-> Lots(need, Buyers[buy]),
                 degraded |-> EitherMark(Buyers[buy], sell)]
    IN
    /\ usd # Missing /\ usd.next <= Len(Sellers)
    /\ usd' = [next |-> usd.next + 1,
               best |-> IF Eligible(sell) /\ Fits(sell) /\ buy # 0 /\ Cheapens(rub, usd.best)
                        THEN pair ELSE usd.best]
    /\ UNCHANGED vars

InitBoth == Init /\ usd = Missing
NextBoth == (Next /\ UNCHANGED usd) \/ AskUsd \/ Consider
SpecBoth == InitBoth /\ [][NextBoth]_both

-----------------------------------------------------------------------------
(* Properties.  A pair is judged by the rules of the exchange, with every  *)
(* amount there is, not by the rounding of the code.                       *)

Done == usd # Missing /\ usd.next > Len(Sellers)

Brings(o, x) == x % o.assetStep = 0 /\ Truncated(x * o.price) >= target

\* The least that brings the dollars.
Least(o) == Min({x \in 0..(target + o.assetStep) : Brings(o, x)})

\* The pairs that bring the dollars, each side in one order, and their prices.
Pairs ==
    {p \in (DOMAIN Sellers) \X (DOMAIN Buyers) :
       LET o == Sellers[p[1]]
           x == Least(o)
           paid == Truncated(x * o.price)
       IN Eligible(o) /\ x <= o.available /\ o.min <= paid /\ paid <= o.max
          /\ Covers(Buyers[p[2]], x, "USDT", Payment)}
Prices == {Price(Least(Sellers[p[1]]), Buyers[p[2]]) : p \in Pairs}

\* README: one advertisement on each side covers the whole of it, within its limits and with
\* what it holds.  Who buys what the quote says can sell what it says and has the dollars, not a
\* step more than needed.  A fallback fee on either side, as the market has it, is marked and
\* excluded on demand.
UsdCovered ==
    usd # Missing /\ usd.best # Missing =>
      LET b    == usd.best
          buy  == market.p2p["bybit"][b.buy]
          sell == Sellers[b.sell]
      IN
      /\ ~buy.takerSells /\ InOneOrder(buy, b.bought, b.rub)
      /\ InOneOrder(sell, b.needed, b.received) /\ b.received = Truncated(b.needed * sell.price)
      /\ b.bought >= b.needed
      /\ Brings(sell, b.needed) /\ ~Brings(sell, b.needed - sell.assetStep)
      /\ buy.feeFallback \/ sell.feeFallback => b.degraded /\ ~filter.noFallback

\* The quote is the cheapest pair there is, and the request is refused only if there is none.
UsdCheapest ==
    Done /\ target % Cent = 0 =>
      IF usd.best = Missing THEN Prices = {} ELSE Prices # {} /\ usd.best.rub = Min(Prices)
=============================================================================
