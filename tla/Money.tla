------------------------------- MODULE Money -------------------------------
(***************************************************************************)
(* Package money: exact rounding up, the walk through an order book and    *)
(* the choice of a P2P offer.  The code computes with decimals of any      *)
(* precision; here every amount and price is a whole number of some small  *)
(* unit and a rate counts parts of One.                                    *)
(***************************************************************************)
EXTENDS Integers, Sequences, SequencesExt

CONSTANTS
    One,     \* the rate of 100 %
    Kopeck   \* the step of a payment in roubles

ASSUME MoneyAssumption == One \in Nat \ {0} /\ Kopeck \in Nat \ {0}

\* ErrLiquidity and ErrInvalid: no amount.
Failed == 0

Lesser(a, b) == IF a <= b THEN a ELSE b

\* Mutants: the quotient is cut; a step is added even when nothing is left.
CutRatio(n, denominator, step) == (n \div (denominator * step)) * step
NextRatio(n, denominator, step) == (n \div (denominator * step) + 1) * step
CeilRatio(n, denominator, step) ==
    LET q == n \div (denominator * step)
        r == n % (denominator * step)
    IN (IF r > 0 THEN q + 1 ELSE q) * step

Ceil(n, step) == CeilRatio(n, 1, step)

LevelType == [price : Int, amount : Int]
Valid(levels) == \A i \in DOMAIN levels : levels[i].price > 0 /\ levels[i].amount > 0

Cheaper(a, b) == a.price < b.price
Dearer(a, b)  == a.price > b.price

\* slices.SortFunc: the elements rearranged so that none stands behind one it goes before.
Sorted(s, Before(_, _)) ==
    LET order == CHOOSE p \in Bijection(DOMAIN s, DOMAIN s) :
                   \A i, j \in DOMAIN s : i < j => ~Before(s[p[j]], s[p[i]])
    IN [i \in DOMAIN s |-> s[order[i]]]

\* Amount taken from the levels, best first, and what it costs or earns.
Take(acc, l) ==
    LET take == Lesser(acc.left, l.amount) IN
    [left |-> acc.left - take, money |-> acc.money + take * l.price]
Walk(amount, levels) == FoldLeft(Take, [left |-> amount, money |-> 0], levels)

\* Mutant: the levels are walked as they came.
AsListed(asks) == asks
BestAsks(asks) == Sorted(asks, Cheaper)
BestBids(bids) == Sorted(bids, Dearer)

CalculateBuyCost(target, asks) ==
    LET walk == Walk(target, BestAsks(asks)) IN
    IF target > 0 /\ Valid(asks) /\ walk.left = 0 THEN walk.money ELSE Failed

\* What selling base earns, in parts of One, when the fee is taken from the proceeds.
Proceeds(base, rate, levels) == Walk(base, levels).money * (One - rate)

\* The amount, rounded to the step, must still fit the book.
VerifySell(base, target, rate, levels) ==
    IF Walk(base, levels).left > 0 \/ Proceeds(base, rate, levels) < target * One
    THEN Failed ELSE base

\* What the first i levels hold.
Depth(levels, i) == FoldLeft(LAMBDA sum, l : sum + l.amount, 0, SubSeq(levels, 1, i))

\* To sell into the levels up to the last one brings the target, rounded to the step.
SoldUpTo(last, target, rate, step, levels) ==
    LET net  == levels[last].price * (One - rate)
        left == target * One - Proceeds(Depth(levels, last - 1), rate, levels)
    IN CeilRatio(Depth(levels, last - 1) * net + left, net, step)

\* The first level at which the target is reached tells how much must be sold.
SellForQuote(target, rate, step, bids) ==
    LET levels == BestBids(bids)
        enough == {i \in DOMAIN levels :
                     Proceeds(Depth(levels, i), rate, levels) >= target * One}
    IN
    IF target <= 0 \/ rate < 0 \/ rate >= One \/ step <= 0 \/ ~Valid(bids) \/ enough = {}
    THEN Failed
    ELSE LET last == CHOOSE i \in enough : \A j \in enough : i <= j
         IN VerifySell(SoldUpTo(last, target, rate, step, levels), target, rate, levels)

-----------------------------------------------------------------------------
(* P2P offers.  A filter asks for a payment method ("" for any), a number   *)
(* of orders and a completion rate.                                         *)

PaymentMatches(wanted, methods) == wanted = "" \/ wanted \in methods

\* An advertisement with a list of countries may be refused to anyone.
CountryEligible(o) == ~o.restricted

Lots(amount, o) == IF o.assetStep > 0 THEN Ceil(amount, o.assetStep) ELSE amount
Price(amount, o) == Ceil(Lots(amount, o) * o.price, Kopeck)

Covers(o, amount, asset, f) ==
    /\ CountryEligible(o) /\ o.asset = asset
    /\ o.price > 0 /\ o.min >= 0 /\ o.max >= o.min
    /\ f.completion <= o.completion /\ o.completion <= 100 /\ o.orders >= f.orders
    /\ o.available >= amount /\ PaymentMatches(f.payment, o.methods)
    /\ o.available >= Lots(amount, o)
    /\ o.min <= Price(amount, o) /\ Price(amount, o) <= o.max

\* The cheapest offer that covers the whole amount, the first of several; 0 for none.
SelectP2P(amount, asset, offers, f) ==
    LET able == {i \in DOMAIN offers : amount > 0 /\ Covers(offers[i], amount, asset, f)}
        Before(i, j) == \/ Price(amount, offers[i]) < Price(amount, offers[j])
                        \/ Price(amount, offers[i]) = Price(amount, offers[j]) /\ i <= j
    IN IF able = {} THEN 0 ELSE CHOOSE i \in able : \A j \in able : Before(i, j)
=============================================================================
