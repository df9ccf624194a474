---------------------------- MODULE RouteProofs ----------------------------
(***************************************************************************)
(* Proofs about the route engine, for every market, target and filter:     *)
(* what the venues make of an amount (Route's Yields) is compared with     *)
(* what the code's backward steps ask for, by the lemmas about money.      *)
(***************************************************************************)
EXTENDS Route, MoneyProofs

-----------------------------------------------------------------------------
(* The ways to fill an order. *)

Totals(levels, f) == [base |-> Base(levels, f), money |-> Money(levels, f)]

\* The ways Route enumerates are the fills of the lemmas about money.
LEMMA FillsAre ==
    ASSUME NEW levels \in Books
    PROVE  Fills(levels) = {Totals(levels, f) : f \in Filling(levels)}
<1> DEFINE n == Len(levels)
           deepest == Deepest(levels)
           takes == {f \in [DOMAIN levels -> 0..deepest] : \A i \in DOMAIN levels : f[i] <= levels[i].amount}
           W(f) == [i \in DOMAIN levels |-> f[i] * levels[i].price]
<1>1. n \in Nat /\ DOMAIN levels = 1..n /\ \A i \in 1..n : levels[i].amount \in Nat
  BY LevelsPositive DEF Books
<1>2. deepest \in Nat /\ \A i \in 1..n : levels[i].amount <= deepest
  <2> DEFINE A == {0} \cup {levels[i].amount : i \in DOMAIN levels}
  <2>1. A \in SUBSET Nat /\ A # {} /\ deepest = Max(A)
    BY <1>1 DEF Deepest
  <2>2. \E b \in Nat : \A x \in A : x <= b
    <3>1. CASE n = 0
      BY <1>1, <3>1
    <3>2. CASE n # 0
      <4> DEFINE k == [i \in 1..n |-> levels[i].amount]
      <4>1. IsFiniteSet(1..n) /\ 1..n # {} /\ \A i \in 1..n : k[i] \in Int
        <5>1. IsFiniteSet(1..n)
          BY <1>1, FS_Interval
        <5> QED BY <1>1, <3>2, <5>1
      <4>2. PICK m \in 1..n : \A i \in 1..n : k[i] <= k[m]
        <5> HIDE DEF k
        <5> QED BY <4>1, GreatestExists
      <4>3. \A x \in A : x <= levels[m].amount
        BY <1>1, <4>2
      <4> QED BY <1>1, <4>3
    <3> QED BY <3>1, <3>2
  <2>3. Max(A) \in A /\ \A x \in A : Max(A) >= x
    <3> HIDE DEF A
    <3> QED BY <2>1, <2>2, MaxOfBounded
  <2>4. \A i \in 1..n : levels[i].amount \in A
    BY <1>1
  <2> HIDE DEF A, deepest
  <2>5. Max(A) \in Nat
    BY <2>1, <2>3
  <2> QED BY <1>1, <2>1, <2>3, <2>4, <2>5
<1> HIDE DEF deepest
<1>3. takes = Filling(levels)
  <2>1. ASSUME NEW f \in takes PROVE f \in Filling(levels)
    BY <1>1, <1>2 DEF Filling
  <2>2. ASSUME NEW f \in Filling(levels) PROVE f \in takes
    <3>1. f \in [1..n -> Nat] /\ \A i \in 1..n : f[i] <= levels[i].amount
      BY DEF Filling
    <3>2. \A i \in 1..n : f[i] \in 0..deepest
      BY <1>1, <1>2, <3>1
    <3> QED BY <1>1, <3>1, <3>2
  <2> QED BY <2>1, <2>2
<1>4. Fills(levels) = {[base |-> FoldFunction(+, 0, f), money |-> FoldFunction(+, 0, W(f))] : f \in takes}
  BY DEF Fills, deepest
<1>5. ASSUME NEW f \in Filling(levels)
      PROVE  [base |-> FoldFunction(+, 0, f), money |-> FoldFunction(+, 0, W(f))] = Totals(levels, f)
  <2>1. DOMAIN f = 1..n
    BY DEF Filling
  <2>2. W(f) = Worth(levels, f) /\ DOMAIN W(f) = 1..n
    BY <1>1 DEF Worth
  <2>3. FoldFunction(+, 0, f) = Base(levels, f)
    BY <2>1 DEF FoldFunction, Base, SumOn
  <2>4. FoldFunction(+, 0, W(f)) = Money(levels, f)
    BY <2>2 DEF FoldFunction, Money, SumOn
  <2> QED BY <2>3, <2>4 DEF Totals
<1> HIDE DEF takes, W
<1> QED BY <1>3, <1>4, <1>5

\* The totals of fills are naturals, no greater than those of the whole book, and nothing can be taken.
LEMMA TotalsType ==
    ASSUME NEW levels \in Books
    PROVE  /\ \A r \in Fills(levels) : r.base \in Nat /\ r.money \in Nat
           /\ \E full \in Filling(levels) : \A r \in Fills(levels) :
                r.base <= Base(levels, full) /\ r.money <= Money(levels, full)
           /\ \E r \in Fills(levels) : r.base = 0 /\ r.money = 0
<1> DEFINE n == Len(levels)
<1>1. n \in Nat /\ \A i \in 1..n : levels[i].amount \in Nat
  BY LevelsPositive DEF Books
<1>2. \A r \in Fills(levels) : \E f \in Filling(levels) : r = Totals(levels, f)
  BY FillsAre
<1>3. \A f \in Filling(levels) : Base(levels, f) \in Nat /\ Money(levels, f) \in Nat
  BY FillsBounded, FillType
<1>4. \A r \in Fills(levels) : r.base \in Nat /\ r.money \in Nat
  BY <1>2, <1>3 DEF Totals
<1>5. PICK full \in Filling(levels) : \A i \in 1..n : full[i] = levels[i].amount
  <2> DEFINE a == [i \in 1..n |-> levels[i].amount]
  <2>1. a \in [1..n -> Nat] /\ \A i \in 1..n : a[i] <= levels[i].amount /\ a[i] = levels[i].amount
    BY <1>1
  <2>2. a \in Filling(levels)
    <3> HIDE DEF a
    <3> QED BY <2>1 DEF Filling
  <2> QED BY <2>1, <2>2
<1>6. ASSUME NEW r \in Fills(levels)
      PROVE  r.base <= Base(levels, full) /\ r.money <= Money(levels, full)
  <2>1. PICK f \in Filling(levels) : r = Totals(levels, f)
    BY <1>2
  <2>2. Base(levels, f) <= Base(levels, full) /\ Money(levels, f) <= Money(levels, full)
    BY <1>5, FillsBounded
  <2> QED BY <2>1, <2>2 DEF Totals
<1>7. \E r \in Fills(levels) : r.base = 0 /\ r.money = 0
  <2> DEFINE z == [i \in 1..n |-> 0]
  <2>1. z \in [1..n -> Nat] /\ \A i \in 1..n : z[i] = 0 /\ z[i] <= levels[i].amount
    BY <1>1
  <2> HIDE DEF z
  <2>2. z \in Filling(levels)
    BY <2>1 DEF Filling
  <2>3. IsFiniteSet(1..n) /\ \A i \in 1..n : Worth(levels, z)[i] = 0
    <3>1. IsFiniteSet(1..n)
      BY <1>1, FS_Interval
    <3>2. \A i \in 1..n : levels[i].price \in Int
      BY LevelsPositive
    <3> QED BY <2>1, <3>1, <3>2 DEF Worth
  <2>4. Base(levels, z) = 0 /\ Money(levels, z) = 0
    BY <2>1, <2>3, SumZero DEF Base, Money
  <2>5. Totals(levels, z) \in Fills(levels)
    BY <2>2, FillsAre
  <2> QED BY <2>4, <2>5 DEF Totals
<1> QED BY <1>4, <1>6, <1>7

\* The greatest sum of some of the ways is that of one of them.
LEMMA BestOfSome ==
    ASSUME NEW levels \in Books, NEW P \in SUBSET Fills(levels), P # {}
    PROVE  /\ \E r \in P : Max({q.base : q \in P}) = r.base /\ \A q \in P : q.base <= r.base
           /\ \E r \in P : Max({q.money : q \in P}) = r.money /\ \A q \in P : q.money <= r.money
<1>1. PICK full \in Filling(levels) : \A r \in Fills(levels) :
        r.base <= Base(levels, full) /\ r.money <= Money(levels, full)
  BY TotalsType
<1>2. Base(levels, full) \in Nat /\ Money(levels, full) \in Nat
  BY FillsBounded, FillType
<1>3. \A r \in P : r.base \in Nat /\ r.money \in Nat
  BY TotalsType
<1>4. \E r \in P : Max({q.base : q \in P}) = r.base /\ \A q \in P : q.base <= r.base
  <2> DEFINE S == {q.base : q \in P}
  <2>1. S \in SUBSET Nat /\ S # {} /\ \A x \in S : x <= Base(levels, full)
    BY <1>1, <1>3
  <2>2. \A q \in P : q.base \in S
    OBVIOUS
  <2>3. \A x \in S : \E q \in P : x = q.base
    OBVIOUS
  <2> HIDE DEF S
  <2>4. Max(S) \in S /\ \A x \in S : Max(S) >= x
    BY <1>2, <2>1, MaxOfBounded
  <2>5. PICK r \in P : Max(S) = r.base
    BY <2>3, <2>4
  <2>6. \A q \in P : q.base <= r.base
    BY <1>3, <2>2, <2>4, <2>5
  <2> QED BY <2>5, <2>6 DEF S
<1>5. \E r \in P : Max({q.money : q \in P}) = r.money /\ \A q \in P : q.money <= r.money
  <2> DEFINE S == {q.money : q \in P}
  <2>1. S \in SUBSET Nat /\ S # {} /\ \A x \in S : x <= Money(levels, full)
    BY <1>1, <1>3
  <2>2. \A q \in P : q.money \in S
    OBVIOUS
  <2>3. \A x \in S : \E q \in P : x = q.money
    OBVIOUS
  <2> HIDE DEF S
  <2>4. Max(S) \in S /\ \A x \in S : Max(S) >= x
    BY <1>2, <2>1, MaxOfBounded
  <2>5. PICK r \in P : Max(S) = r.money
    BY <2>3, <2>4
  <2>6. \A q \in P : q.money <= r.money
    BY <1>3, <2>2, <2>4, <2>5
  <2> QED BY <2>5, <2>6 DEF S
<1> QED BY <1>4, <1>5

\* Cut to whole steps.
LEMMA WholeIs ==
    ASSUME NEW x \in Nat, NEW step \in Int
    PROVE  /\ Whole(x, step) \in Nat /\ Whole(x, step) <= x
           /\ step > 0 => Steps(Whole(x, step), step)
           /\ step > 0 /\ Steps(x, step) => Whole(x, step) = x
           /\ ~ (step > 0) => Whole(x, step) = x
<1>1. CASE ~ (step > 0)
  BY <1>1 DEF Whole
<1>2. CASE step > 0
  <2>1. step \in Nat \ {0}
    BY <1>2
  <2>2. x \div step \in Int /\ x % step \in 0..(step - 1) /\ x % step = x - step * (x \div step)
    BY <2>1, Divided
  <2>3. Whole(x, step) = x - (x % step)
    BY <1>2 DEF Whole
  <2>4. Whole(x, step) = (x \div step) * step
    BY <2>2, <2>3
  <2>5. Steps(x, step) => x % step = 0
    BY <2>1, StepsByRemainder
  <2>6. x \div step \in Nat
    BY <2>1
  <2>7. Whole(x, step) \in Nat
    BY <2>1, <2>4, <2>6, ProductNatural
  <2>8. Steps(Whole(x, step), step)
    BY <2>2, <2>4 DEF Steps
  <2>9. Whole(x, step) <= x
    BY <2>2, <2>3
  <2>10. Steps(x, step) => Whole(x, step) = x
    BY <2>3, <2>5
  <2> QED BY <1>2, <2>7, <2>8, <2>9, <2>10
<1> QED BY <1>1, <1>2

\* What is earned by selling no more than cap.
Sold(bids, cap) == {f \in Fills(bids) : f.base <= cap}
\* The greatest proceeds from what may be sold are reached by some fill and exceeded by none.
LEMMA SoldBest ==
    ASSUME NEW bids \in Books, NEW cap \in Nat
    PROVE  LET best == Max({f.money : f \in Sold(bids, cap)}) IN
           /\ best \in Nat
           /\ \E f \in Filling(bids) : Base(bids, f) <= cap /\ Money(bids, f) = best
           /\ \A f \in Filling(bids) : Base(bids, f) <= cap => Money(bids, f) <= best
<1> DEFINE P == Sold(bids, cap)
<1>1. P \in SUBSET Fills(bids) /\ P # {}
  <2>1. PICK r \in Fills(bids) : r.base = 0
    BY TotalsType
  <2>2. r \in P
    BY <2>1 DEF Sold
  <2> QED BY <2>2 DEF Sold
<1>2. \A r \in P : r \in Fills(bids) /\ r.base <= cap
  BY DEF Sold
<1>3. \A f \in Filling(bids) : Base(bids, f) <= cap => Totals(bids, f) \in P
  BY FillsAre DEF Sold, Totals
<1> HIDE DEF P
<1>4. PICK r \in P : Max({q.money : q \in P}) = r.money /\ \A q \in P : q.money <= r.money
  BY <1>1, BestOfSome
<1>5. PICK f \in Filling(bids) : r = Totals(bids, f)
  BY <1>2, FillsAre
<1>6. r.money \in Nat /\ Base(bids, f) <= cap /\ Money(bids, f) = r.money
  BY <1>2, <1>5, TotalsType DEF Totals
<1>7. \A g \in Filling(bids) : Base(bids, g) <= cap => Money(bids, g) <= r.money
  BY <1>3, <1>4 DEF Totals
<1> QED BY <1>4, <1>6, <1>7 DEF P

\* What is bought for no more than cap, in whole steps.
Paid(asks, cap, step) == {f \in Fills(asks) : f.money <= cap /\ f.base % step = 0}
\* The most that can be bought for the money is reached by some fill and exceeded by none.
LEMMA PaidBest ==
    ASSUME NEW asks \in Books, NEW cap \in Nat, NEW step \in Nat \ {0}
    PROVE  LET best == Max({f.base : f \in Paid(asks, cap, step)}) IN
           /\ best \in Nat
           /\ \E f \in Filling(asks) :
                Money(asks, f) <= cap /\ Steps(Base(asks, f), step) /\ Base(asks, f) = best
           /\ \A f \in Filling(asks) :
                Money(asks, f) <= cap /\ Steps(Base(asks, f), step) => Base(asks, f) <= best
<1> DEFINE P == Paid(asks, cap, step)
<1>1. P \in SUBSET Fills(asks) /\ P # {}
  <2>1. PICK r \in Fills(asks) : r.base = 0 /\ r.money = 0
    BY TotalsType
  <2>2. Steps(0, step)
    BY DEF Steps
  <2>3. 0 % step = 0
    BY <2>2, StepsByRemainder
  <2>4. r \in P
    BY <2>1, <2>3 DEF Paid
  <2> QED BY <2>4 DEF Paid
<1>2. \A r \in P : r \in Fills(asks) /\ r.money <= cap /\ r.base % step = 0
  BY DEF Paid
<1>3. ASSUME NEW f \in Filling(asks), Money(asks, f) <= cap, Steps(Base(asks, f), step)
      PROVE  Totals(asks, f) \in P
  <2>1. Base(asks, f) % step = 0
    BY <1>3, FillType, StepsByRemainder
  <2> QED BY <1>3, <2>1, FillsAre DEF Paid, Totals
<1> HIDE DEF P
<1>4. PICK r \in P : Max({q.base : q \in P}) = r.base /\ \A q \in P : q.base <= r.base
  BY <1>1, BestOfSome
<1>5. PICK f \in Filling(asks) : r = Totals(asks, f)
  BY <1>2, FillsAre
<1>6. r.base \in Nat /\ Money(asks, f) <= cap /\ Base(asks, f) = r.base
  BY <1>2, <1>5, TotalsType DEF Totals
<1>7. Steps(Base(asks, f), step)
  BY <1>2, <1>6, StepsByRemainder
<1>8. \A g \in Filling(asks) :
        Money(asks, g) <= cap /\ Steps(Base(asks, g), step) => Base(asks, g) <= r.base
  BY <1>3, <1>4 DEF Totals
<1> QED BY <1>4, <1>6, <1>7, <1>8 DEF P

-----------------------------------------------------------------------------
(* One step: what it asks for, and what comes of it. *)

StepSet == [kind : {"buy", "sell", "withdraw", "deposit"}, key : Keys]

\* A step that has its data has well-formed fees, books and instruments.
LEMMA StepData ==
    ASSUME market \in Markets, NEW s \in StepSet, Ready(s)
    PROVE  /\ FeeOf(s) \in FeeType
           /\ s.kind = "withdraw" => FeeOf(s).fixed \in Nat /\ FeeOf(s).step \in Nat \ {0}
           /\ s.kind \in {"buy", "sell"} =>
                /\ BookOf(s) \in BookType /\ InstOf(s) \in InstType
                /\ FeeOf(s).rate \in 0..(One - 1) /\ InstOf(s).step \in Nat \ {0}
<1>1. s.key \in Keys /\ s.kind \in {"buy", "sell", "withdraw", "deposit"}
  BY DEF StepSet
<1>2. /\ Typed(market.books, BookType) /\ Typed(market.instruments, InstType)
      /\ Typed(market.trade, FeeType) /\ Typed(market.deposit, FeeType) /\ Typed(market.fees, FeeType)
  BY RouteAssumption
<1>3. FeeOf(s) \in FeeType
  <2>1. FeeOf(s) \in FeeType \cup {Missing}
    BY <1>1, <1>2 DEF FeeOf, Typed
  <2>2. FeeOf(s) # Missing
    BY DEF Ready
  <2> QED BY <2>1, <2>2
<1>4. FeeOf(s).rate \in Int /\ FeeOf(s).fixed \in Int /\ FeeOf(s).step \in Int
  BY <1>3 DEF FeeType
<1>5. ASSUME s.kind = "withdraw" PROVE FeeOf(s).fixed \in Nat /\ FeeOf(s).step \in Nat \ {0}
  <2>1. FeeOf(s).fixed >= 0 /\ FeeOf(s).step > 0
    BY <1>5 DEF Ready
  <2> QED BY <1>4, <2>1
<1>6. ASSUME s.kind \in {"buy", "sell"}
      PROVE  /\ BookOf(s) \in BookType /\ InstOf(s) \in InstType
             /\ FeeOf(s).rate \in 0..(One - 1) /\ InstOf(s).step \in Nat \ {0}
  <2>1. BookOf(s) \in BookType \cup {Missing} /\ InstOf(s) \in InstType \cup {Missing}
    BY <1>1, <1>2 DEF BookOf, InstOf, Typed
  <2>2. /\ BookOf(s) # Missing /\ InstOf(s) # Missing
        /\ FeeOf(s).rate >= 0 /\ FeeOf(s).rate < One /\ InstOf(s).step > 0
    BY <1>6 DEF Ready
  <2>3. InstOf(s) \in InstType /\ BookOf(s) \in BookType
    BY <2>1, <2>2
  <2>4. InstOf(s).step \in Int
    BY <2>3 DEF InstType
  <2> QED BY <1>4, <2>2, <2>3, <2>4, MoneyAssumption
<1> QED BY <1>3, <1>5, <1>6

\* The step asks for x so that n comes of it: x brings n, and one less does not.
Exact(s, n, x) == Yields(s, x) >= n * One /\ Yields(s, x - 1) < n * One

\* A deposit asks for what must arrive.
LEMMA DepositStep ==
    ASSUME NEW s, s.kind = "deposit", NEW n \in Nat \ {0}
    PROVE  Input(s, n) \in Nat \ {0} /\ Exact(s, n, Input(s, n))
<1>1. Input(s, n) = n /\ \A x : Yields(s, x) = x * One
  BY DEF Input, Yields
<1>2. (n - 1) * One < n * One /\ n * One >= n * One
  BY MoneyAssumption
<1> QED BY <1>1, <1>2 DEF Exact

\* A withdrawal asks exactly for the fee and the amount, rounded to the step, that must arrive.
LEMMA WithdrawStep ==
    ASSUME market \in Markets, NEW s \in StepSet, Ready(s), s.kind = "withdraw", NEW n \in Nat \ {0}
    PROVE  /\ Input(s, n) \in Nat \ {0} /\ Exact(s, n, Input(s, n))
           /\ Ceil(n, FeeOf(s).step) \in Nat /\ Ceil(n, FeeOf(s).step) >= n
           /\ Yields(s, Input(s, n)) >= Ceil(n, FeeOf(s).step) * One
<1> DEFINE step == FeeOf(s).step
           fixed == FeeOf(s).fixed
           c == Ceil(n, step)
           x == Input(s, n)
           Rest(y) == y - fixed
<1>1. fixed \in Nat /\ step \in Nat \ {0} /\ One \in Nat \ {0}
  BY StepData, MoneyAssumption
<1>2. x = c + fixed
  BY DEF Input, Above
<1>3. /\ c \in Int /\ Steps(c, step) /\ c >= n
      /\ \A y \in Int : Steps(y, step) /\ y >= n => y >= c
  <2>1. n \in Int
    OBVIOUS
  <2> HIDE DEF step
  <2> QED BY <1>1, <2>1, CeilLeast DEF c
<1>4. \A y : Yields(s, y) = IF y - fixed > 0 THEN Whole(y - fixed, step) * One ELSE 0
  BY DEF Yields
<1> HIDE DEF c, x, step, fixed
<1>5. c \in Nat \ {0} /\ x \in Nat \ {0}
  BY <1>1, <1>2, <1>3
<1>6. Yields(s, x) = c * One
  <2>1. x - fixed = c
    BY <1>1, <1>2, <1>3
  <2>2. Whole(c, step) = c
    BY <1>1, <1>3, <1>5, WholeIs
  <2> QED BY <1>4, <1>5, <2>1, <2>2
<1>7. c * One >= n * One
  BY <1>1, <1>3, Products
<1>8. Yields(s, x - 1) < n * One
  <2> DEFINE y == c - 1
             m == Whole(y, step)
  <2>1. (x - 1) - fixed = y /\ y \in Nat
    BY <1>1, <1>2, <1>5
  <2> HIDE DEF y
  <2>2. m \in Nat /\ m <= y /\ Steps(m, step)
    <3>1. step \in Int /\ step > 0
      BY <1>1
    <3> QED BY <2>1, <3>1, WholeIs
  <2> HIDE DEF m
  <2>3. m < n
    BY <1>3, <1>5, <2>1, <2>2 DEF y
  <2>4. m * One < n * One /\ 0 < n * One
    BY <1>1, <2>2, <2>3, Products
  <2>5. Yields(s, x - 1) = IF y > 0 THEN m * One ELSE 0
    BY <1>4, <2>1 DEF m
  <2> QED BY <2>4, <2>5
<1>9. c * One \in Int
  BY <1>1, <1>5
<1>10. Exact(s, n, x)
  BY <1>6, <1>7, <1>8 DEF Exact
<1>11. Yields(s, x) >= c * One /\ c \in Nat /\ c >= n
  BY <1>3, <1>5, <1>6, <1>9
<1> QED BY <1>5, <1>10, <1>11 DEF c, x, step

\* A sale asks for the least that brings the target, or the book cannot bring it.
LEMMA SellStep ==
    ASSUME market \in Markets, NEW s \in StepSet, Ready(s), s.kind = "sell", NEW n \in Nat \ {0}
    PROVE  /\ Input(s, n) \in Nat
           /\ Input(s, n) # Failed => Exact(s, n, Input(s, n))
           /\ Input(s, n) = Failed => Yields(s, AllOf(s)) < n * One
<1> DEFINE bids == BookOf(s).bids
           rate == FeeOf(s).rate
           step == InstOf(s).step
           c == One - rate
           x == SellForQuote(n, rate, step, bids)
           best(y) == Max({f.money : f \in Sold(bids, Whole(y, step))})
<1>1. rate \in 0..(One - 1) /\ step \in Nat \ {0} /\ One \in Nat \ {0}
  BY StepData, MoneyAssumption
<1>2. bids \in Seq(LevelType) /\ Valid(bids) /\ bids \in Books
  <2>1. BookOf(s) \in BookType
    BY StepData
  <2> QED BY <2>1 DEF BookType, Books
<1>3. Input(s, n) = x
  BY DEF Input
<1>4. \A y : Yields(s, y) = best(y) * c
  BY DEF Yields, Sold
<1>5. AllOf(s) = Max({f.base : f \in Fills(bids)})
  BY DEF AllOf
<1> HIDE DEF bids, rate, step
<1>6. /\ x \in Nat
      /\ x # Failed =>
           /\ bids \in Books /\ Steps(x, step)
           /\ \E f \in Filling(bids) : Base(bids, f) = x /\ Money(bids, f) * c >= n * One
           /\ \A y \in Int, f \in Filling(bids) :
                Steps(y, step) /\ y < x /\ Base(bids, f) <= y => Money(bids, f) * c < n * One
      /\ x = Failed /\ Valid(bids) =>
           \A y \in Int, f \in Filling(bids), most \in Filling(bids) :
             Steps(y, step) /\ Base(bids, f) <= y /\ y <= Base(bids, most) =>
               Money(bids, f) * c < n * One
  BY <1>1, <1>2, SellIsLeast
<1> HIDE DEF x, c
<1>7. c \in Nat \ {0}
  BY <1>1 DEF c
<1>8. ASSUME NEW y \in Nat
      PROVE  /\ Whole(y, step) \in Nat /\ Whole(y, step) <= y /\ Steps(Whole(y, step), step)
             /\ Steps(y, step) => Whole(y, step) = y
             /\ best(y) \in Nat
             /\ \E f \in Filling(bids) : Base(bids, f) <= Whole(y, step) /\ Money(bids, f) = best(y)
             /\ \A f \in Filling(bids) : Base(bids, f) <= Whole(y, step) => Money(bids, f) <= best(y)
  <2>1. /\ Whole(y, step) \in Nat /\ Whole(y, step) <= y /\ Steps(Whole(y, step), step)
        /\ Steps(y, step) => Whole(y, step) = y
    BY <1>1, WholeIs
  <2> QED BY <1>2, <2>1, SoldBest
<1> HIDE DEF best
<1>9. ASSUME x # Failed PROVE Exact(s, n, x)
  <2>1. x \in Nat \ {0}
    BY <1>6, <1>9 DEF Failed
  <2>2. best(x) * c >= n * One
    <3>1. PICK f \in Filling(bids) : Base(bids, f) = x /\ Money(bids, f) * c >= n * One
      BY <1>6, <1>9
    <3>2. Money(bids, f) <= best(x) /\ Money(bids, f) \in Int /\ best(x) \in Int
      BY <1>2, <1>6, <1>8, <1>9, <2>1, <3>1, FillType
    <3>3. Money(bids, f) * c <= best(x) * c
      BY <1>7, <3>2, Products
    <3>4. Money(bids, f) * c \in Int /\ best(x) * c \in Int /\ n * One \in Int
      BY <1>1, <1>7, <3>2
    <3> QED BY <3>1, <3>3, <3>4
  <2>3. best(x - 1) * c < n * One
    <3>1. x - 1 \in Nat
      BY <2>1
    <3>2. PICK f \in Filling(bids) :
            Base(bids, f) <= Whole(x - 1, step) /\ Money(bids, f) = best(x - 1)
      BY <1>8, <3>1
    <3>3. Whole(x - 1, step) \in Int /\ Steps(Whole(x - 1, step), step) /\ Whole(x - 1, step) < x
      BY <1>8, <2>1, <3>1
    <3>4. Money(bids, f) * c < n * One
      BY <1>6, <1>9, <3>2, <3>3
    <3> QED BY <3>2, <3>4
  <2> QED BY <1>4, <2>2, <2>3 DEF Exact
<1>10. ASSUME x = Failed PROVE Yields(s, AllOf(s)) < n * One
  <2> DEFINE all == Max({f.base : f \in Fills(bids)})
  <2>1. \E r \in Fills(bids) : all = r.base
    <3>1. Fills(bids) \in SUBSET Fills(bids) /\ Fills(bids) # {}
      BY <1>2, TotalsType
    <3> QED BY <1>2, <3>1, BestOfSome
  <2> HIDE DEF all
  <2>2. PICK most \in Filling(bids) : all = Base(bids, most)
    BY <1>2, <2>1, FillsAre DEF Totals
  <2>3. all \in Nat
    BY <1>2, <2>1, TotalsType
  <2>4. PICK f \in Filling(bids) : Base(bids, f) <= Whole(all, step) /\ Money(bids, f) = best(all)
    BY <1>8, <2>3
  <2>5. Money(bids, f) * c < n * One
    BY <1>2, <1>6, <1>8, <1>10, <2>2, <2>3, <2>4
  <2> QED BY <1>4, <1>5, <2>4, <2>5 DEF all
<1> QED BY <1>3, <1>6, <1>9, <1>10

\* A purchase asks for the least that brings the target, or the book cannot bring it.
LEMMA BuyStep ==
    ASSUME market \in Markets, NEW s \in StepSet, Ready(s), s.kind = "buy", NEW n \in Nat \ {0}
    PROVE  /\ Input(s, n) \in Nat
           /\ Input(s, n) # Failed => Exact(s, n, Input(s, n))
           /\ Input(s, n) = Failed => Yields(s, AllOf(s)) < n * One
<1> DEFINE asks == BookOf(s).asks
           rate == FeeOf(s).rate
           step == InstOf(s).step
           q == InstOf(s).quoteStep
           c == One - rate
           B == BaseBought(s, n)
           cost == CalculateBuyCost(B, asks)
           x == RoundedCost(cost, q)
           best(y) == Max({f.base : f \in Paid(asks, Whole(y, q), step)})
<1>1. rate \in 0..(One - 1) /\ step \in Nat \ {0} /\ One \in Nat \ {0} /\ q \in Int
  <2>1. InstOf(s) \in InstType
    BY StepData
  <2>2. q \in Int
    BY <2>1 DEF InstType
  <2> QED BY <2>2, StepData, MoneyAssumption
<1>2. asks \in Seq(LevelType) /\ Valid(asks) /\ asks \in Books
  <2>1. BookOf(s) \in BookType
    BY StepData
  <2> QED BY <2>1 DEF BookType, Books
<1>3. Input(s, n) = x
  BY DEF Input
<1>4. \A y : Yields(s, y) = best(y) * c
  BY DEF Yields, Paid
<1>5. AllOf(s) = LET all == Max({f.money : f \in Fills(asks)}) IN IF q > 0 THEN all + q ELSE all
  BY DEF AllOf
<1>6. B = CeilRatio(n * One, c, step)
  BY DEF BaseBought
<1> HIDE DEF asks, rate, step, q, B, cost
<1>7. c \in Nat \ {0} /\ n * One \in Nat \ {0}
  BY <1>1
<1> HIDE DEF c
<1>8. /\ B \in Int /\ Steps(B, step) /\ B * c >= n * One
      /\ \A y \in Int : Steps(y, step) /\ y * c >= n * One => y >= B
  BY <1>1, <1>6, <1>7, CeilRatioLeast
<1>9. B \in Nat \ {0}
  <2>1. 0 * c < B * c
    BY <1>7, <1>8
  <2>2. 0 < B
    BY <1>7, <1>8, <2>1, Products
  <2> QED BY <1>8, <2>2
<1>10. /\ cost \in Nat
       /\ cost # Failed =>
            /\ \E f \in Filling(asks) : Base(asks, f) = B /\ Money(asks, f) = cost
            /\ \A f \in Filling(asks) : Base(asks, f) >= B => Money(asks, f) >= cost
       /\ cost = Failed => \A f \in Filling(asks) : Base(asks, f) < B
  BY <1>2, <1>9, BuyCostIsLeast DEF cost
<1>11. /\ x \in Nat /\ x >= cost /\ (x = Failed <=> cost = Failed)
       /\ q > 0 /\ cost # Failed => Steps(x, q) /\ \A y \in Int : Steps(y, q) /\ y >= cost => y >= x
       /\ ~ (q > 0) => x = cost
  <2>1. CASE cost # Failed /\ q > 0
    <3>1. x = Ceil(cost, q) /\ q \in Nat \ {0} /\ cost \in Int /\ cost > 0
      BY <1>1, <1>10, <2>1 DEF RoundedCost, Failed
    <3> HIDE DEF x
    <3>2. /\ x \in Int /\ Steps(x, q) /\ x >= cost
          /\ \A y \in Int : Steps(y, q) /\ y >= cost => y >= x
      BY <3>1, CeilLeast
    <3> QED BY <2>1, <3>1, <3>2 DEF Failed
  <2>2. CASE ~ (cost # Failed /\ q > 0)
    BY <1>10, <2>2 DEF RoundedCost
  <2> QED BY <2>1, <2>2
<1> HIDE DEF x
<1>12. ASSUME NEW y \in Nat
       PROVE  /\ Whole(y, q) \in Nat /\ Whole(y, q) <= y
              /\ q > 0 => Steps(Whole(y, q), q)
              /\ q > 0 /\ Steps(y, q) => Whole(y, q) = y
              /\ ~ (q > 0) => Whole(y, q) = y
  BY <1>1, WholeIs
<1>13. ASSUME NEW y \in Nat
       PROVE  /\ best(y) \in Nat
              /\ \E f \in Filling(asks) :
                   Money(asks, f) <= Whole(y, q) /\ Steps(Base(asks, f), step) /\ Base(asks, f) = best(y)
              /\ \A f \in Filling(asks) :
                   Money(asks, f) <= Whole(y, q) /\ Steps(Base(asks, f), step) => Base(asks, f) <= best(y)
  BY <1>1, <1>2, <1>12, PaidBest
<1> HIDE DEF best
<1>14. ASSUME NEW b \in Int, Steps(b, step), b < B PROVE b * c < n * One
  <2>1. b * c \in Int /\ ~ (b * c >= n * One)
    BY <1>7, <1>8, <1>14
  <2> QED BY <1>7, <2>1
<1>15. ASSUME x # Failed PROVE Exact(s, n, x)
  <2>1. x \in Nat \ {0} /\ cost # Failed
    BY <1>11, <1>15 DEF Failed
  <2>2. best(x) * c >= n * One
    <3>1. PICK f \in Filling(asks) : Base(asks, f) = B /\ Money(asks, f) = cost
      BY <1>10, <2>1
    <3>2. Whole(x, q) = x
      BY <1>11, <1>12, <2>1
    <3>3. Money(asks, f) <= Whole(x, q)
      BY <1>11, <3>1, <3>2
    <3>4. B <= best(x) /\ best(x) \in Nat
      BY <1>8, <1>11, <1>13, <3>1, <3>3
    <3>5. B * c <= best(x) * c
      BY <1>7, <1>8, <3>4, Products
    <3>6. B * c \in Int /\ best(x) * c \in Int
      BY <1>7, <1>8, <3>4
    <3> QED BY <1>7, <1>8, <3>5, <3>6
  <2>3. best(x - 1) * c < n * One
    <3>1. x - 1 \in Nat
      BY <2>1
    <3>2. PICK f \in Filling(asks) :
            Money(asks, f) <= Whole(x - 1, q) /\ Steps(Base(asks, f), step) /\ Base(asks, f) = best(x - 1)
      BY <1>13, <3>1
    <3>3. Base(asks, f) < B
      <4> SUFFICES ASSUME Base(asks, f) >= B PROVE FALSE
        BY <1>2, <1>8, FillType
      <4>1. Money(asks, f) >= cost
        BY <1>10, <2>1
      <4>2. Whole(x - 1, q) \in Nat /\ Whole(x - 1, q) <= x - 1 /\ Money(asks, f) \in Int
        BY <1>2, <1>12, <3>1, FillType
      <4>3. Whole(x - 1, q) >= cost
        BY <1>10, <3>2, <4>1, <4>2
      <4>4. Whole(x - 1, q) >= x
        <5>1. CASE q > 0
          BY <1>11, <1>12, <2>1, <3>1, <4>2, <4>3, <5>1
        <5>2. CASE ~ (q > 0)
          BY <1>11, <4>3, <5>2
        <5> QED BY <5>1, <5>2
      <4> QED BY <2>1, <4>2, <4>4
    <3>4. Base(asks, f) \in Int
      BY <1>2, FillType
    <3>5. Base(asks, f) * c < n * One
      BY <1>14, <3>2, <3>3, <3>4
    <3> QED BY <3>2, <3>5
  <2> QED BY <1>4, <2>2, <2>3 DEF Exact
<1>16. ASSUME x = Failed PROVE Yields(s, AllOf(s)) < n * One
  <2> DEFINE all == Max({f.money : f \in Fills(asks)})
             y == IF q > 0 THEN all + q ELSE all
  <2>1. all \in Nat
    <3>1. Fills(asks) \in SUBSET Fills(asks) /\ Fills(asks) # {}
      BY <1>2, TotalsType
    <3>2. \E r \in Fills(asks) : all = r.money
      BY <1>2, <3>1, BestOfSome
    <3> QED BY <1>2, <3>2, TotalsType
  <2>2. AllOf(s) = y
    BY <1>5
  <2> HIDE DEF all
  <2>3. y \in Nat
    BY <1>1, <2>1
  <2> HIDE DEF y
  <2>4. PICK f \in Filling(asks) :
          Money(asks, f) <= Whole(y, q) /\ Steps(Base(asks, f), step) /\ Base(asks, f) = best(y)
    BY <1>13, <2>3
  <2>5. Base(asks, f) < B /\ Base(asks, f) \in Int
    BY <1>2, <1>10, <1>11, <1>16, FillType
  <2>6. best(y) * c < n * One
    BY <1>14, <2>4, <2>5
  <2> QED BY <1>4, <2>2, <2>6
<1> QED BY <1>3, <1>11, <1>15, <1>16

\* Whatever the step is: its input is exact, and it is refused as too thin only if it is.
LEMMA StepIsExact ==
    ASSUME market \in Markets, NEW s \in StepSet, Ready(s), NEW n \in Nat \ {0}
    PROVE  /\ Input(s, n) \in Nat
           /\ Input(s, n) # Failed => Exact(s, n, Input(s, n))
           /\ Input(s, n) = Failed => Yields(s, AllOf(s)) < n * One
<1>1. s.kind \in {"buy", "sell", "withdraw", "deposit"}
  BY DEF StepSet
<1>2. CASE s.kind = "buy"
  BY <1>2, BuyStep
<1>3. CASE s.kind = "sell"
  BY <1>3, SellStep
<1>4. CASE s.kind = "withdraw"
  <2>1. Input(s, n) \in Nat \ {0} /\ Exact(s, n, Input(s, n))
    BY <1>4, WithdrawStep
  <2> QED BY <2>1 DEF Failed
<1>5. CASE s.kind = "deposit"
  <2>1. Input(s, n) \in Nat \ {0} /\ Exact(s, n, Input(s, n))
    BY <1>5, DepositStep
  <2> QED BY <2>1 DEF Failed
<1> QED BY <1>1, <1>2, <1>3, <1>4, <1>5

-----------------------------------------------------------------------------
(* The invariant: every leg is what its step asks for, so that what comes   *)
(* after it can be had; a route is untried, or quoted or refused, once.     *)

PathNames  == {"bybit", "wallet"}
RouteNames == {"bestchange"} \cup PathNames

LegStep(r, legs, i) == StepsOf[r][Len(StepsOf[r]) - Len(legs) + i]
AfterLeg(legs, i)   == IF i = Len(legs) THEN target ELSE legs[i + 1]

Computed(r, legs) ==
    /\ legs \in Seq(Nat \ {0}) /\ Len(legs) <= Len(StepsOf[r])
    /\ \A i \in 1..Len(legs) : /\ Ready(LegStep(r, legs, i))
                               /\ legs[i] = Input(LegStep(r, legs, i), AfterLeg(legs, i))

Marked(r, legs, degraded) ==
    \A i \in 1..Len(legs) :
      LegStep(r, legs, i).kind # "deposit" /\ FeeOf(LegStep(r, legs, i)).fallback => degraded

CalcInv ==
    /\ calc \in [route : 1..5, legs : Seq(Nat \ {0}), needed : Nat \ {0}, degraded : BOOLEAN]
    /\ calc.needed = IF calc.legs = <<>> THEN target ELSE calc.legs[1]
    /\ IF IsPath THEN Computed(Name, calc.legs) /\ Marked(Name, calc.legs, calc.degraded)
       ELSE calc.legs = <<>>

QuoteType == [route : RouteNames, offer : Nat, rub : Nat \ {0}, bought : Nat, legs : Seq(Nat),
              received : Nat, degraded : BOOLEAN]

\* One advertisement covers the purchase, and its mark is the quote's.
Bought(q) == /\ InOneOrder(Chosen(q), q.bought, q.rub)
             /\ Chosen(q).feeFallback => q.degraded

Backed(q) ==
    q.route \in PathNames =>
      /\ Len(q.legs) = Len(StepsOf[q.route]) /\ Computed(q.route, q.legs)
      /\ Marked(q.route, q.legs, q.degraded) /\ Bought(q)
      /\ q.bought >= q.legs[1]
      /\ q.received = Ceil(target, FeeOf(StepsOf[q.route][Len(StepsOf[q.route])]).step)

Sound(q) == Backed(q) /\ (q.degraded => ~ filter.noFallback)

QuotesInv == quotes \in Seq(QuoteType) /\ \A q \in Quoted : Sound(q)

Excused(r) ==
    r.why = "thin" => /\ r.step \in StepSet /\ r.needed \in Nat \ {0}
                      /\ Ready(r.step) /\ Input(r.step, r.needed) = Failed

RefusedInv == DOMAIN refused = RouteNames /\ \A r \in RouteNames : Excused(refused[r])

OnceInv ==
    /\ \A i \in 1..3 :
         IF i < calc.route
         THEN refused[Routes[i]] = NotRefused <=> \E q \in Quoted : q.route = Routes[i]
         ELSE refused[Routes[i]] = NotRefused /\ \A q \in Quoted : q.route # Routes[i]
    /\ \A q, o \in Quoted : q.route = o.route => q = o

RouteInv == /\ market \in Markets /\ target \in Nat \ {0}
            /\ CalcInv /\ QuotesInv /\ RefusedInv /\ OnceInv

\* The routes and their steps.
LEMMA RoutesAre ==
    /\ Len(Routes) = 3 /\ DOMAIN Routes = 1..3 /\ {Routes[i] : i \in DOMAIN Routes} = RouteNames
    /\ Routes[1] = "bestchange" /\ Routes[2] = "bybit" /\ Routes[3] = "wallet"
    /\ \A i, j \in 1..3 : Routes[i] = Routes[j] => i = j
    /\ \A i \in 1..3 : Routes[i] \in RouteNames
<1>1. /\ Len(Routes) = 3 /\ DOMAIN Routes = 1..3
      /\ Routes[1] = "bestchange" /\ Routes[2] = "bybit" /\ Routes[3] = "wallet"
  BY DEF Routes
<1>2. \A i \in 1..3 : i = 1 \/ i = 2 \/ i = 3
  OBVIOUS
<1> HIDE DEF Routes
<1>3. 1 \in 1..3 /\ 2 \in 1..3 /\ 3 \in 1..3
  OBVIOUS
<1> QED BY <1>1, <1>2, <1>3 DEF RouteNames, PathNames

\* The steps of every path are known steps, in two sizes, and end in a withdrawal.
LEMMA StepsAre ==
    /\ \A r \in PathNames :
         /\ Len(StepsOf[r]) \in {2, 5} /\ DOMAIN StepsOf[r] = 1..Len(StepsOf[r])
         /\ \A i \in 1..Len(StepsOf[r]) : StepsOf[r][i] \in StepSet
         /\ StepsOf[r][Len(StepsOf[r])].kind = "withdraw"
<1>1. Len(StepsOf["bybit"]) = 2 /\ Len(StepsOf["wallet"]) = 5
      /\ DOMAIN StepsOf["bybit"] = 1..2 /\ DOMAIN StepsOf["wallet"] = 1..5
  BY DEF StepsOf
<1>2. \A i \in 1..2 : StepsOf["bybit"][i] \in StepSet
  <2>1. \A i \in 1..2 : i = 1 \/ i = 2
    OBVIOUS
  <2> QED BY <2>1 DEF StepsOf, Step, StepSet, Keys
<1>3. \A i \in 1..5 : StepsOf["wallet"][i] \in StepSet
  <2>1. \A i \in 1..5 : i = 1 \/ i = 2 \/ i = 3 \/ i = 4 \/ i = 5
    OBVIOUS
  <2> QED BY <2>1 DEF StepsOf, Step, StepSet, Keys
<1>4. StepsOf["bybit"][2].kind = "withdraw" /\ StepsOf["wallet"][5].kind = "withdraw"
  BY DEF StepsOf, Step
<1> HIDE DEF StepsOf
<1> QED BY <1>1, <1>2, <1>3, <1>4 DEF PathNames

\* What is said of steps, legs and quotes depends on the arguments of the calculation alone.
LEMMA ArgumentsStay ==
    ASSUME UNCHANGED given
    PROVE  /\ \A r, legs : Computed(r, legs)' <=> Computed(r, legs)
           /\ \A r, legs, d : Marked(r, legs, d)' <=> Marked(r, legs, d)
           /\ \A q : (Backed(q)' <=> Backed(q)) /\ (Sound(q)' <=> Sound(q))
           /\ \A r : Excused(r)' <=> Excused(r)
<1>1. market' = market /\ target' = target /\ filter' = filter
  BY DEF given
<1>2. \A s : FeeOf(s)' = FeeOf(s)
  BY <1>1 DEF FeeOf
<1>3. \A s : InstOf(s)' = InstOf(s) /\ BookOf(s)' = BookOf(s)
  BY <1>1 DEF InstOf, BookOf
<1>4. \A s : Ready(s)' <=> Ready(s)
  BY <1>2, <1>3 DEF Ready
<1>5. \A s, n : BaseBought(s, n)' = BaseBought(s, n)
  BY <1>2, <1>3 DEF BaseBought
<1>6. \A s, n : Input(s, n)' = Input(s, n)
  BY <1>2, <1>3, <1>5 DEF Input
<1>7. \A legs, i : AfterLeg(legs, i)' = AfterLeg(legs, i)
  BY <1>1 DEF AfterLeg
<1>8. \A r, legs : Computed(r, legs)' <=> Computed(r, legs)
  BY <1>4, <1>6, <1>7 DEF Computed
<1>9. \A r, legs, d : Marked(r, legs, d)' <=> Marked(r, legs, d)
  BY <1>2 DEF Marked
<1>10. \A q : (Backed(q)' <=> Backed(q)) /\ (Sound(q)' <=> Sound(q))
  <2>1. \A q : Bought(q)' <=> Bought(q)
    <3>1. \A q : Chosen(q)' = Chosen(q)
      BY <1>1 DEF Chosen
    <3> QED BY <3>1 DEF Bought
  <2>2. \A q : Backed(q)' <=> Backed(q)
    BY <1>1, <1>2, <1>8, <1>9, <2>1 DEF Backed
  <2> QED BY <1>1, <2>2 DEF Sound
<1>11. \A r : Excused(r)' <=> Excused(r)
  BY <1>4, <1>6 DEF Excused
<1> QED BY <1>8, <1>9, <1>10, <1>11

\* The next route begins with nothing computed.
LEMMA BegunInv ==
    ASSUME target \in Nat \ {0}, UNCHANGED given, calc.route \in 1..4, calc' = Begun(calc.route + 1)
    PROVE  CalcInv' /\ calc'.route = calc.route + 1
<1>1. /\ calc'.route = calc.route + 1 /\ calc'.legs = <<>> /\ calc'.needed = target
      /\ calc'.degraded = FALSE /\ target' = target
      /\ calc' = [route |-> calc.route + 1, legs |-> <<>>, needed |-> target, degraded |-> FALSE]
  BY DEF Begun, given
<1>2. calc' \in [route : 1..5, legs : Seq(Nat \ {0}), needed : Nat \ {0}, degraded : BOOLEAN]
  <2>1. <<>> \in Seq(Nat \ {0}) /\ calc.route + 1 \in 1..5
    OBVIOUS
  <2> QED BY <1>1, <2>1
<1>3. ASSUME IsPath' PROVE Computed(Name, calc.legs)' /\ Marked(Name, calc.legs, calc.degraded)'
  <2>1. calc'.route \in 1..3 /\ Name' # "bestchange" /\ Name' = Routes[calc'.route]
    BY <1>2, <1>3, RoutesAre DEF IsPath, Trying, Name
  <2>2. Name' \in PathNames
    BY <2>1, RoutesAre DEF RouteNames
  <2>3. Len(StepsOf[Name']) \in {2, 5}
    BY <2>2, StepsAre
  <2>4. calc'.legs \in Seq(Nat \ {0}) /\ Len(calc'.legs) = 0 /\ \A i \in 1..Len(calc'.legs) : FALSE
    <3>1. <<>> \in Seq(Nat \ {0}) /\ Len(<<>>) = 0
      OBVIOUS
    <3>2. \A i \in 1..0 : FALSE
      OBVIOUS
    <3> QED BY <1>1, <3>1, <3>2
  <2>5. Computed(Name, calc.legs)'
    BY <2>3, <2>4 DEF Computed
  <2>6. Marked(Name, calc.legs, calc.degraded)'
    BY <2>4 DEF Marked
  <2> QED BY <2>5, <2>6
<1> QED BY <1>1, <1>2, <1>3 DEF CalcInv

\* What the path being tried is.
LEMMA TriedPath ==
    ASSUME RouteInv, Trying
    PROVE  /\ calc.route \in 1..3 /\ Name \in RouteNames /\ Name = Routes[calc.route]
           /\ IsPath => Name \in PathNames
           /\ refused[Name] = NotRefused /\ \A q \in Quoted : q.route # Name
<1>1. calc.route \in 1..5 /\ calc.route <= 3
  BY RoutesAre DEF RouteInv, CalcInv, Trying
<1>2. calc.route \in 1..3 /\ ~ (calc.route < calc.route)
  BY <1>1
<1>3. Name \in RouteNames /\ Name = Routes[calc.route]
  BY <1>2, RoutesAre DEF Name
<1>4. IsPath => Name \in PathNames
  BY <1>3 DEF IsPath, RouteNames
<1>5. refused[Name] = NotRefused /\ \A q \in Quoted : q.route # Name
  BY <1>2, <1>3 DEF RouteInv, OnceInv
<1> QED BY <1>2, <1>3, <1>4, <1>5

\* A route that is refused.
LEMMA RefusedKeeps ==
    ASSUME RouteInv, Trying, NEW s, NEW why, why # "no", RefuseAt(s, why),
           why = "thin" => s \in StepSet /\ Ready(s) /\ Input(s, calc.needed) = Failed
    PROVE  RouteInv'
<1> DEFINE record == [why |-> why, step |-> s, needed |-> calc.needed]
<1>1. /\ calc.route \in 1..3 /\ Name \in RouteNames /\ Name = Routes[calc.route]
      /\ \A q \in Quoted : q.route # Name
  BY TriedPath
<1>2. /\ refused' = [refused EXCEPT ![Name] = record] /\ calc' = Begun(calc.route + 1)
      /\ UNCHANGED given /\ quotes' = quotes
  BY DEF RefuseAt
<1>3. market' = market /\ target' = target /\ Quoted' = Quoted
  BY <1>2 DEF given, Quoted
<1>4. /\ CalcInv' /\ calc'.route = calc.route + 1
  <2>1. calc.route \in 1..4
    BY <1>1
  <2> QED BY <1>2, <2>1, BegunInv DEF RouteInv
<1>5. QuotesInv'
  BY <1>2, <1>3, ArgumentsStay DEF RouteInv, QuotesInv
<1>6. calc.needed \in Nat \ {0}
  BY DEF RouteInv, CalcInv
<1>7. RefusedInv'
  <2>1. DOMAIN refused' = RouteNames /\ refused'[Name] = record
        /\ \A r \in RouteNames : r # Name => refused'[r] = refused[r]
    BY <1>1, <1>2 DEF RouteInv, RefusedInv
  <2>2. Excused(record)
    BY <1>6 DEF Excused
  <2>3. \A r \in RouteNames : Excused(refused'[r])
    <3> HIDE DEF record
    <3> QED BY <2>1, <2>2 DEF RouteInv, RefusedInv
  <2>4. \A r \in RouteNames : Excused(refused[r])'
    BY <1>2, <2>3, ArgumentsStay
  <2> QED BY <2>1, <2>4 DEF RefusedInv
<1>8. OnceInv'
  <2>1. record # NotRefused
    BY DEF NotRefused
  <2>2. ASSUME NEW i \in 1..3
        PROVE  /\ i # calc.route => refused'[Routes[i]] = refused[Routes[i]]
               /\ i = calc.route => refused'[Routes[i]] = record
    <3>1. Routes[i] = Name <=> i = calc.route
      BY <1>1, RoutesAre
    <3>2. Routes[i] \in RouteNames
      BY RoutesAre
    <3> QED BY <1>1, <1>2, <3>1, <3>2 DEF RouteInv, RefusedInv
  <2> HIDE DEF record
  <2>3. ASSUME NEW i \in 1..3
        PROVE  IF i < calc'.route
               THEN refused'[Routes[i]] = NotRefused <=> \E q \in Quoted : q.route = Routes[i]
               ELSE refused'[Routes[i]] = NotRefused /\ \A q \in Quoted : q.route # Routes[i]
    <3>1. i < calc'.route <=> i < calc.route \/ i = calc.route
      BY <1>1, <1>4
    <3>2. CASE i = calc.route
      BY <1>1, <2>1, <2>2, <3>1, <3>2
    <3>3. CASE i # calc.route
      BY <2>2, <3>1, <3>3 DEF RouteInv, OnceInv
    <3> QED BY <3>2, <3>3
  <2>4. \A q, o \in Quoted : q.route = o.route => q = o
    BY DEF RouteInv, OnceInv
  <2> QED BY <1>3, <2>3, <2>4 DEF OnceInv
<1> QED BY <1>3, <1>4, <1>5, <1>7, <1>8 DEF RouteInv

\* A route that is quoted, or refused for its fallback fees.
LEMMA OfferKeeps ==
    ASSUME RouteInv, Trying, NEW q \in QuoteType, q.route = Name, Backed(q), Offer(q)
    PROVE  RouteInv'
<1>1. CASE filter.noFallback /\ q.degraded
  <2>1. RefuseAt(Step("none", ""), "fallback")
    BY <1>1 DEF Offer, Refuse
  <2>2. "fallback" # "no" /\ "fallback" # "thin"
    OBVIOUS
  <2> QED BY <2>1, <2>2, RefusedKeeps
<1>2. CASE ~ (filter.noFallback /\ q.degraded)
  <2>1. /\ quotes' = Append(quotes, q) /\ calc' = Begun(calc.route + 1)
        /\ UNCHANGED given /\ refused' = refused
    BY <1>2 DEF Offer
  <2>2. /\ calc.route \in 1..3 /\ Name \in RouteNames /\ Name = Routes[calc.route]
        /\ refused[Name] = NotRefused /\ \A o \in Quoted : o.route # Name
    BY TriedPath
  <2>3. market' = market /\ target' = target
    BY <2>1 DEF given
  <2>4. CalcInv' /\ calc'.route = calc.route + 1
    <3>1. calc.route \in 1..4
      BY <2>2
    <3> QED BY <2>1, <3>1, BegunInv DEF RouteInv
  <2>5. quotes' \in Seq(QuoteType) /\ Quoted' = Quoted \cup {q}
    <3>1. quotes \in Seq(QuoteType)
      BY DEF RouteInv, QuotesInv
    <3>2. /\ quotes' \in Seq(QuoteType) /\ DOMAIN quotes = 1..Len(quotes) /\ Len(quotes) \in Nat
          /\ DOMAIN quotes' = 1..(Len(quotes) + 1)
          /\ \A i \in 1..Len(quotes) : quotes'[i] = quotes[i]
          /\ quotes'[Len(quotes) + 1] = q
      BY <2>1, <3>1
    <3>3. \A i \in 1..(Len(quotes) + 1) : i \in 1..Len(quotes) \/ i = Len(quotes) + 1
      BY <3>2
    <3>4. 1..Len(quotes) \subseteq 1..(Len(quotes) + 1) /\ Len(quotes) + 1 \in 1..(Len(quotes) + 1)
      BY <3>2
    <3> QED BY <3>2, <3>3, <3>4 DEF Quoted
  <2>6. QuotesInv'
    <3>1. Sound(q)
      BY <1>2 DEF Sound
    <3>2. \A o \in Quoted' : Sound(o)
      BY <2>5, <3>1 DEF RouteInv, QuotesInv
    <3>3. \A o : Sound(o)' <=> Sound(o)
      BY <2>1, ArgumentsStay
    <3> QED BY <2>5, <3>2, <3>3 DEF QuotesInv
  <2>7. RefusedInv'
    <3>1. \A r : Excused(r)' <=> Excused(r)
      BY <2>1, ArgumentsStay
    <3> QED BY <2>1, <3>1 DEF RouteInv, RefusedInv
  <2>8. OnceInv'
    <3>1. ASSUME NEW i \in 1..3
          PROVE  IF i < calc'.route
                 THEN refused[Routes[i]] = NotRefused <=> \E o \in Quoted' : o.route = Routes[i]
                 ELSE refused[Routes[i]] = NotRefused /\ \A o \in Quoted' : o.route # Routes[i]
      <4>1. i < calc'.route <=> i < calc.route \/ i = calc.route
        BY <2>2, <2>4
      <4>2. Routes[i] = Name <=> i = calc.route
        BY <2>2, RoutesAre
      <4>3. CASE i = calc.route
        BY <2>2, <2>5, <4>1, <4>2, <4>3
      <4>4. CASE i # calc.route
        <5>1. (\E o \in Quoted' : o.route = Routes[i]) <=> (\E o \in Quoted : o.route = Routes[i])
          BY <2>5, <4>2, <4>4
        <5> QED BY <4>1, <4>4, <5>1 DEF RouteInv, OnceInv
      <4> QED BY <4>3, <4>4
    <3>2. \A a, b \in Quoted' : a.route = b.route => a = b
      BY <2>2, <2>5 DEF RouteInv, OnceInv
    <3> QED BY <2>1, <3>1, <3>2 DEF OnceInv
  <2> QED BY <2>3, <2>4, <2>6, <2>7, <2>8 DEF RouteInv
<1> QED BY <1>1, <1>2

\* At the start no route has been tried.
LEMMA RouteInit == Init => RouteInv
<1> SUFFICES ASSUME Init PROVE RouteInv
  OBVIOUS
<1>1. market \in Markets /\ target \in Nat \ {0}
  BY RouteAssumption DEF Init
<1>2. /\ calc = [route |-> 1, legs |-> <<>>, needed |-> target, degraded |-> FALSE]
      /\ quotes = <<>> /\ Quoted = {} /\ refused = [r \in RouteNames |-> NotRefused]
  <2>1. refused = [r \in RouteNames |-> NotRefused]
    BY RoutesAre DEF Init
  <2>2. quotes = <<>> /\ Quoted = {}
    BY DEF Init, Quoted
  <2> QED BY <2>1, <2>2 DEF Init, Begun
<1>3. CalcInv
  <2>1. Name = "bestchange" /\ ~ IsPath
    BY <1>2, RoutesAre DEF Name, IsPath
  <2>2. <<>> \in Seq(Nat \ {0}) /\ 1 \in 1..5
    OBVIOUS
  <2> QED BY <1>1, <1>2, <2>1, <2>2 DEF CalcInv
<1>4. QuotesInv
  BY <1>2 DEF QuotesInv
<1>5. RefusedInv
  BY <1>2 DEF RefusedInv, Excused, NotRefused
<1>6. OnceInv
  <2>1. \A i \in 1..3 : ~ (i < calc.route) /\ refused[Routes[i]] = NotRefused
    BY <1>2, RoutesAre
  <2> QED BY <1>2, <2>1 DEF OnceInv
<1> QED BY <1>1, <1>3, <1>4, <1>5, <1>6 DEF RouteInv

\* Nothing but the context changes.
LEMMA NothingChanges ==
    ASSUME RouteInv, UNCHANGED <<given, calc, quotes, refused>>
    PROVE  RouteInv'
<1>1. market' = market /\ target' = target /\ filter' = filter
      /\ calc' = calc /\ quotes' = quotes /\ refused' = refused /\ UNCHANGED given
  BY DEF given
<1>2. Quoted' = Quoted /\ Name' = Name /\ (IsPath' <=> IsPath)
  BY <1>1 DEF Quoted, Name, IsPath, Trying
<1>3. CalcInv'
  <2>1. Computed(Name, calc.legs)' <=> Computed(Name, calc.legs)
    BY <1>1, <1>2, ArgumentsStay
  <2>2. Marked(Name, calc.legs, calc.degraded)' <=> Marked(Name, calc.legs, calc.degraded)
    BY <1>1, <1>2, ArgumentsStay
  <2> QED BY <1>1, <1>2, <2>1, <2>2 DEF RouteInv, CalcInv
<1>4. QuotesInv' /\ RefusedInv'
  <2>1. \A q \in Quoted : Sound(q)'
    BY <1>1, ArgumentsStay DEF RouteInv, QuotesInv
  <2>2. \A r \in RouteNames : Excused(refused[r])'
    BY <1>1, ArgumentsStay DEF RouteInv, RefusedInv
  <2> QED BY <1>1, <1>2, <2>1, <2>2 DEF RouteInv, QuotesInv, RefusedInv
<1>5. OnceInv'
  BY <1>1, <1>2 DEF RouteInv, OnceInv
<1> QED BY <1>1, <1>3, <1>4, <1>5 DEF RouteInv

\* When the deadline passes the inductive invariant stands.
LEMMA ExpireKeeps == ASSUME RouteInv, Expire PROVE RouteInv'
  BY NothingChanges DEF Expire

\* When the calculation is cancelled the inductive invariant stands.
LEMMA CancelledKeeps == ASSUME RouteInv, Cancelled PROVE RouteInv'
<1>1. Trying /\ RefuseAt(Step("none", ""), "cancelled")
  BY DEF Cancelled, Refuse
<1>2. "cancelled" # "no" /\ "cancelled" # "thin"
  OBVIOUS
<1> QED BY <1>1, <1>2, RefusedKeeps

\* An office that covers the request is quoted for a positive number of roubles.
LEMMA BestChangeKeeps == ASSUME RouteInv, BestChange PROVE RouteInv'
<1> DEFINE offers == market.exchange
           rub(o) == Ceil(target * o.rate, Kopeck)
           able == {i \in DOMAIN offers :
                      /\ offers[i].enabled /\ offers[i].rate > 0
                      /\ offers[i].min >= 0 /\ offers[i].max >= offers[i].min
                      /\ offers[i].reserve >= target
                      /\ PaymentMatches(filter.payment, {offers[i].method})
                      /\ offers[i].min <= rub(offers[i]) /\ rub(offers[i]) <= offers[i].max}
           quote(i) == [route |-> Name, offer |-> i, rub |-> rub(offers[i]), bought |-> target,
                        legs |-> <<>>, received |-> target, degraded |-> FALSE]
<1>1. Trying /\ ~ IsPath
  BY DEF BestChange
<1>2. CASE able = {}
  <2>1. RefuseAt(Step("none", ""), "no offer")
    BY <1>2 DEF BestChange, Refuse
  <2>2. "no offer" # "no" /\ "no offer" # "thin"
    OBVIOUS
  <2> QED BY <1>1, <2>1, <2>2, RefusedKeeps
<1>3. CASE able # {}
  <2>1. PICK i \in able : Offer(quote(i))
    BY <1>3 DEF BestChange
  <2>2. offers[i].rate \in Nat \ {0} /\ i \in Nat
    <3>1. i \in DOMAIN offers /\ offers[i].rate > 0
      BY <2>1
    <3>2. offers \in Seq(OfficeType)
      BY RouteAssumption DEF RouteInv
    <3>3. offers[i] \in OfficeType /\ i \in Nat
      <4> HIDE DEF offers
      <4> QED BY <3>1, <3>2
    <3>4. offers[i].rate \in Int
      BY <3>3 DEF OfficeType
    <3> QED BY <3>1, <3>3, <3>4
  <2>3. target \in Nat \ {0} /\ Kopeck \in Nat \ {0}
    BY MoneyAssumption DEF RouteInv
  <2>4. rub(offers[i]) \in Nat \ {0}
    <3> DEFINE n == target * offers[i].rate
    <3>1. n \in Nat \ {0}
      <4>1. 0 * offers[i].rate < target * offers[i].rate
        BY <2>2, <2>3, Products
      <4> QED BY <2>2, <2>3, <4>1
    <3>2. \A step \in Nat \ {0} : Ceil(n, step) \in Int /\ Ceil(n, step) >= n
      <4>1. n \in Int
        BY <3>1
      <4> HIDE DEF n
      <4> QED BY <4>1, CeilLeast
    <3> HIDE DEF n
    <3> QED BY <2>3, <3>1, <3>2 DEF n
  <2>5. Name = "bestchange"
    BY <1>1 DEF IsPath
  <2> HIDE DEF rub, offers
  <2>6. quote(i) \in QuoteType
    <3>1. <<>> \in Seq(Nat)
      OBVIOUS
    <3> QED BY <2>2, <2>3, <2>4, <2>5, <3>1 DEF QuoteType, RouteNames
  <2>7. Backed(quote(i))
    BY <2>5 DEF Backed, PathNames
  <2>8. quote(i).route = Name
    OBVIOUS
  <2> HIDE DEF quote
  <2> QED BY <1>1, <2>1, <2>6, <2>7, <2>8, OfferKeeps
<1> QED BY <1>2, <1>3

\* A step in front of the others: the legs behind it stay what they are.
LEMMA OneMoreLeg ==
    ASSUME NEW r \in PathNames, NEW legs, Computed(r, legs), NEW degraded \in BOOLEAN,
           Marked(r, legs, degraded), Len(legs) < Len(StepsOf[r]), NEW s,
           s = StepsOf[r][Len(StepsOf[r]) - Len(legs)], Ready(s), NEW x \in Nat \ {0},
           x = Input(s, IF legs = <<>> THEN target ELSE legs[1])
    PROVE  LET more == <<x>> \o legs
               marks == degraded \/ (s.kind # "deposit" /\ FeeOf(s).fallback)
           IN Computed(r, more) /\ Marked(r, more, marks) /\ more # <<>> /\ more[1] = x
<1> DEFINE more == <<x>> \o legs
           marks == degraded \/ (s.kind # "deposit" /\ FeeOf(s).fallback)
           l == Len(legs)
           m == Len(StepsOf[r])
<1>1. legs \in Seq(Nat \ {0}) /\ l \in Nat /\ m \in Nat
  <2>1. m \in {2, 5}
    BY StepsAre
  <2> QED BY <2>1 DEF Computed
<1>2. /\ more \in Seq(Nat \ {0}) /\ Len(more) = l + 1 /\ more[1] = x /\ more # <<>>
      /\ \A i \in 2..(l + 1) : more[i] = legs[i - 1]
  <2>1. <<x>> \in Seq(Nat \ {0}) /\ Len(<<x>>) = 1 /\ <<x>>[1] = x
    OBVIOUS
  <2>2. more \in Seq(Nat \ {0}) /\ Len(more) = l + 1
    BY <1>1, <2>1
  <2>3. more[1] = x /\ \A i \in 2..(l + 1) : more[i] = legs[i - 1]
    BY <1>1, <2>1
  <2>4. Len(<<>>) = 0 /\ l + 1 # 0
    BY <1>1
  <2> QED BY <2>2, <2>3, <2>4
<1>3. LegStep(r, more, 1) = s /\ AfterLeg(more, 1) = IF legs = <<>> THEN target ELSE legs[1]
  <2>1. LegStep(r, more, 1) = s
    <3>1. m - (l + 1) + 1 = m - l
      BY <1>1
    <3> QED BY <1>2, <3>1 DEF LegStep
  <2>2. CASE legs = <<>>
    BY <1>2, <2>1, <2>2 DEF AfterLeg
  <2>3. CASE legs # <<>>
    <3>1. l # 0 /\ 1 # l + 1 /\ 2 \in 2..(l + 1)
      BY <1>1, <2>3
    <3>2. more[2] = legs[1]
      BY <1>2, <3>1
    <3> QED BY <1>2, <2>1, <2>3, <3>1, <3>2 DEF AfterLeg
  <2> QED BY <2>2, <2>3
<1>4. ASSUME NEW i \in 2..(l + 1)
      PROVE  /\ LegStep(r, more, i) = LegStep(r, legs, i - 1)
             /\ AfterLeg(more, i) = AfterLeg(legs, i - 1)
             /\ more[i] = legs[i - 1] /\ i - 1 \in 1..l
  <2>1. i - 1 \in 1..l /\ m - (l + 1) + i = m - l + (i - 1)
    BY <1>1
  <2>2. LegStep(r, more, i) = LegStep(r, legs, i - 1)
    BY <1>2, <2>1 DEF LegStep
  <2>3. AfterLeg(more, i) = AfterLeg(legs, i - 1)
    <3>1. CASE i = l + 1
      BY <1>1, <1>2, <3>1 DEF AfterLeg
    <3>2. CASE i # l + 1
      <4>1. i + 1 \in 2..(l + 1) /\ i - 1 # l /\ (i + 1) - 1 = (i - 1) + 1
        BY <1>1, <3>2
      <4>2. more[i + 1] = legs[(i - 1) + 1]
        BY <1>2, <4>1
      <4> QED BY <1>2, <3>2, <4>1, <4>2 DEF AfterLeg
    <3> QED BY <3>1, <3>2
  <2> QED BY <1>2, <2>1, <2>2, <2>3
<1>5. \A i \in 1..(l + 1) : i = 1 \/ i \in 2..(l + 1)
  BY <1>1
<1> HIDE DEF more, l, m
<1>6. Computed(r, more)
  <2>1. Len(more) <= m
    <3>1. l < m
      BY DEF l, m
    <3> QED BY <1>1, <1>2, <3>1
  <2>2. ASSUME NEW i \in 1..(l + 1)
        PROVE  Ready(LegStep(r, more, i)) /\ more[i] = Input(LegStep(r, more, i), AfterLeg(more, i))
    <3>1. CASE i = 1
      BY <1>2, <1>3, <3>1
    <3>2. CASE i \in 2..(l + 1)
      BY <1>4, <3>2 DEF Computed, l
    <3> QED BY <1>5, <3>1, <3>2
  <2> QED BY <1>2, <2>1, <2>2 DEF Computed, m
<1>7. Marked(r, more, marks)
  <2>1. ASSUME NEW i \in 1..(l + 1), LegStep(r, more, i).kind # "deposit",
               FeeOf(LegStep(r, more, i)).fallback
        PROVE  marks
    <3>1. CASE i = 1
      BY <1>3, <2>1, <3>1
    <3>2. CASE i \in 2..(l + 1)
      BY <1>4, <2>1, <3>2 DEF Marked, l
    <3> QED BY <1>5, <3>1, <3>2
  <2> QED BY <1>2, <2>1 DEF Marked
<1> QED BY <1>2, <1>6, <1>7 DEF more

\* A step of the path is computed, or the path is refused in front of it.
LEMMA BackwardKeeps == ASSUME RouteInv, Backward PROVE RouteInv'
<1> DEFINE s == Ahead
           input == Input(s, calc.needed)
           m == Len(StepsOf[Name])
           l == Len(calc.legs)
<1>1. /\ IsPath /\ Trying /\ l < m /\ Name \in PathNames /\ calc.route \in 1..3
  BY TriedPath DEF Backward, IsPath
<1>2. /\ calc.needed \in Nat \ {0} /\ calc.degraded \in BOOLEAN
      /\ Computed(Name, calc.legs) /\ Marked(Name, calc.legs, calc.degraded)
      /\ calc.needed = IF calc.legs = <<>> THEN target ELSE calc.legs[1]
  BY <1>1 DEF RouteInv, CalcInv
<1>3. s \in StepSet /\ s = StepsOf[Name][m - l]
  <2>1. l \in Nat /\ m \in Nat
    <3>1. m \in {2, 5}
      BY <1>1, StepsAre
    <3> QED BY <1>2, <3>1 DEF Computed
  <2>2. m - l \in 1..m
    <3> HIDE DEF l, m
    <3> QED BY <1>1, <2>1
  <2>3. StepsOf[Name][m - l] \in StepSet
    <3> HIDE DEF l
    <3> QED BY <1>1, <2>2, StepsAre
  <2> QED BY <2>3 DEF Ahead
<1> HIDE DEF s, l, m
<1>4. ASSUME Ready(s)
      PROVE  /\ input \in Nat
             /\ input # Failed => Exact(s, calc.needed, input)
  BY <1>2, <1>3, <1>4, StepIsExact DEF RouteInv
<1>5. CASE ~ Ready(s)
  <2>1. RefuseAt(s, "missing")
    BY <1>5 DEF Backward, s
  <2>2. "missing" # "no" /\ "missing" # "thin"
    OBVIOUS
  <2> QED BY <1>1, <2>1, <2>2, RefusedKeeps
<1>6. CASE Ready(s) /\ input = Failed
  <2>1. RefuseAt(s, "thin")
    BY <1>6 DEF Backward, s
  <2>2. "thin" # "no"
    OBVIOUS
  <2> QED BY <1>1, <1>3, <1>6, <2>1, <2>2, RefusedKeeps
<1>7. CASE Ready(s) /\ input # Failed /\ ~ Within(s, calc.needed, input)
  <2>1. RefuseAt(s, "limits")
    BY <1>7 DEF Backward, s
  <2>2. "limits" # "no" /\ "limits" # "thin"
    OBVIOUS
  <2> QED BY <1>1, <2>1, <2>2, RefusedKeeps
<1>8. CASE Ready(s) /\ input # Failed /\ Within(s, calc.needed, input)
  <2> DEFINE more == <<input>> \o calc.legs
             marks == calc.degraded \/ (s.kind # "deposit" /\ FeeOf(s).fallback)
  <2>1. input \in Nat \ {0}
    BY <1>4, <1>8 DEF Failed
  <2>2. /\ calc' = [calc EXCEPT !.legs = more, !.needed = input, !.degraded = marks]
        /\ UNCHANGED given /\ quotes' = quotes /\ refused' = refused
    BY <1>8 DEF Backward, s, Mark
  <2>3. Computed(Name, more) /\ Marked(Name, more, marks) /\ more # <<>> /\ more[1] = input
    <3> HIDE DEF input
    <3> QED BY <1>1, <1>2, <1>3, <1>8, <2>1, OneMoreLeg DEF input, l, m
  <2>4. marks \in BOOLEAN
    OBVIOUS
  <2> HIDE DEF input, more, marks
  <2>5. /\ calc'.route = calc.route /\ calc'.legs = more /\ calc'.needed = input
        /\ calc'.degraded = marks
    BY <2>2 DEF RouteInv, CalcInv
  <2>6. Name' = Name /\ (IsPath' <=> IsPath) /\ Quoted' = Quoted
        /\ market' = market /\ target' = target
    BY <2>2, <2>5 DEF Name, IsPath, Trying, Quoted, given
  <2>7. CalcInv'
    <3>1. more \in Seq(Nat \ {0})
      BY <2>3 DEF Computed
    <3>2. calc' \in [route : 1..5, legs : Seq(Nat \ {0}), needed : Nat \ {0}, degraded : BOOLEAN]
      BY <2>1, <2>2, <2>4, <3>1 DEF RouteInv, CalcInv
    <3>3. Computed(Name, calc.legs)'
      BY <2>2, <2>3, <2>5, <2>6, ArgumentsStay
    <3>4. Marked(Name, calc.legs, calc.degraded)'
      BY <2>2, <2>3, <2>5, <2>6, ArgumentsStay
    <3> QED BY <1>1, <2>3, <2>5, <2>6, <3>2, <3>3, <3>4 DEF CalcInv
  <2>8. QuotesInv' /\ RefusedInv'
    <3>1. \A q \in Quoted : Sound(q)'
      BY <2>2, ArgumentsStay DEF RouteInv, QuotesInv
    <3>2. \A r \in RouteNames : Excused(refused[r])'
      BY <2>2, ArgumentsStay DEF RouteInv, RefusedInv
    <3> QED BY <2>2, <2>6, <3>1, <3>2 DEF RouteInv, QuotesInv, RefusedInv
  <2>9. OnceInv'
    BY <2>2, <2>5, <2>6 DEF RouteInv, OnceInv
  <2> QED BY <2>6, <2>7, <2>8, <2>9 DEF RouteInv
<1> QED BY <1>5, <1>6, <1>7, <1>8

\* A path whose steps are all computed is bought for, from the cheapest offer.
LEMMA PurchaseKeeps == ASSUME RouteInv, Purchase PROVE RouteInv'
<1> DEFINE offers == market.p2p[Name]
           best == SelectP2P(calc.needed, AssetOf[Name], offers, Wanted)
           o == offers[best]
           m == Len(StepsOf[Name])
           last == StepsOf[Name][m]
           quote == [route |-> Name, offer |-> best, rub |-> Price(calc.needed, o),
                     bought |-> Lots(calc.needed, o), legs |-> calc.legs,
                     received |-> Ceil(target, FeeOf(last).step), degraded |-> Degraded(o)]
<1>1. IsPath /\ Trying /\ Len(calc.legs) = m /\ Name \in PathNames /\ Name \in RouteNames
  BY TriedPath DEF Purchase, IsPath
<1>2. /\ calc.needed \in Nat \ {0} /\ calc.degraded \in BOOLEAN
      /\ Computed(Name, calc.legs) /\ Marked(Name, calc.legs, calc.degraded)
      /\ calc.needed = IF calc.legs = <<>> THEN target ELSE calc.legs[1]
  BY <1>1 DEF RouteInv, CalcInv
<1>3. m \in Nat \ {0} /\ last \in StepSet /\ last.kind = "withdraw"
  <2>1. m \in {2, 5}
    BY <1>1, StepsAre
  <2>2. m \in 1..m
    BY <2>1
  <2> QED BY <1>1, <2>1, <2>2, StepsAre
<1>4. calc.legs \in Seq(Nat \ {0}) /\ calc.legs # <<>> /\ calc.needed = calc.legs[1]
  BY <1>1, <1>2, <1>3 DEF Computed
<1>5. Ready(last)
  <2>1. m \in 1..Len(calc.legs) /\ m - m + m = m
    BY <1>1, <1>3
  <2>2. LegStep(Name, calc.legs, m) = last
    BY <1>1, <2>1 DEF LegStep
  <2> QED BY <1>2, <2>1, <2>2 DEF Computed
<1>6. Ceil(target, FeeOf(last).step) \in Nat
  BY <1>3, <1>5, WithdrawStep DEF RouteInv
<1>7. offers \in Seq(OfferType)
  BY <1>1, RouteAssumption DEF RouteInv, PathNames
<1>8. \A i \in DOMAIN offers : /\ i \in Nat \ {0} /\ offers[i].price \in Int
                              /\ offers[i].assetStep \in Int /\ offers[i].feeFallback \in BOOLEAN
  <2> SUFFICES ASSUME NEW i \in DOMAIN offers
               PROVE  /\ i \in Nat \ {0} /\ offers[i].price \in Int
                      /\ offers[i].assetStep \in Int /\ offers[i].feeFallback \in BOOLEAN
    OBVIOUS
  <2>1. offers[i] \in OfferType /\ i \in Nat \ {0}
    <3> HIDE DEF offers
    <3> QED BY <1>7
  <2> QED BY <2>1 DEF OfferType
<1>9. CASE best = 0
  <2>1. RefuseAt(Step("none", ""), "no offer")
    BY <1>9 DEF Purchase, Refuse
  <2>2. "no offer" # "no" /\ "no offer" # "thin"
    OBVIOUS
  <2> QED BY <1>1, <2>1, <2>2, RefusedKeeps
<1>10. CASE best # 0
  <2>1. Offer(quote)
    BY <1>10 DEF Purchase
  <2>2. /\ best \in DOMAIN offers /\ Covers(offers[best], calc.needed, AssetOf[Name], Wanted)
    <3>1. calc.needed \in Int
      BY <1>2
    <3> HIDE DEF offers
    <3> QED BY <1>8, <1>10, <3>1, SelectedIsCheapest
  <2>3. /\ o.price \in Int /\ o.assetStep \in Int /\ o.feeFallback \in BOOLEAN /\ o.price > 0
        /\ best \in Nat /\ InOneOrder(o, Lots(calc.needed, o), Price(calc.needed, o))
    BY <1>8, <2>2 DEF Covers, CountryEligible, InOneOrder
  <2> HIDE DEF o, best, offers
  <2>4. /\ Lots(calc.needed, o) \in Nat /\ Lots(calc.needed, o) >= calc.needed
        /\ Price(calc.needed, o) \in Nat \ {0}
    <3>1. calc.needed \in Int /\ calc.needed > 0
      BY <1>2
    <3>2. Lots(calc.needed, o) \in Int /\ Lots(calc.needed, o) >= calc.needed
      BY <2>3, <3>1, PriceType
    <3>3. Price(calc.needed, o) \in Nat \ {0}
      BY <2>3, <3>1, PriceType
    <3> QED BY <3>1, <3>2, <3>3
  <2>5. /\ Degraded(o) \in BOOLEAN /\ (calc.degraded => Degraded(o))
        /\ o.feeFallback => Degraded(o)
    BY <1>2, <2>3 DEF Degraded
  <2> HIDE DEF last, m
  <2>6. quote \in QuoteType
    <3>1. calc.legs \in Seq(Nat)
      BY <1>4
    <3> QED BY <1>1, <1>6, <2>3, <2>4, <2>5, <3>1 DEF QuoteType
  <2>7. Marked(Name, calc.legs, Degraded(o))
    BY <1>2, <2>5 DEF Marked
  <2>8. /\ quote.route = Name /\ quote.legs = calc.legs /\ quote.degraded = Degraded(o)
        /\ quote.bought = Lots(calc.needed, o) /\ quote.received = Ceil(target, FeeOf(last).step)
        /\ quote.offer = best /\ quote.rub = Price(calc.needed, o)
    OBVIOUS
  <2> HIDE DEF quote
  <2>9. Bought(quote)
    <3>1. Chosen(quote) = o
      BY <2>8 DEF Chosen, o, offers
    <3> QED BY <2>3, <2>5, <2>8, <3>1 DEF Bought
  <2>10. Backed(quote)
    BY <1>1, <1>2, <1>4, <2>4, <2>7, <2>8, <2>9 DEF Backed, last, m
  <2> QED BY <1>1, <2>1, <2>6, <2>8, <2>10, OfferKeeps
<1> QED BY <1>9, <1>10

\* Ranking rearranges the quotes: none is lost, and none made up.
LEMMA RankedAre ==
    ASSUME NEW qs \in Seq(QuoteType)
    PROVE  /\ Ranked(qs) \in Seq(QuoteType)
           /\ {Ranked(qs)[i] : i \in DOMAIN Ranked(qs)} = {qs[i] : i \in DOMAIN qs}
<1> DEFINE n == Len(qs)
           k == [i \in 1..n |-> 4 * qs[i].rub + Place(qs[i])]
           Fit(p) == \A i, j \in DOMAIN qs : i < j => ~ Precedes(qs[p[j]], qs[p[i]])
           order == CHOOSE p \in Bijection(DOMAIN qs, DOMAIN qs) : Fit(p)
<1>1. DOMAIN qs = 1..n /\ n \in Nat /\ \A i \in 1..n : qs[i] \in QuoteType
  OBVIOUS
<1>2. \A i \in 1..n : qs[i].rub \in Nat /\ Place(qs[i]) \in 1..3
  <2> SUFFICES ASSUME NEW i \in 1..n PROVE qs[i].rub \in Nat /\ Place(qs[i]) \in 1..3
    OBVIOUS
  <2>1. qs[i].rub \in Nat /\ qs[i].route \in RouteNames
    BY <1>1 DEF QuoteType
  <2>2. \E j \in DOMAIN Routes : Routes[j] = qs[i].route
    BY <2>1, RoutesAre
  <2> QED BY <2>1, <2>2, RoutesAre DEF Place
<1>3. k \in [1..n -> Int]
  BY <1>2
<1>4. PICK p \in Arrangements(n) : InOrder(k, p, n)
  <2> HIDE DEF k
  <2> QED BY <1>1, <1>3, ArrangementExists DEF Arrangeable
<1>5. \A i \in 1..n : p[i] \in 1..n
  <2> HIDE DEF n
  <2>1. p \in [1..n -> 1..n]
    BY <1>4, ArrangementIs
  <2> QED BY <2>1
<1>6. Fit(p)
  <2> SUFFICES ASSUME NEW i \in 1..n, NEW j \in 1..n, i < j
               PROVE  ~ Precedes(qs[p[j]], qs[p[i]])
    BY <1>1
  <2>1. p[i] \in 1..n /\ p[j] \in 1..n
    BY <1>5
  <2>2. k[p[i]] <= k[p[j]]
    BY <1>4 DEF InOrder
  <2>3. 4 * qs[p[i]].rub + Place(qs[p[i]]) <= 4 * qs[p[j]].rub + Place(qs[p[j]])
    BY <2>1, <2>2
  <2>4. /\ qs[p[i]].rub \in Nat /\ Place(qs[p[i]]) \in 1..3
        /\ qs[p[j]].rub \in Nat /\ Place(qs[p[j]]) \in 1..3
    BY <1>2, <2>1
  <2> DEFINE a == qs[p[i]]
             b == qs[p[j]]
  <2>5. /\ a.rub \in Nat /\ Place(a) \in 1..3 /\ b.rub \in Nat /\ Place(b) \in 1..3
        /\ 4 * a.rub + Place(a) <= 4 * b.rub + Place(b)
    BY <2>3, <2>4
  <2> HIDE DEF a, b
  <2>6. ~ (b.rub < a.rub) /\ ~ (b.rub = a.rub /\ Place(b) < Place(a))
    <3> DEFINE ra == a.rub
               rb == b.rub
               pa == Place(a)
               pb == Place(b)
    <3>1. /\ ra \in Nat /\ pa \in 1..3 /\ rb \in Nat /\ pb \in 1..3
          /\ 4 * ra + pa <= 4 * rb + pb
      BY <2>5
    <3> HIDE DEF ra, rb, pa, pb
    <3>2. ~ (rb < ra) /\ ~ (rb = ra /\ pb < pa)
      BY <3>1
    <3> QED BY <3>2 DEF ra, rb, pa, pb
  <2>7. ~ Precedes(b, a)
    BY <2>6 DEF Precedes
  <2> QED BY <2>7 DEF a, b
<1>7. order \in Bijection(DOMAIN qs, DOMAIN qs)
  <2> HIDE DEF Fit
  <2> QED BY <1>1, <1>4, <1>6 DEF Arrangements
<1>8. Ranked(qs) = [i \in 1..n |-> qs[order[i]]]
  BY <1>1 DEF Ranked, Sorted
<1> HIDE DEF order, n
<1>9. /\ \A i \in 1..n : order[i] \in 1..n
      /\ \A t \in 1..n : \E i \in 1..n : order[i] = t
  <2>1. order \in Arrangements(n)
    BY <1>1, <1>7 DEF Arrangements
  <2>2. /\ order \in [1..n -> 1..n]
        /\ \A t \in 1..n : \E i \in 1..n : order[i] = t
    BY <2>1, ArrangementIs
  <2> QED BY <2>2
<1>10. Ranked(qs) \in Seq(QuoteType)
  BY <1>1, <1>8, <1>9
<1>11. DOMAIN Ranked(qs) = 1..n /\ \A i \in 1..n : Ranked(qs)[i] = qs[order[i]]
  BY <1>8
<1> HIDE DEF Fit
<1>12. {Ranked(qs)[i] : i \in DOMAIN Ranked(qs)} = {qs[i] : i \in DOMAIN qs}
  <2>1. \A i \in 1..n : \E j \in 1..n : Ranked(qs)[i] = qs[j]
    BY <1>9, <1>11
  <2>2. \A j \in 1..n : \E i \in 1..n : Ranked(qs)[i] = qs[j]
    BY <1>9, <1>11
  <2> DEFINE R == Ranked(qs)
  <2>3. DOMAIN R = 1..n /\ DOMAIN qs = 1..n
    BY <1>1, <1>11
  <2>4. /\ \A i \in 1..n : \E j \in 1..n : R[i] = qs[j]
        /\ \A j \in 1..n : \E i \in 1..n : R[i] = qs[j]
    BY <2>1, <2>2
  <2> HIDE DEF R
  <2>5. ASSUME NEW x PROVE x \in {R[i] : i \in 1..n} <=> x \in {qs[i] : i \in 1..n}
    <3>1. x \in {R[i] : i \in 1..n} <=> \E i \in 1..n : x = R[i]
      OBVIOUS
    <3>2. x \in {qs[i] : i \in 1..n} <=> \E j \in 1..n : x = qs[j]
      OBVIOUS
    <3>3. ASSUME \E i \in 1..n : x = R[i] PROVE \E j \in 1..n : x = qs[j]
      BY <2>4, <3>3, Zenon
    <3>4. ASSUME \E j \in 1..n : x = qs[j] PROVE \E i \in 1..n : x = R[i]
      BY <2>4, <3>4, Zenon
    <3> QED BY <3>1, <3>2, <3>3, <3>4
  <2>6. {R[i] : i \in 1..n} = {qs[i] : i \in 1..n}
    BY <2>5
  <2> QED BY <2>3, <2>6 DEF R
<1> QED BY <1>10, <1>12

\* When the quotes are ranked the inductive invariant stands.
LEMMA RankKeeps == ASSUME RouteInv, Rank PROVE RouteInv'
<1>1. /\ calc.route = 4 /\ quotes' = Ranked(quotes) /\ calc' = Begun(calc.route + 1)
      /\ UNCHANGED given /\ refused' = refused
  BY RoutesAre DEF Rank
<1>2. quotes' \in Seq(QuoteType) /\ Quoted' = Quoted
  BY <1>1, RankedAre DEF RouteInv, QuotesInv, Quoted
<1>3. CalcInv' /\ calc'.route = 5
  <2>1. calc.route \in 1..4
    BY <1>1
  <2> QED BY <1>1, <2>1, BegunInv DEF RouteInv
<1>4. QuotesInv' /\ RefusedInv'
  <2>1. \A q \in Quoted : Sound(q)'
    BY <1>1, ArgumentsStay DEF RouteInv, QuotesInv
  <2>2. \A r \in RouteNames : Excused(refused[r])'
    BY <1>1, ArgumentsStay DEF RouteInv, RefusedInv
  <2> QED BY <1>1, <1>2, <2>1, <2>2 DEF RouteInv, QuotesInv, RefusedInv
<1>5. OnceInv'
  <2>1. \A i \in 1..3 : i < 4 /\ i < 5
    OBVIOUS
  <2> QED BY <1>1, <1>2, <1>3, <2>1 DEF RouteInv, OnceInv
<1>6. market' = market /\ target' = target
  BY <1>1 DEF given
<1> QED BY <1>3, <1>4, <1>5, <1>6 DEF RouteInv

\* What every step keeps.
LEMMA RouteNext == RouteInv /\ [Next]_vars => RouteInv'
<1> SUFFICES ASSUME RouteInv, [Next]_vars PROVE RouteInv'
  OBVIOUS
<1>1. CASE Expire
  BY <1>1, ExpireKeeps
<1>2. CASE Cancelled
  BY <1>2, CancelledKeeps
<1>3. CASE BestChange
  BY <1>3, BestChangeKeeps
<1>4. CASE Backward
  BY <1>4, BackwardKeeps
<1>5. CASE Purchase
  BY <1>5, PurchaseKeeps
<1>6. CASE Rank
  BY <1>6, RankKeeps
<1>7. CASE UNCHANGED vars
  <2>1. UNCHANGED <<given, calc, quotes, refused>>
    BY <1>7 DEF vars, given
  <2> QED BY <2>1, NothingChanges
<1> QED BY <1>1, <1>2, <1>3, <1>4, <1>5, <1>6, <1>7 DEF Next

\* The invariant holds in every state of a calculation.
LEMMA RouteInvariant == Spec => []RouteInv
<1> QED BY RouteInit, RouteNext, PTL DEF Spec

-----------------------------------------------------------------------------
(* What the invariant says of a quote. *)

\* Every leg of a quoted path is exact for what comes after it.
LEMMA QuotedLegs ==
    ASSUME RouteInv, NEW q \in Paths
    PROVE  /\ q \in QuoteType /\ Sound(q) /\ q.route \in PathNames
           /\ q.legs \in Seq(Nat \ {0}) /\ Legs(q) = 1..Len(q.legs) /\ Len(q.legs) \in Nat \ {0}
           /\ Len(q.legs) = Len(StepsOf[q.route])
           /\ \A i \in Legs(q) :
                /\ StepsOf[q.route][i] \in StepSet /\ Ready(StepsOf[q.route][i])
                /\ After(q, i) \in Nat \ {0} /\ q.legs[i] = Input(StepsOf[q.route][i], After(q, i))
                /\ Exact(StepsOf[q.route][i], After(q, i), q.legs[i])
<1> DEFINE m == Len(StepsOf[q.route])
<1>1. q \in QuoteType /\ Sound(q) /\ q.route \in PathNames
  <2>1. quotes \in Seq(QuoteType) /\ Sound(q)
    BY DEF RouteInv, QuotesInv, Paths
  <2>2. q \in QuoteType
    BY <2>1 DEF Paths, Quoted
  <2>3. q.route \in RouteNames /\ q.route # "bestchange"
    BY <2>2 DEF QuoteType, Paths
  <2> QED BY <2>1, <2>2, <2>3 DEF RouteNames
<1>2. /\ Len(q.legs) = m /\ q.legs \in Seq(Nat \ {0})
      /\ \A i \in 1..m : Ready(LegStep(q.route, q.legs, i))
                       /\ q.legs[i] = Input(LegStep(q.route, q.legs, i), AfterLeg(q.legs, i))
  BY <1>1 DEF Sound, Backed, Computed
<1>3. m \in Nat \ {0} /\ \A i \in 1..m : StepsOf[q.route][i] \in StepSet
  <2>1. m \in {2, 5} /\ \A i \in 1..m : StepsOf[q.route][i] \in StepSet
    BY <1>1, StepsAre
  <2> HIDE DEF m
  <2>2. m \in Nat \ {0}
    BY <2>1
  <2> QED BY <2>1, <2>2
<1>4. Legs(q) = 1..m
  BY <1>2 DEF Legs
<1> HIDE DEF m
<1>5. ASSUME NEW i \in 1..m
      PROVE  /\ StepsOf[q.route][i] \in StepSet /\ Ready(StepsOf[q.route][i])
             /\ After(q, i) \in Nat \ {0} /\ q.legs[i] = Input(StepsOf[q.route][i], After(q, i))
             /\ Exact(StepsOf[q.route][i], After(q, i), q.legs[i])
  <2> DEFINE s == StepsOf[q.route][i]
  <2>1. LegStep(q.route, q.legs, i) = s
    <3>1. m - m + i = i
      BY <1>3
    <3> QED BY <1>2, <3>1 DEF LegStep, m
  <2>2. After(q, i) = AfterLeg(q.legs, i) /\ After(q, i) \in Nat \ {0}
    <3>1. i # m => i + 1 \in 1..m
      BY <1>3
    <3>2. target \in Nat \ {0}
      BY DEF RouteInv
    <3> QED BY <1>2, <3>1, <3>2 DEF After, AfterLeg
  <2>3. Ready(s) /\ q.legs[i] = Input(s, After(q, i)) /\ s \in StepSet
    BY <1>2, <1>3, <2>1, <2>2
  <2>4. q.legs[i] # Failed
    BY <1>2, <1>3 DEF Failed
  <2> HIDE DEF s
  <2>5. Exact(s, After(q, i), q.legs[i])
    BY <2>2, <2>3, <2>4, StepIsExact DEF RouteInv
  <2> QED BY <2>2, <2>3, <2>5 DEF s
<1> QED BY <1>1, <1>2, <1>3, <1>4, <1>5 DEF m

\* What a quote asks for is enough at every step.
LEMMA EnoughForAll == RouteInv => NeverShort
<1> SUFFICES ASSUME RouteInv, NEW q \in Paths
             PROVE  /\ InOneOrder(Chosen(q), q.bought, q.rub)
                    /\ q.bought >= q.legs[1] /\ q.received >= target
                    /\ \A i \in Legs(q) :
                         Yields(StepsOf[q.route][i], q.legs[i]) >= After(q, i) * One
                    /\ Yields(StepsOf[q.route][Len(q.legs)], q.legs[Len(q.legs)]) >= q.received * One
  BY DEF NeverShort
<1> DEFINE m == Len(q.legs)
           last == StepsOf[q.route][m]
<1>1. /\ Sound(q) /\ q.route \in PathNames /\ Legs(q) = 1..m /\ m \in Nat \ {0}
      /\ m = Len(StepsOf[q.route])
      /\ \A i \in 1..m : Exact(StepsOf[q.route][i], After(q, i), q.legs[i])
  BY QuotedLegs
<1>2. m \in 1..m
  BY <1>1
<1>3. last \in StepSet /\ Ready(last) /\ q.legs[m] = Input(last, After(q, m))
  BY <1>1, <1>2, QuotedLegs
<1>4. After(q, m) = target /\ last.kind = "withdraw"
  BY <1>1, StepsAre DEF After
<1>5. /\ q.bought >= q.legs[1] /\ q.received = Ceil(target, FeeOf(last).step)
      /\ InOneOrder(Chosen(q), q.bought, q.rub)
  BY <1>1 DEF Sound, Backed, Bought
<1>6. /\ Ceil(target, FeeOf(last).step) >= target
      /\ Yields(last, Input(last, target)) >= Ceil(target, FeeOf(last).step) * One
  <2> HIDE DEF last
  <2> QED BY <1>3, <1>4, WithdrawStep DEF RouteInv
<1>7. \A i \in Legs(q) : Yields(StepsOf[q.route][i], q.legs[i]) >= After(q, i) * One
  BY <1>1 DEF Exact
<1> QED BY <1>3, <1>4, <1>5, <1>6, <1>7

\* With any less, a step falls short.
LEMMA NoMoreThanEnough == RouteInv => NothingToSpare
<1> SUFFICES ASSUME RouteInv, NEW q \in Paths, NEW i \in Legs(q)
             PROVE  Yields(StepsOf[q.route][i], q.legs[i] - 1) < After(q, i) * One
  BY DEF NothingToSpare
<1> QED BY QuotedLegs DEF Exact

\* A refused route keeps why: the step could not be had even from the whole book.
LEMMA ThinIsThin == RouteInv => ThinForReal
<1> SUFFICES ASSUME RouteInv, NEW i \in DOMAIN Routes, refused[Routes[i]].why = "thin"
             PROVE  Yields(refused[Routes[i]].step, AllOf(refused[Routes[i]].step))
                      < refused[Routes[i]].needed * One
  BY DEF ThinForReal
<1> DEFINE r == refused[Routes[i]]
<1>1. /\ r.step \in StepSet /\ r.needed \in Nat \ {0} /\ Ready(r.step)
      /\ Input(r.step, r.needed) = Failed
  BY RoutesAre DEF RouteInv, RefusedInv, Excused
<1> HIDE DEF r
<1>2. Yields(r.step, AllOf(r.step)) < r.needed * One
  BY <1>1, StepIsExact DEF RouteInv
<1> QED BY <1>2 DEF r

\* The marks of the steps and of the advertisement reach the quote.
LEMMA MarksArrive == RouteInv => FallbacksMarked
<1> SUFFICES ASSUME RouteInv, NEW q \in Paths, UsesFallback(q)
             PROVE  q.degraded /\ ~ filter.noFallback
  BY DEF FallbacksMarked
<1> DEFINE m == Len(StepsOf[q.route])
<1>1. Sound(q) /\ q.route \in PathNames /\ Len(q.legs) = m /\ m \in Nat
  BY QuotedLegs
<1>2. /\ Marked(q.route, q.legs, q.degraded) /\ Bought(q)
      /\ q.degraded => ~ filter.noFallback
  BY <1>1 DEF Sound, Backed
<1>3. CASE Chosen(q).feeFallback
  BY <1>2, <1>3 DEF Bought
<1>4. ASSUME NEW i \in DOMAIN StepsOf[q.route],
             StepsOf[q.route][i].kind # "deposit", FeeOf(StepsOf[q.route][i]).fallback
      PROVE  q.degraded
  <2>1. i \in 1..m /\ m - m + i = i
    <3>1. DOMAIN StepsOf[q.route] = 1..m
      BY <1>1, StepsAre
    <3>2. i \in 1..m
      BY <3>1
    <3> HIDE DEF m
    <3> QED BY <1>1, <3>2
  <2>2. LegStep(q.route, q.legs, i) = StepsOf[q.route][i]
    BY <1>1, <2>1 DEF LegStep
  <2> QED BY <1>1, <1>2, <1>4, <2>1, <2>2 DEF Marked
<1> QED BY <1>2, <1>3, <1>4 DEF UsesFallback

\* A route that has been tried is quoted once or refused, never both.
LEMMA OnceEach == RouteInv => TypeOK
<1> SUFFICES ASSUME RouteInv PROVE TypeOK
  OBVIOUS
<1>1. /\ calc.route \in 1..(Len(Routes) + 2) /\ calc.needed \in Nat /\ calc.degraded \in BOOLEAN
      /\ calc.legs \in Seq(Nat \ {Failed})
  <2>1. 1..(Len(Routes) + 2) = 1..5
    BY RoutesAre
  <2> QED BY <2>1 DEF RouteInv, CalcInv, Failed
<1>2. ASSUME NEW q \in Quoted
      PROVE  /\ q.rub \in Nat \ {0} /\ q.bought \in Nat /\ q.received \in Nat
             /\ q.legs \in Seq(Nat) /\ q.degraded \in BOOLEAN
  <2>1. q \in QuoteType
    BY DEF RouteInv, QuotesInv, Quoted
  <2> QED BY <2>1 DEF QuoteType
<1>3. ASSUME NEW i \in 1..3
      PROVE  Cardinality({q \in Quoted : q.route = Routes[i]})
               + (IF refused[Routes[i]] = NotRefused THEN 0 ELSE 1) = (IF i < calc.route THEN 1 ELSE 0)
  <2> DEFINE S == {q \in Quoted : q.route = Routes[i]}
  <2>1. Cardinality({}) = 0 /\ \A q : Cardinality({q}) = 1
    BY FS_EmptySet, FS_Singleton
  <2>2. CASE i < calc.route /\ refused[Routes[i]] = NotRefused
    <3>1. PICK q \in Quoted : q.route = Routes[i]
      BY <2>2 DEF RouteInv, OnceInv
    <3>2. S = {q}
      BY <3>1 DEF RouteInv, OnceInv
    <3>3. Cardinality(S) = 1
      BY <2>1, <3>2
    <3> HIDE DEF S
    <3>4. Cardinality(S) + 0 = 1
      BY <3>3
    <3> QED BY <2>2, <3>4 DEF S
  <2>3. CASE i < calc.route /\ refused[Routes[i]] # NotRefused
    <3>1. S = {}
      BY <2>3 DEF RouteInv, OnceInv
    <3> QED BY <2>1, <2>3, <3>1
  <2>4. CASE ~ (i < calc.route)
    <3>1. refused[Routes[i]] = NotRefused /\ S = {}
      BY <2>4 DEF RouteInv, OnceInv
    <3> QED BY <2>1, <2>4, <3>1
  <2> QED BY <2>2, <2>3, <2>4
<1> QED BY <1>1, <1>2, <1>3, RoutesAre DEF TypeOK

-----------------------------------------------------------------------------
(* The properties, for every market, target and filter. *)

\* A route is untried, quoted or refused, and what is quoted has its type.
THEOREM RouteTyped == Spec => []TypeOK
<1> QED BY RouteInvariant, OnceEach, PTL

\* Who follows the steps of a quote never stands short (Path.Calculate).
THEOREM RouteNeverShort == Spec => []NeverShort
<1> QED BY RouteInvariant, EnoughForAll, PTL

\* No quote asks for more than it must, at any step and from any book.
THEOREM RouteNothingToSpare == Spec => []NothingToSpare
<1> QED BY RouteInvariant, NoMoreThanEnough, PTL

\* A book is called too thin only if all of it would not be enough.
THEOREM RouteThinForReal == Spec => []ThinForReal
<1> QED BY RouteInvariant, ThinIsThin, PTL

\* Fallback fees are marked, and kept from who excludes them.
THEOREM RouteFallbacksMarked == Spec => []FallbacksMarked
<1> QED BY RouteInvariant, MarksArrive, PTL
=============================================================================
