----------------------------- MODULE UsdProofs -----------------------------
(***************************************************************************)
(* Proofs about the calculation for dollars: a quoted pair covers the      *)
(* request, and no pair of advertisements is cheaper.  Needed, which the   *)
(* code computes by division, is compared with Least, the least amount     *)
(* that brings the dollars.                                                *)
(***************************************************************************)
EXTENDS Usd, RouteProofs

-----------------------------------------------------------------------------
(* Rounding. *)

\* Cut to whole cents: at most x, and less than a cent away.
LEMMA TruncatedIs ==
    ASSUME NEW x \in Int
    PROVE  /\ Truncated(x) \in Int /\ Truncated(x) <= x
           /\ target \in Int /\ target % Cent = 0 /\ x >= target => Truncated(x) >= target
<1>1. Cent \in Nat \ {0}
  BY UsdAssumption
<1>2. /\ x \div Cent \in Int /\ x % Cent \in 0..(Cent - 1) /\ x % Cent = x - Cent * (x \div Cent)
  BY <1>1, Divided
<1>3. Truncated(x) = Cent * (x \div Cent) /\ Truncated(x) \in Int /\ Truncated(x) <= x
      /\ x < Truncated(x) + Cent
  BY <1>1, <1>2 DEF Truncated
<1>4. ASSUME target \in Int, target % Cent = 0, x >= target PROVE Truncated(x) >= target
  <2> DEFINE a == x \div Cent
             b == target \div Cent
  <2>1. a \in Int /\ b \in Int /\ Truncated(x) = Cent * a /\ target = Cent * b
    <3>1. b \in Int /\ target % Cent = target - Cent * b
      BY <1>1, <1>4, Divided
    <3>2. Cent * b \in Int
      BY <1>1, <3>1
    <3> HIDE DEF b
    <3> QED BY <1>2, <1>3, <1>4, <3>1, <3>2
  <2> HIDE DEF a, b
  <2> SUFFICES ASSUME a < b PROVE FALSE
    <3>1. a >= b => Cent * a >= Cent * b
      BY <1>1, <2>1
    <3> QED BY <2>1, <3>1
  <2>2. a + 1 <= b
    BY <2>1
  <2>3. Cent * (a + 1) <= Cent * b
    BY <1>1, <2>1, <2>2
  <2>4. Cent * (a + 1) = Cent * a + Cent
    BY <1>1, <2>1
  <2> QED BY <1>1, <1>3, <1>4, <2>1, <2>3, <2>4
<1> QED BY <1>3, <1>4

\* The least of a set is the one that is there and below all others.
LEMMA MinIs ==
    ASSUME NEW S \in SUBSET Int, NEW c \in S, \A x \in S : c <= x
    PROVE  Min(S) = c
<1>1. Min(S) \in S /\ \A x \in S : Min(S) <= x
  BY DEF Min
<1>2. c \in Int /\ Min(S) \in Int /\ Min(S) <= c /\ c <= Min(S)
  BY <1>1
<1> QED BY <1>2

\* What the code asks for is the least that brings the dollars.
LEMMA NeededIs ==
    ASSUME target \in Nat \ {0}, NEW o \in OfferType, o.price > 0, o.assetStep > 0
    PROVE  /\ Needed(o) \in Nat \ {0} /\ Needed(o) % o.assetStep = 0
           /\ Needed(o) * o.price \in Int /\ Received(o) \in Int
           /\ Received(o) = Truncated(Needed(o) * o.price)
           /\ ~ Brings(o, Needed(o) - o.assetStep)
           /\ Received(o) >= target => Brings(o, Needed(o))
           /\ target % Cent = 0 => Received(o) >= target /\ Least(o) = Needed(o)
<1> DEFINE c == Needed(o)
           step == o.assetStep
           price == o.price
<1>1. price \in Nat \ {0} /\ step \in Nat \ {0}
  BY DEF OfferType
<1>2. c = CeilRatio(target, price, step)
  BY DEF Needed
<1>3. \A x : Brings(o, x) <=> x % step = 0 /\ Truncated(x * price) >= target
  BY DEF Brings
<1>4. Received(o) = Truncated(c * price)
  BY DEF Received
<1>5. Least(o) = Min({x \in 0..(target + step) : Brings(o, x)})
  BY DEF Least
<1> HIDE DEF c, step, price
<1>6. /\ c \in Int /\ Steps(c, step) /\ c * price >= target /\ (c - step) * price < target
      /\ \A x \in Int : Steps(x, step) /\ x * price >= target => x >= c
  <2>1. target \in Int
    OBVIOUS
  <2> QED BY <1>1, <1>2, <2>1, CeilRatioLeast
<1>7. c \in Nat \ {0}
  <2>1. 0 * price < c * price
    BY <1>1, <1>6
  <2>2. 0 < c
    BY <1>1, <1>6, <2>1, Products
  <2> QED BY <1>6, <2>2
<1>8. c % step = 0
  BY <1>1, <1>6, StepsByRemainder
<1>9. c * price \in Int /\ Received(o) \in Int
  <2>1. c * price \in Int
    BY <1>1, <1>6
  <2> QED BY <1>4, <2>1, TruncatedIs
<1>10. ASSUME NEW x \in Int, Brings(o, x) PROVE x >= c
  <2>1. x * price \in Int /\ x % step = 0 /\ Truncated(x * price) >= target
    BY <1>1, <1>3, <1>10
  <2>2. x * price >= target
    <3>1. Truncated(x * price) \in Int /\ Truncated(x * price) <= x * price
      BY <2>1, TruncatedIs
    <3> QED BY <2>1, <3>1
  <2>3. Steps(x, step)
    BY <1>1, <2>1, StepsByRemainder
  <2> QED BY <1>6, <2>2, <2>3
<1>11. ~ Brings(o, c - step)
  <2>1. c - step \in Int /\ ~ (c - step >= c)
    BY <1>1, <1>6
  <2> QED BY <1>10, <2>1
<1>12. Received(o) >= target => Brings(o, c)
  BY <1>3, <1>4, <1>8
<1>13. ASSUME target % Cent = 0 PROVE Received(o) >= target /\ Least(o) = c
  <2>1. Received(o) >= target
    <3>1. target \in Int
      OBVIOUS
    <3> QED BY <1>4, <1>6, <1>9, <1>13, <3>1, TruncatedIs
  <2>2. c \in 0..(target + step)
    <3>1. c <= target + step
      <4>1. c - step \in Int
        BY <1>1, <1>6
      <4>2. CASE c - step <= 0
        BY <1>1, <1>6, <4>2
      <4>3. CASE c - step > 0
        <5>1. (c - step) * 1 <= (c - step) * price
          BY <1>1, <4>1, <4>3
        <5>2. (c - step) * price \in Int /\ (c - step) * 1 = c - step
          BY <1>1, <4>1
        <5> QED BY <1>1, <1>6, <4>1, <5>1, <5>2
      <4> QED BY <4>1, <4>2, <4>3
    <3> QED BY <1>1, <1>7, <3>1
  <2> DEFINE S == {x \in 0..(target + step) : Brings(o, x)}
  <2>3. c \in S /\ S \subseteq Int /\ \A x \in S : c <= x
    <3>1. c \in S
      BY <1>12, <2>1, <2>2
    <3>2. \A x \in S : x \in Int /\ x >= c
      BY <1>10
    <3> QED BY <1>6, <3>1, <3>2
  <2> HIDE DEF S
  <2>4. Min(S) = c
    BY <2>3, MinIs
  <2> QED BY <1>5, <2>1, <2>4 DEF S
<1> QED BY <1>4, <1>7, <1>8, <1>9, <1>11, <1>12, <1>13 DEF c, step, price

-----------------------------------------------------------------------------
(* The invariant: of the sellers considered so far, the best pair is the    *)
(* cheapest, and there is none only if no pair covers the request.          *)

PairPrice(p) == Price(Least(Sellers[p[1]]), Buyers[p[2]])

\* The pair is what the code says of it.
Good(b) ==
    LET buy  == Buyers[b.buy]
        sell == Sellers[b.sell]
    IN
    /\ b \in PairType /\ b.buy \in DOMAIN Buyers /\ b.sell \in DOMAIN Sellers
    /\ Eligible(sell) /\ Fits(sell)
    /\ b.needed = Needed(sell) /\ b.received = Received(sell)
    /\ b.bought >= b.needed /\ InOneOrder(buy, b.bought, b.rub)
    /\ buy.feeFallback \/ sell.feeFallback => b.degraded

Considered(u) ==
    /\ u.next \in 1..(Len(Sellers) + 1) /\ (u.next <= Len(Sellers) => target % Cent = 0)
    /\ u.best # Missing => Good(u.best)
    /\ target % Cent = 0 =>
         IF u.best = Missing THEN \A p \in Pairs : ~ (p[1] < u.next)
         ELSE /\ \E p \in Pairs : PairPrice(p) = u.best.rub
              /\ \A p \in Pairs : p[1] < u.next => u.best.rub <= PairPrice(p)

UsdInv == /\ market \in Markets /\ target \in Nat \ {0}
          /\ usd # Missing => Considered(usd)

\* The advertisements of the snapshot.
LEMMA OffersAre ==
    ASSUME market \in Markets
    PROVE  /\ Sellers \in Seq(OfferType)
           /\ DOMAIN Buyers \subseteq Nat \ {0}
           /\ \A i \in DOMAIN Buyers :
                /\ Buyers[i] \in OfferType /\ Buyers[i] = market.p2p["bybit"][i]
                /\ ~ Buyers[i].takerSells /\ Allowed(Buyers[i])
<1> DEFINE offers == market.p2p["bybit"]
           S == {i \in DOMAIN offers : ~ offers[i].takerSells /\ Allowed(offers[i])}
<1>1. offers \in Seq(OfferType) /\ Sellers \in Seq(OfferType)
  BY RouteAssumption DEF Sellers
<1>2. Buyers = [i \in S |-> offers[i]]
  BY DEF Buyers, Restrict
<1>3. /\ S \subseteq DOMAIN offers
      /\ \A i \in S : ~ offers[i].takerSells /\ Allowed(offers[i])
  OBVIOUS
<1> HIDE DEF S
<1> HIDE DEF offers
<1>4. DOMAIN offers \subseteq Nat \ {0} /\ \A i \in DOMAIN offers : offers[i] \in OfferType
  BY <1>1
<1>5. DOMAIN Buyers = S /\ \A i \in S : Buyers[i] = offers[i]
  BY <1>2
<1>6. \A i \in DOMAIN Buyers : Buyers[i] = market.p2p["bybit"][i]
  BY <1>5 DEF offers
<1> QED BY <1>1, <1>3, <1>4, <1>5, <1>6

\* What is said of pairs depends on the arguments of the calculation alone.
LEMMA PairsStay ==
    ASSUME UNCHANGED given
    PROVE  \A u : Considered(u)' <=> Considered(u)
<1>1. market' = market /\ target' = target /\ filter' = filter
  BY DEF given
<1>2. Sellers' = Sellers /\ Payment' = Payment /\ Buyers' = Buyers
  BY <1>1 DEF Sellers, Payment, Buyers, Allowed
<1>3. \A o : /\ Eligible(o)' <=> Eligible(o)
             /\ Needed(o)' = Needed(o) /\ Received(o)' = Received(o)
             /\ Least(o)' = Least(o)
  BY <1>1 DEF Eligible, Allowed, Needed, Received, Truncated, Least, Brings
<1>4. \A o : Fits(o)' <=> Fits(o)
  BY <1>1, <1>3 DEF Fits
<1>5. \A b : Good(b)' <=> Good(b)
  BY <1>2, <1>3, <1>4 DEF Good
<1>6. Pairs' = Pairs
  BY <1>2, <1>3 DEF Pairs, Truncated
<1>7. \A p : PairPrice(p)' = PairPrice(p)
  BY <1>2, <1>3 DEF PairPrice
<1> QED BY <1>1, <1>2, <1>5, <1>6, <1>7 DEF Considered

\* A step of the routes leaves the arguments alone.
LEMMA StepsKeepArguments == Next => UNCHANGED given
  BY DEF Next, Expire, Cancelled, BestChange, Backward, Purchase, Rank, Offer, Refuse, RefuseAt

\* A pair of advertisements, in the words of the code.
LEMMA PairIs ==
    ASSUME market \in Markets, target \in Nat \ {0}, target % Cent = 0
    PROVE  \A p \in (DOMAIN Sellers) \X (DOMAIN Buyers) :
             LET o == Sellers[p[1]] IN
             /\ p \in Pairs <=> /\ Eligible(o) /\ Fits(o)
                              /\ Covers(Buyers[p[2]], Needed(o), "USDT", Payment)
             /\ Eligible(o) => /\ PairPrice(p) = Price(Needed(o), Buyers[p[2]])
                               /\ PairPrice(p) \in Int
<1> SUFFICES ASSUME NEW p \in (DOMAIN Sellers) \X (DOMAIN Buyers)
             PROVE  LET o == Sellers[p[1]] IN
                    /\ p \in Pairs <=> /\ Eligible(o) /\ Fits(o)
                                     /\ Covers(Buyers[p[2]], Needed(o), "USDT", Payment)
                    /\ Eligible(o) => /\ PairPrice(p) = Price(Needed(o), Buyers[p[2]])
                                      /\ PairPrice(p) \in Int
  OBVIOUS
<1> DEFINE o == Sellers[p[1]]
           buyer == Buyers[p[2]]
<1>1. o \in OfferType /\ buyer \in OfferType
  BY OffersAre
<1>2. p \in Pairs <=>
        /\ Eligible(o) /\ Least(o) <= o.available
        /\ o.min <= Truncated(Least(o) * o.price) /\ Truncated(Least(o) * o.price) <= o.max
        /\ Covers(buyer, Least(o), "USDT", Payment)
  BY DEF Pairs
<1>3. PairPrice(p) = Price(Least(o), buyer)
  BY DEF PairPrice
<1> HIDE DEF o, buyer
<1>4. ASSUME Eligible(o)
      PROVE  /\ Least(o) = Needed(o) /\ Needed(o) \in Int
             /\ Received(o) = Truncated(Needed(o) * o.price) /\ Received(o) >= target
  <2>1. o.price > 0 /\ o.assetStep > 0
    BY <1>4 DEF Eligible
  <2> QED BY <1>1, <2>1, NeededIs
<1>5. Eligible(o) =>
        (Fits(o) <=> /\ Least(o) <= o.available
                     /\ o.min <= Truncated(Least(o) * o.price) /\ Truncated(Least(o) * o.price) <= o.max)
  BY <1>4 DEF Fits
<1>6. p \in Pairs <=> Eligible(o) /\ Fits(o) /\ Covers(buyer, Needed(o), "USDT", Payment)
  BY <1>2, <1>4, <1>5
<1>7. ASSUME Eligible(o) PROVE PairPrice(p) = Price(Needed(o), buyer) /\ PairPrice(p) \in Int
  <2>1. buyer.price \in Int /\ buyer.assetStep \in Int
    BY <1>1 DEF OfferType
  <2>2. Price(Needed(o), buyer) \in Int
    BY <1>4, <1>7, <2>1, PriceType
  <2> QED BY <1>3, <1>4, <1>7, <2>2
<1> QED BY <1>6, <1>7 DEF o, buyer

\* The purchase chosen for a seller is the cheapest pair with that seller.
LEMMA ChosenIsCheapest ==
    ASSUME market \in Markets, target \in Nat \ {0}, target % Cent = 0,
           NEW i \in DOMAIN Sellers, Eligible(Sellers[i]), Fits(Sellers[i])
    PROVE  LET need == Needed(Sellers[i])
               buy == SelectP2P(need, "USDT", Buyers, Payment)
           IN
           /\ buy # 0 => /\ buy \in DOMAIN Buyers /\ <<i, buy>> \in Pairs
                         /\ PairPrice(<<i, buy>>) = Price(need, Buyers[buy])
                         /\ \A p \in Pairs : p[1] = i => Price(need, Buyers[buy]) <= PairPrice(p)
           /\ buy = 0 => \A p \in Pairs : p[1] # i
<1> DEFINE o == Sellers[i]
           need == Needed(o)
           buy == SelectP2P(need, "USDT", Buyers, Payment)
<1>1. need \in Nat \ {0}
  <2>1. o \in OfferType /\ o.price > 0 /\ o.assetStep > 0
    BY OffersAre DEF Eligible
  <2> HIDE DEF o
  <2> QED BY <2>1, NeededIs
<1>2. \A j \in DOMAIN Buyers : j \in Nat \ {0} /\ Buyers[j].price \in Int /\ Buyers[j].assetStep \in Int
  BY OffersAre DEF OfferType
<1>3. \A j \in DOMAIN Buyers :
        /\ <<i, j>> \in Pairs <=> Covers(Buyers[j], need, "USDT", Payment)
        /\ PairPrice(<<i, j>>) = Price(need, Buyers[j])
  BY PairIs
<1>4. \A p \in Pairs : p[1] = i => p[2] \in DOMAIN Buyers /\ p = <<i, p[2]>>
  BY DEF Pairs
<1> HIDE DEF need
<1>5. /\ buy # 0 =>
           /\ buy \in DOMAIN Buyers /\ need > 0 /\ Covers(Buyers[buy], need, "USDT", Payment)
           /\ \A j \in DOMAIN Buyers : Covers(Buyers[j], need, "USDT", Payment) =>
                Price(need, Buyers[buy]) <= Price(need, Buyers[j])
      /\ buy = 0 => \A j \in DOMAIN Buyers : ~ Covers(Buyers[j], need, "USDT", Payment)
  <2>1. need \in Int /\ need > 0
    BY <1>1
  <2> QED BY <1>2, <2>1, SelectedIsCheapest
<1> HIDE DEF buy
<1>6. ASSUME buy # 0
      PROVE  /\ buy \in DOMAIN Buyers /\ <<i, buy>> \in Pairs
             /\ PairPrice(<<i, buy>>) = Price(need, Buyers[buy])
             /\ \A p \in Pairs : p[1] = i => Price(need, Buyers[buy]) <= PairPrice(p)
  <2>1. ASSUME NEW p \in Pairs, p[1] = i PROVE Price(need, Buyers[buy]) <= PairPrice(p)
    <3>1. p[2] \in DOMAIN Buyers /\ p = <<i, p[2]>>
      BY <1>4, <2>1
    <3>2. Covers(Buyers[p[2]], need, "USDT", Payment) /\ PairPrice(p) = Price(need, Buyers[p[2]])
      BY <1>3, <3>1
    <3> QED BY <1>5, <1>6, <3>1, <3>2
  <2> QED BY <1>3, <1>5, <1>6, <2>1
<1>7. ASSUME buy = 0, NEW p \in Pairs PROVE p[1] # i
  BY <1>3, <1>4, <1>5, <1>7
<1> QED BY <1>6, <1>7 DEF need, buy

\* One more seller is considered.
LEMMA ConsiderKeeps == ASSUME UsdInv, Consider PROVE UsdInv'
<1> DEFINE i == usd.next
           sell == Sellers[i]
           need == Needed(sell)
           buy == SelectP2P(need, "USDT", Buyers, Payment)
           rub == Price(need, Buyers[buy])
           pair == [buy |-> buy, sell |-> i, needed |-> need, received |-> Received(sell),
                    rub |-> rub, bought |-> Lots(need, Buyers[buy]),
                    degraded |-> EitherMark(Buyers[buy], sell)]
           fits == Eligible(sell) /\ Fits(sell) /\ buy # 0
           new == [next |-> i + 1, best |-> IF fits /\ Cheapens(rub, usd.best) THEN pair ELSE usd.best]
<1>1. /\ market \in Markets /\ target \in Nat \ {0} /\ usd # Missing /\ i <= Len(Sellers)
      /\ usd' = new /\ UNCHANGED vars
  BY DEF UsdInv, Consider
<1>2. Considered(usd)
  BY <1>1 DEF UsdInv
<1>3. /\ Sellers \in Seq(OfferType) /\ i \in 1..Len(Sellers) /\ i \in DOMAIN Sellers
      /\ sell \in OfferType /\ target % Cent = 0 /\ i + 1 \in 1..(Len(Sellers) + 1)
  <2>1. Sellers \in Seq(OfferType)
    BY <1>1, OffersAre
  <2>2. i \in 1..Len(Sellers) /\ target % Cent = 0
    <3>1. i \in 1..(Len(Sellers) + 1) /\ Len(Sellers) \in Nat
      BY <1>2, <2>1 DEF Considered
    <3> QED BY <1>1, <1>2, <3>1 DEF Considered
  <2> HIDE DEF i
  <2> QED BY <2>1, <2>2
<1> HIDE DEF i
<1>4. ASSUME NEW p \in Pairs
      PROVE  /\ p[1] \in DOMAIN Sellers /\ p[1] \in Int /\ PairPrice(p) \in Int
             /\ Eligible(Sellers[p[1]]) /\ Fits(Sellers[p[1]])
             /\ p[1] < i + 1 <=> p[1] < i \/ p[1] = i
  <2>1. p \in (DOMAIN Sellers) \X (DOMAIN Buyers)
    BY DEF Pairs
  <2>2. Eligible(Sellers[p[1]]) /\ Fits(Sellers[p[1]]) /\ PairPrice(p) \in Int
    BY <1>1, <1>3, <2>1, PairIs
  <2>3. p[1] \in DOMAIN Sellers /\ p[1] \in Int
    BY <1>3, <2>1
  <2> QED BY <1>3, <2>2, <2>3
<1>5. ASSUME Eligible(sell), Fits(sell)
      PROVE  /\ buy # 0 => /\ buy \in DOMAIN Buyers /\ <<i, buy>> \in Pairs
                           /\ PairPrice(<<i, buy>>) = rub
                           /\ \A p \in Pairs : p[1] = i => rub <= PairPrice(p)
             /\ buy = 0 => \A p \in Pairs : p[1] # i
  BY <1>1, <1>3, <1>5, ChosenIsCheapest
<1>6. ASSUME fits PROVE Good(pair) /\ pair # Missing /\ rub \in Int
  <2>1. /\ Buyers[buy] \in OfferType /\ buy \in DOMAIN Buyers /\ buy \in Nat
        /\ Covers(Buyers[buy], need, "USDT", Payment)
    <3>1. buy \in DOMAIN Buyers /\ <<i, buy>> \in Pairs
      BY <1>5, <1>6
    <3>2. Covers(Buyers[buy], need, "USDT", Payment)
      BY <1>1, <1>3, <3>1, PairIs
    <3> QED BY <1>1, <3>1, <3>2, OffersAre
  <2>2. need \in Nat \ {0} /\ Received(sell) \in Int
    <3>1. sell.price > 0 /\ sell.assetStep > 0
      BY <1>6 DEF Eligible
    <3> HIDE DEF sell
    <3> QED BY <1>1, <1>3, <3>1, NeededIs DEF need
  <2> HIDE DEF buy
  <2> DEFINE b == Buyers[buy]
  <2>3. /\ b.price \in Int /\ b.assetStep \in Int /\ b.feeFallback \in BOOLEAN
        /\ sell.feeFallback \in BOOLEAN
    BY <1>3, <2>1 DEF OfferType
  <2>4. InOneOrder(b, Lots(need, b), Price(need, b))
    BY <2>1 DEF Covers, CountryEligible, InOneOrder
  <2> HIDE DEF b, sell, need
  <2>5. Lots(need, b) \in Int /\ Lots(need, b) >= need /\ Price(need, b) \in Int
    <3>1. need \in Int
      BY <2>2
    <3> QED BY <2>3, <3>1, PriceType
  <2>6. /\ EitherMark(b, sell) \in BOOLEAN
        /\ b.feeFallback \/ sell.feeFallback => EitherMark(b, sell)
    BY <2>3 DEF EitherMark
  <2>7. /\ pair.sell = i /\ pair.needed = need /\ pair.received = Received(sell)
        /\ pair.bought = Lots(need, b) /\ pair.degraded = EitherMark(b, sell)
        /\ pair.buy = buy /\ pair.rub = Price(need, b) /\ Buyers[pair.buy] = b
    BY DEF b
  <2>8. pair \in PairType
    <3>1. i \in Nat /\ need \in Int
      BY <1>3, <2>2
    <3> QED BY <2>1, <2>2, <2>5, <2>6, <3>1 DEF PairType, b
  <2>9. pair # Missing
    BY <2>8, UsdAssumption
  <2> HIDE DEF pair
  <2>10. Good(pair)
    BY <1>3, <1>6, <2>1, <2>4, <2>5, <2>6, <2>7, <2>8 DEF Good, sell, need
  <2> QED BY <2>5, <2>9, <2>10 DEF b
<1>7. ASSUME ~ fits, NEW p \in Pairs PROVE p[1] # i
  BY <1>4, <1>5, <1>7
<1>8. usd.best # Missing => usd.best.rub \in Int
  BY <1>2 DEF Considered, Good, PairType
<1>9. pair.rub = rub /\ new.next = i + 1
      /\ new.best = IF fits /\ Cheapens(rub, usd.best) THEN pair ELSE usd.best
  OBVIOUS
<1> HIDE DEF new, pair, fits, rub, sell, need, buy
<1>10. new.best # Missing => Good(new.best)
  BY <1>2, <1>6, <1>9 DEF Considered
<1>11. IF new.best = Missing THEN \A p \in Pairs : ~ (p[1] < new.next)
       ELSE /\ \E p \in Pairs : PairPrice(p) = new.best.rub
            /\ \A p \in Pairs : p[1] < new.next => new.best.rub <= PairPrice(p)
  <2>1. IF usd.best = Missing THEN \A p \in Pairs : ~ (p[1] < i)
        ELSE /\ \E p \in Pairs : PairPrice(p) = usd.best.rub
             /\ \A p \in Pairs : p[1] < i => usd.best.rub <= PairPrice(p)
    BY <1>2, <1>3 DEF Considered, i
  <2>2. CASE ~ fits
    BY <1>4, <1>7, <1>9, <2>1, <2>2
  <2>3. CASE fits /\ Cheapens(rub, usd.best)
    <3>1. /\ rub \in Int /\ new.best.rub = rub /\ new.best # Missing
          /\ \E p \in Pairs : PairPrice(p) = rub
          /\ \A p \in Pairs : p[1] = i => rub <= PairPrice(p)
      BY <1>5, <1>6, <1>9, <2>3 DEF fits
    <3>2. ASSUME NEW p \in Pairs, p[1] < i PROVE rub <= PairPrice(p)
      <4>1. usd.best # Missing /\ usd.best.rub <= PairPrice(p)
        BY <2>1, <3>2
      <4>2. rub < usd.best.rub
        BY <2>3, <4>1 DEF Cheapens
      <4> QED BY <1>4, <1>8, <3>1, <4>1, <4>2
    <3> QED BY <1>4, <1>9, <3>1, <3>2
  <2>4. CASE fits /\ ~ Cheapens(rub, usd.best)
    <3>1. usd.best # Missing /\ ~ (rub < usd.best.rub) /\ new.best = usd.best
      BY <1>9, <2>4 DEF Cheapens
    <3>2. ASSUME NEW p \in Pairs, p[1] = i PROVE usd.best.rub <= PairPrice(p)
      <4>1. rub <= PairPrice(p) /\ rub \in Int /\ PairPrice(p) \in Int /\ usd.best.rub \in Int
        BY <1>4, <1>5, <1>6, <1>8, <2>4, <3>1, <3>2 DEF fits
      <4> QED BY <3>1, <4>1
    <3> QED BY <1>4, <1>9, <2>1, <3>1, <3>2
  <2> QED BY <2>2, <2>3, <2>4
<1>12. Considered(new)
  BY <1>3, <1>9, <1>10, <1>11 DEF Considered
<1>13. Considered(usd)'
  <2>1. UNCHANGED given
    BY <1>1 DEF vars, given
  <2> QED BY <1>1, <1>12, <2>1, PairsStay
<1>14. market' = market /\ target' = target
  BY <1>1 DEF vars
<1> QED BY <1>1, <1>13, <1>14 DEF UsdInv

\* At the start of the search no seller has been considered.
LEMMA AskKeeps == ASSUME UsdInv, AskUsd PROVE UsdInv'
<1> DEFINE l == Len(Sellers)
           first == IF target % Cent = 0 THEN 1 ELSE l + 1
           new == [next |-> first, best |-> Missing]
<1>1. /\ market \in Markets /\ target \in Nat \ {0} /\ usd' = new /\ UNCHANGED vars
  BY DEF UsdInv, AskUsd
<1>2. Sellers \in Seq(OfferType) /\ l \in Nat
  <2>1. Sellers \in Seq(OfferType)
    BY <1>1, OffersAre
  <2> QED BY <2>1
<1>3. \A p \in Pairs : p[1] \in Nat \ {0}
  <2>1. DOMAIN Sellers \subseteq Nat \ {0}
    BY <1>2
  <2>2. \A p \in Pairs : p[1] \in DOMAIN Sellers
    BY DEF Pairs
  <2> QED BY <2>1, <2>2
<1> HIDE DEF l
<1>4. first \in 1..(l + 1) /\ (first <= l => target % Cent = 0) /\ (target % Cent = 0 => first = 1)
  BY <1>2
<1>5. new.next = first /\ new.best = Missing
  OBVIOUS
<1> HIDE DEF first, new
<1>6. target % Cent = 0 => \A p \in Pairs : ~ (p[1] < new.next)
  BY <1>3, <1>4, <1>5
<1>7. Considered(new)
  BY <1>4, <1>5, <1>6 DEF Considered, l
<1>8. Considered(usd)'
  <2>1. UNCHANGED given
    BY <1>1 DEF vars, given
  <2> QED BY <1>1, <1>7, <2>1, PairsStay
<1>9. market' = market /\ target' = target
  BY <1>1 DEF vars
<1> QED BY <1>1, <1>8, <1>9 DEF UsdInv

\* The steps of the routes leave the search as it is.
LEMMA GivenKeeps == ASSUME UsdInv, UNCHANGED given, usd' = usd PROVE UsdInv'
<1>1. market' = market /\ target' = target
  BY DEF given
<1>2. usd' # Missing => Considered(usd)'
  BY PairsStay DEF UsdInv
<1> QED BY <1>1, <1>2 DEF UsdInv

\* The invariant holds in every state of a search.
LEMMA UsdInvariant == SpecBoth => []UsdInv
<1>1. InitBoth => UsdInv
  BY RouteAssumption DEF InitBoth, Init, UsdInv
<1>2. UsdInv /\ [NextBoth]_both => UsdInv'
  <2> SUFFICES ASSUME UsdInv, [NextBoth]_both PROVE UsdInv'
    OBVIOUS
  <2>1. CASE Next /\ UNCHANGED usd
    BY <2>1, StepsKeepArguments, GivenKeeps
  <2>2. CASE AskUsd
    BY <2>2, AskKeeps
  <2>3. CASE Consider
    BY <2>3, ConsiderKeeps
  <2>4. CASE UNCHANGED both
    <3>1. UNCHANGED given /\ usd' = usd
      BY <2>4 DEF both, vars, given
    <3> QED BY <3>1, GivenKeeps
  <2> QED BY <2>1, <2>2, <2>3, <2>4 DEF NextBoth
<1> QED BY <1>1, <1>2, PTL DEF SpecBoth

\* A good pair covers the request, on both sides.
LEMMA GoodCovers == UsdInv => UsdCovered
<1> SUFFICES ASSUME UsdInv, usd # Missing, usd.best # Missing
             PROVE  LET b    == usd.best
                        buy  == market.p2p["bybit"][b.buy]
                        sell == Sellers[b.sell]
                    IN
                    /\ ~ buy.takerSells /\ InOneOrder(buy, b.bought, b.rub)
                    /\ InOneOrder(sell, b.needed, b.received)
                    /\ b.received = Truncated(b.needed * sell.price)
                    /\ b.bought >= b.needed
                    /\ Brings(sell, b.needed) /\ ~ Brings(sell, b.needed - sell.assetStep)
                    /\ buy.feeFallback \/ sell.feeFallback => b.degraded /\ ~ filter.noFallback
  BY DEF UsdCovered
<1> DEFINE b == usd.best
           buy == market.p2p["bybit"][b.buy]
           sell == Sellers[b.sell]
<1>1. market \in Markets /\ target \in Nat \ {0} /\ Good(b)
  BY DEF UsdInv, Considered
<1>2. Buyers[b.buy] = buy /\ ~ buy.takerSells /\ Allowed(buy)
  <2>1. b.buy \in DOMAIN Buyers
    BY <1>1 DEF Good
  <2> HIDE DEF b
  <2> QED BY <1>1, <2>1, OffersAre
<1>3. /\ b.sell \in DOMAIN Sellers /\ Eligible(sell) /\ Fits(sell)
      /\ b.needed = Needed(sell) /\ b.received = Received(sell)
      /\ b.bought >= b.needed /\ InOneOrder(buy, b.bought, b.rub)
      /\ buy.feeFallback \/ sell.feeFallback => b.degraded
  BY <1>1, <1>2 DEF Good
<1>4. sell \in OfferType
  BY <1>1, <1>3, OffersAre
<1> HIDE DEF b, buy, sell
<1>5. sell.price > 0 /\ sell.assetStep > 0 /\ ~ sell.restricted /\ Allowed(sell)
  BY <1>3 DEF Eligible, CountryEligible
<1>6. Received(sell) >= target /\ InOneOrder(sell, b.needed, b.received)
  BY <1>3, <1>5 DEF Fits, InOneOrder
<1>7. /\ Brings(sell, Needed(sell)) /\ ~ Brings(sell, Needed(sell) - sell.assetStep)
      /\ Received(sell) = Truncated(Needed(sell) * sell.price)
  BY <1>1, <1>4, <1>5, <1>6, NeededIs
<1>8. buy.feeFallback \/ sell.feeFallback => ~ filter.noFallback
  BY <1>2, <1>5 DEF Allowed
<1> QED BY <1>2, <1>3, <1>6, <1>7, <1>8 DEF b, buy, sell

\* When all sellers have been considered, all pairs have.
LEMMA NoPairIsCheaper == UsdInv => UsdCheapest
<1> SUFFICES ASSUME UsdInv, Done, target % Cent = 0
             PROVE  IF usd.best = Missing THEN Prices = {}
                    ELSE Prices # {} /\ usd.best.rub = Min(Prices)
  BY DEF UsdCheapest
<1>1. market \in Markets /\ target \in Nat \ {0} /\ Considered(usd) /\ usd.next > Len(Sellers)
  BY DEF UsdInv, Done
<1>2. Sellers \in Seq(OfferType)
  BY <1>1, OffersAre
<1>3. usd.next \in Int /\ Len(Sellers) \in Nat /\ DOMAIN Sellers = 1..Len(Sellers)
  <2>1. Len(Sellers) \in Nat /\ DOMAIN Sellers = 1..Len(Sellers)
    BY <1>2
  <2> QED BY <1>1, <2>1 DEF Considered
<1>4. ASSUME NEW p \in Pairs PROVE p[1] < usd.next /\ PairPrice(p) \in Int
  <2>1. p \in (DOMAIN Sellers) \X (DOMAIN Buyers)
    BY DEF Pairs
  <2>2. p[1] < usd.next
    <3>1. p[1] \in 1..Len(Sellers)
      BY <1>3, <2>1
    <3> QED BY <1>1, <1>3, <3>1
  <2>3. Eligible(Sellers[p[1]])
    BY DEF Pairs
  <2> QED BY <1>1, <2>1, <2>2, <2>3, PairIs
<1>5. Prices = {PairPrice(p) : p \in Pairs}
  BY DEF Prices, PairPrice
<1>6. CASE usd.best = Missing
  <2>1. Pairs = {}
    BY <1>1, <1>4, <1>6 DEF Considered
  <2> QED BY <1>5, <1>6, <2>1
<1>7. CASE usd.best # Missing
  <2>1. /\ \E p \in Pairs : PairPrice(p) = usd.best.rub
        /\ \A p \in Pairs : usd.best.rub <= PairPrice(p)
    BY <1>1, <1>4, <1>7 DEF Considered
  <2>2. usd.best.rub \in Prices /\ \A x \in Prices : usd.best.rub <= x
    BY <1>5, <2>1
  <2>3. Prices \in SUBSET Int
    BY <1>4, <1>5
  <2>4. Min(Prices) = usd.best.rub
    BY <2>2, <2>3, MinIs
  <2> QED BY <1>7, <2>2, <2>4
<1> QED BY <1>6, <1>7

-----------------------------------------------------------------------------
(* The properties, for every market, target and filter. *)

\* The calculation for dollars is one on top of that of the routes, which it does not disturb.
LEMMA RoutesAlongside == SpecBoth => Spec
<1>1. InitBoth => Init
  BY DEF InitBoth
<1>2. [NextBoth]_both => [Next]_vars
  BY DEF NextBoth, both, AskUsd, Consider
<1> QED BY <1>1, <1>2, PTL DEF SpecBoth, Spec

\* The promises of the routes hold while dollars are calculated from the same market.
THEOREM RoutesHoldAlongside ==
    SpecBoth => [](TypeOK /\ NeverShort /\ NothingToSpare /\ ThinForReal /\ FallbacksMarked)
<1> QED BY RoutesAlongside, RouteTyped, RouteNeverShort, RouteNothingToSpare, RouteThinForReal,
           RouteFallbacksMarked, PTL

\* A quoted pair covers the request, and not by a step more than needed (CalculateUSD).
THEOREM UsdIsCovered == SpecBoth => []UsdCovered
<1> QED BY UsdInvariant, GoodCovers, PTL

\* No pair is cheaper than the quoted one; the request is refused only if there is none.
THEOREM UsdIsCheapest == SpecBoth => []UsdCheapest
<1> QED BY UsdInvariant, NoPairIsCheaper, PTL
=============================================================================
