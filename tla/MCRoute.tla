------------------------------ MODULE MCRoute ------------------------------
(* Instances of Route and Usd for TLC: small markets that differ in one or two parts. *)
EXTENDS Usd

Level(price, amount) == [price |-> price, amount |-> amount]
Book(asks, bids)     == [asks |-> asks, bids |-> bids]
Inst(step, quoteStep, minBase, maxQuote) ==
    [step |-> step, tick |-> 1, quoteStep |-> quoteStep, minBase |-> minBase, minQuote |-> 0,
     maxBase |-> 0, maxQuote |-> maxQuote]
Fee(fixed, rate, step, min, fallback) ==
    [fixed |-> fixed, rate |-> rate, step |-> step, min |-> min, max |-> 0, fallback |-> fallback]

P2POffer(asset, price, min, max, step, restricted, fallback) ==
    [asset |-> asset, price |-> price, min |-> min, max |-> max, assetStep |-> step,
     restricted |-> restricted, available |-> 200, completion |-> 99, orders |-> 100,
     methods |-> {"tbank"}, feeFallback |-> fallback, takerSells |-> FALSE]
Sale(price, available, min, step, restricted, fallback) ==
    [P2POffer("USDT", price, min, 40, step, restricted, fallback) EXCEPT
       !.available = available, !.methods = {"165"}, !.takerSells = TRUE]
Office(rate, reserve) ==
    [enabled |-> TRUE, rate |-> rate, min |-> 0, max |-> 10000, reserve |-> reserve,
     method |-> "tbank"]

Nothing == [k \in {"bybit:BTC", "okx:BTC", "okx:GRAM", "wallet:GRAM"} |-> Missing]
Offers(bybit, wallet) == [k \in {"bybit", "wallet", "bybit:usd"} |->
    IF k = "bybit" THEN bybit ELSE IF k = "wallet" THEN wallet ELSE <<>>]

SomeAsks == {<<Level(3, 2), Level(2, 4)>>, <<Level(5, 3), Level(7, 4)>>, <<Level(4, 5)>>}
SomeBids == {<<Level(3, 5), Level(5, 4)>>, <<Level(4, 6), Level(3, 7)>>, <<Level(2, 3)>>}
BybitOffers == <<P2POffer("USDT", 5, 10, 1000, 0, FALSE, FALSE),
                 P2POffer("USDT", 4, 0, 1000, 0, TRUE, FALSE),
                 P2POffer("USDT", 4, 60, 1000, 4, FALSE, TRUE),
                 [P2POffer("USDT", 2, 0, 1000, 20, FALSE, FALSE) EXCEPT !.available = 19]>>

\* The direct path: the book of Bybit, its precision, its fees.
BybitMarkets ==
    {[books |-> [Nothing EXCEPT !["bybit:BTC"] = Book(asks, <<>>)],
      instruments |-> [Nothing EXCEPT !["bybit:BTC"] = Inst(step, quoteStep, 2, 30)],
      trade |-> [Nothing EXCEPT !["bybit:BTC"] = Fee(0, rate, 0, 0, FALSE)],
      fees |-> [Nothing EXCEPT !["bybit:BTC"] = Fee(fixed, 0, whole, 2, FALSE)],
      deposit |-> Nothing,
      p2p |-> Offers(BybitOffers, <<>>),
      exchange |-> <<Office(30, 3), Office(20, 1)>>] :
     asks \in SomeAsks, step \in {1, 2}, quoteStep \in {0, 3}, rate \in {0, 1, 3},
     fixed \in {0, 1}, whole \in {1, 2}}

\* The long path: the book of GRAM on top of one of BTC.
WalletMarkets ==
    {[books |-> [Nothing EXCEPT !["okx:BTC"] = Book(asks, <<>>), !["okx:GRAM"] = Book(<<>>, bids)],
      instruments |-> [Nothing EXCEPT !["okx:BTC"] = Inst(1, 0, 0, 0),
                                      !["okx:GRAM"] = Inst(step, 0, 0, 0)],
      trade |-> [Nothing EXCEPT !["okx:BTC"] = Fee(0, 1, 0, 0, FALSE),
                                !["okx:GRAM"] = Fee(0, rate, 0, 0, FALSE)],
      fees |-> [Nothing EXCEPT !["okx:BTC"] = Fee(0, 0, 1, 0, FALSE),
                               !["wallet:GRAM"] = Fee(fixed, 0, whole, 0, TRUE)],
      deposit |-> [Nothing EXCEPT !["okx:GRAM"] = Fee(0, 0, 0, 3, FALSE)],
      p2p |-> Offers(<<>>, <<P2POffer("GRAM", 7, 0, 1000, 0, FALSE, FALSE)>>),
      exchange |-> <<>>] :
     asks \in SomeAsks, bids \in SomeBids, step \in {1, 2}, rate \in {0, 1}, fixed \in {0, 1},
     whole \in {1, 3}}

\* Dollars: two advertisements to sell to, of different prices, lots and reserves.  On the list
\* of purchases one is cheaper with a fallback fee, and the cheapest are closed to everyone, sold
\* out by the lot, or there to sell to.
Listed == <<P2POffer("USDT", 5, 0, 1000, 0, FALSE, FALSE),
            P2POffer("USDT", 4, 6, 1000, 2, FALSE, TRUE),
            P2POffer("USDT", 2, 0, 1000, 0, TRUE, FALSE),
            [P2POffer("USDT", 2, 0, 1000, 3, FALSE, FALSE) EXCEPT !.available = 2],
            [P2POffer("USDT", 2, 0, 1000, 0, FALSE, FALSE) EXCEPT !.takerSells = TRUE]>>
UsdMarkets ==
    {[books |-> Nothing, instruments |-> Nothing, trade |-> Nothing, fees |-> Nothing,
      deposit |-> Nothing, exchange |-> <<>>,
      p2p |-> [Offers(Listed, <<>>) EXCEPT !["bybit:usd"] = <<first, second>>]] :
     first \in {Sale(price, 9, min, 2, no, FALSE) : price \in 2..3, min \in {0, 5}, no \in BOOLEAN},
     second \in {Sale(price, available, 0, step, FALSE, TRUE) :
                   price \in 1..2, available \in {2, 9}, step \in {1, 3}}}

SomeMarkets == BybitMarkets \cup WalletMarkets \cup UsdMarkets
SomeFilters ==
    {[payment |-> "", byProvider |-> <<>>, orders |-> 50, completion |-> 95, noFallback |-> no] :
       no \in BOOLEAN}
=============================================================================
