SPECIFICATION FairSpec
CONSTANTS
  Refreshers = {"offers", "fees"}
  Readers = {r1}
  Keys = {"p2p", "fee"}
  OfferKeys = {"p2p"}
  MaxUpdates = 3
  NewsOf <- OwnNews
  Values = {1, 2}
  Room = 8
  Nil = Nil
  Nobody = Nobody
  Absent = Absent
  NoView = NoView
INVARIANTS TypeOK SlicesOwned
PROPERTIES Atomic ReadsEnd
