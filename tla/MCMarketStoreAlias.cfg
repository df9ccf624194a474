SPECIFICATION Spec
CONSTANTS
  Refreshers = {"demo"}
  Readers = {r1}
  Keys = {"p2p", "fee"}
  OfferKeys = {"p2p"}
  MaxUpdates = 3
  NewsOf <- AllNews
  Values = {1, 2}
  Room = 8
  Nil = Nil
  Nobody = Nobody
  Absent = Absent
  NoView = NoView
INVARIANT CopiesOwned
