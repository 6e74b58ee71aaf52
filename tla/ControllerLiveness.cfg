CONSTANTS
  Peers = {p1}
  d1 = d1
  d2 = d2
  Drinks = {d1, d2}
  UnknownDrink = unknown
  NoDrink = NoDrink
  AuthCodes = {c1}
  NoCode = NoCode
  NoPeer = NoPeer
  NoOrder = NoOrder
  InitialStock <- LastItemAndSoldOut
  ItemNums = {1}
  Malformed = {FALSE}
  Timely = FALSE
  MaxTransactions = 2
  MaxIncoming = 1
SPECIFICATION FairSpec
INVARIANT PaidSaleIsOnCourse
PROPERTIES
  HaltRequestStays
  WaitStatesAreLeft
  LocalSaleIsDelivered
  HaltIsHonoured
