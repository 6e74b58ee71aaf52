CONSTANTS
  Peers = {p1, p2}
  d1 = d1
  d2 = d2
  Drinks = {d1, d2}
  UnknownDrink = unknown
  NoDrink = NoDrink
  AuthCodes = {c1}
  NoCode = NoCode
  NoPeer = NoPeer
  NoOrder = NoOrder
  InitialStock <- LastItemAndSoldOut
  ItemNums = {1}
  Malformed = {TRUE, FALSE}
  Timely = TRUE
  MaxTransactions = 2
  MaxIncoming = 2
SYMMETRY Symmetry
SPECIFICATION Spec
INVARIANTS
  TypeOK
  InformationPresent
  OversellsOnlyLastItem
  AsksOncePerOrder
  ErrorScreenHasError
  PaidWaitHangsOnlyIfOvertaken
  StockWaitHangsOnlyIfAllAnswered
