CONSTANTS
  Peers = {p1}
  d1 = d1
  d2 = d2
  Drinks = {d1}
  UnknownDrink = unknown
  NoDrink = NoDrink
  AuthCodes = {c1}
  NoCode = NoCode
  NoPeer = NoPeer
  NoOrder = NoOrder
  InitialStock <- SoldOut
  ItemNums = {1}
  Malformed = {FALSE}
  Timely = TRUE
  MaxTransactions = 1
  MaxIncoming = 0
SPECIFICATION Spec
INVARIANT WaitThatGivesUpGoesOn
