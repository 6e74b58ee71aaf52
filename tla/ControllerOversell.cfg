CONSTANTS
  Peers = {p1}
  d1 = d1
  d2 = d2
  Drinks = {d1}
  UnknownDrink = unknown
  NoDrink = NoDrink
  AuthCodes = {c1}
  NoCode = NoCode
  NoPeer = NoPeer
  NoOrder = NoOrder
  InitialStock <- LastItem
  ItemNums = {1}
  Malformed = {FALSE}
  Timely = TRUE
  MaxTransactions = 1
  MaxIncoming = 1
SPECIFICATION Spec
PROPERTY EachSaleTakesAnItem
