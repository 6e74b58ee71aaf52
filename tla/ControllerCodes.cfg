CONSTANTS
  Peers = {p1}
  d1 = d1
  d2 = d2
  Drinks = {d1}
  UnknownDrink = unknown
  NoDrink = NoDrink
  AuthCodes = {c1, c2}
  NoCode = NoCode
  NoPeer = NoPeer
  NoOrder = NoOrder
  InitialStock <- Few
  ItemNums = {1, 2}
  Malformed = {FALSE}
  Timely = FALSE
  MaxTransactions = 3
  MaxIncoming = 3
SYMMETRY Symmetry
SPECIFICATION Spec
INVARIANTS
  DispensesOnlyPaidOrders
  NoDoubleRedemption
  CodesHaveItems
  RedemptionNeverLocksTwice
