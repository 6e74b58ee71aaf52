CONSTANTS
  A = A
  B = B
  C = C
  d1 = d1
  Machines = {A, B, C}
  Drinks = {d1}
  NoDrink = NoDrink
  NoMachine = NoMachine
  Codes = {c1, c2}
  InitialStock <- TwoItems
  Buyers = {A, C}
  MaxPurchases = 3
SYMMETRY Symmetry
SPECIFICATION Spec
INVARIANTS
  TypeOK
  RedemptionIsPaid
  OnlyAbandonedAnswersMislead
  ShownHasItsOwnItem
PROPERTIES
  FollowsLedger
