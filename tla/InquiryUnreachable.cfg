CONSTANTS
  Me = T1
  T2 = T2
  T10 = T10
  Table <- MCTable
  Drinks = {d1, d2}
  NoDrink = NoDrink
  NoMachine = NoMachine
  NoNumber = NoNumber
  MyLocation <- Here
  Locations <- NearAndFar
  IdNumber <- Numbers
  IdText <- Texts
  InitialDrinks <- AllInStock
  MaxInquiries = 2
  MaxEvents = 1
SPECIFICATION Spec
INVARIANT RunningMachineIsAsked
