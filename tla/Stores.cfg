CONSTANTS
  Me = me
  Peers = {p1}
  Drinks = {d1, d2}
  AuthCodes = {c1, c2}
  NoCode = NoCode
  NoOrder = NoOrder
  MaxSaves = 4
SPECIFICATION Spec
SYMMETRY Symmetry
INVARIANTS
  TypeOK
  OneRecordPerCode
  CodesAreOnRecord
PROPERTIES
  HistoryIsKept
  FollowsLifeCycle
