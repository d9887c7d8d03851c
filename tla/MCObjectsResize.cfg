CONSTANTS
  Object = {o1, o2}
  Name = {n1, n2}
  NoName = NoName
  NoUUID = NoUUID
  MaxSize = 2
  LinkCanFail = FALSE
  SyncCanFail = FALSE
SYMMETRY Symmetry
SPECIFICATION Spec
INVARIANT
  HealthyMatchesDb
