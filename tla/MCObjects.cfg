CONSTANTS
  Object = {o1, o2}
  Name = {n1, n2}
  NoName = NoName
  NoUUID = NoUUID
  MaxSize = 2
  LinkCanFail = FALSE
  SyncCanFail = TRUE
CONSTRAINT Focus
SYMMETRY Symmetry
SPECIFICATION Spec
INVARIANTS
  TypeOK
  OwedDataKept
  AckedIsDurable
  ReadyHasBytes
  ServedHasBytes
  EveryDbLoads
  HealthyServesExports
PROPERTY
  ImplementsCatalogue
