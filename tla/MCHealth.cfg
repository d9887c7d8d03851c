CONSTANTS
  Vol = {v1, v2}
  NoVol = NoVol
  Legacy = {v1}
  ModeShown = TRUE
  MaxEvents = 6
SPECIFICATION Spec
INVARIANTS
  TypeOK
  DriftExact
PROPERTIES
  GeometryBeforeExport
  CacheStaysDeclared
  LogCatchesUp
