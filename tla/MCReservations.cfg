CONSTANTS
  Object = {o1, o2}
  Host = {h1, h2}
  NoObj = NoObj
  NoHost = NoHost
  UnlinkDurable = TRUE
CONSTRAINT Focus
SYMMETRY Symmetry
SPECIFICATION Spec
INVARIANTS
  TypeOK
  FenceKept
  ClearSticks
  AbsentIsReported
  WithheldIsAbsent
PROPERTY
  TruthfulAnswer
