CONSTANTS
  Object = {o1, o2}
  Host = {h1, h2}
  IQN = {i1, i2}
  Lun = {1, 2}
  MaxIdx = 1
  NoObj = NoObj
  NoHost = NoHost
  NoIdx = NoIdx
  NoTree = NoTree
  MaxBackups = 2
  Repertoire <- Callers
SYMMETRY Symmetry
SPECIFICATION Spec
INVARIANTS
  TypeOK
  GrantedOnly
  Converged
  NeverBusy
PROPERTY
  NoSwapUnderInitiator
