CONSTANTS
  Object = {o1}
  Host = {h1, h2}
  NoObj = NoObj
  NoHost = NoHost
  UnlinkDurable = FALSE
SYMMETRY Symmetry
SPECIFICATION Spec
INVARIANT
  ClearedForGood
