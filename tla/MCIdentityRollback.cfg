CONSTANTS
  Machine = {m1, m2}
  NoId = NoId
  Object = {o1}
  MaxWWN = 2
SYMMETRY Symmetry
SPECIFICATION Spec
INVARIANT
  CloneDetected
