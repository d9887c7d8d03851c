CONSTANTS
  Machine = {m1, m2}
  NoId = NoId
  Object = {o1}
  MaxWWN = 2
SYMMETRY Symmetry
CONSTRAINT NoRollback
SPECIFICATION Spec
INVARIANTS
  TypeOK
  FabricUnique
PROPERTY
  NameKept
