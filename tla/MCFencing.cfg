CONSTANTS
  Host = {h1, h2}
  Isid = {s1, s2}
  Lun = {1, 2}
  NoHost = NoHost
  NoIsid = NoIsid
  ResType = {"regonly", "allreg"}
  MaxEvents = 6
SYMMETRY Symmetry
SPECIFICATION Spec
INVARIANTS
  TypeOK
  StrandExact
  LossReported
  AlarmHasCause
