CONSTANTS
  a4 = a4
  a6 = a6
  Addr4 <- MCAddr4
  Addr6 <- MCAddr6
  Any4 = any4
  Any6 = any6
  Portal <- MCPortal
  Taken <- MCTaken
  MaxMishaps = 4
SPECIFICATION Spec
INVARIANTS
  TypeOK
  BindsAccepted
  Converged
PROPERTIES
  NoFlap
  NoCrashLoop
