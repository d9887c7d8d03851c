CONSTANTS
  o1 = o1
  o2 = o2
  h1 = h1
  a = a
  b = b
  c = c
  x = x
  y = y
  q1 = q1
  q2 = q2
  None = None
  Object = {o1, o2, o3}
  Host = {h1, h2}
  OName = {a, b, c}
  HName = {x, y}
  Iqn = {q1, q2}
  Lun = {0, 1}
  MaxCalls = 3
  MaxAttempts = 4
  MaxFences = 2
  Repertoire <- Callers
  Deployed <- Deployments
SPECIFICATION Spec
INVARIANTS
  TypeOK
  CreateReplaySafe
  SuccessInEffect
  FenceLossTold
