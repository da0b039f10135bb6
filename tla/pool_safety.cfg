SPECIFICATION Spec
CONSTANTS
  r1 = r1
  r2 = r2
  r3 = r3
  r4 = r4
  k1 = k1
  k2 = k2
  None = None
  Request = {r1, r2, r3, r4}
  Key = {k1, k2}
  KeyOf <- MCKeyOf
  Worker = {w1, w2, w3}
  Size = 2
  PromptCap = 1
  CrashThreshold = 2
  MaxRequests = 2
  MaxVersion = 1
  ProbeMayFail = FALSE
  PoolDisabled = FALSE
SYMMETRY WorkerSymmetry
CHECK_DEADLOCK FALSE
INVARIANTS
  IInv
  CapAtRest
PROPERTIES
  NoBystanderKilled
  NoRecycledReuse
  ServiceSafe
