SPECIFICATION FairSpec
CONSTANTS
  r1 = r1
  r2 = r2
  r3 = r3
  r4 = r4
  k1 = k1
  k2 = k2
  None = None
  Request = {r1, r2, r3}
  Key = {k1, k2}
  KeyOf <- MCKeyOf3
  Worker = {w1, w2}
  Size = 2
  PromptCap = 1
  CrashThreshold = 2
  MaxRequests = 2
  MaxVersion = 2
  ProbeMayFail = TRUE
  PoolDisabled = FALSE
CHECK_DEADLOCK FALSE
PROPERTIES
  ServiceLive
  EventuallyQuiet
