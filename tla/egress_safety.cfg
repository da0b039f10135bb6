SPECIFICATION Spec
CONSTANTS
  corp = corp
  detox = detox
  r1 = r1
  r2 = r2
  None = None
  Proxy = {corp, detox}
  Detox = detox
  Buildable = {corp, detox}
  Request = {r1, r2}
  Replayable = {r1}
  Lan = {}
  MaxRestarts = 1
  Nudges = FALSE
CHECK_DEADLOCK FALSE
INVARIANTS
  IInv
  StatusAgrees
PROPERTIES
  PinJustified
  RetryJustified
