SPECIFICATION FairSpec
CONSTANTS
  corp = corp
  detox = detox
  r1 = r1
  r2 = r2
  None = None
  Proxy = {corp, detox}
  Detox = detox
  Buildable = {corp, detox}
  Request = {r1}
  Replayable = {r1}
  Lan = {}
  MaxRestarts = 0
  Nudges = TRUE
CHECK_DEADLOCK FALSE
PROPERTIES
  Converges
  JoinedGoOn
