SPECIFICATION Spec
CONSTANTS
  a = a
  b = b
  c = c
  l = l
  s = s
  cluster = cluster
  copilot = copilot
  Request = {a, b, c, l}
  Foreground = {a, b, c, l}
  InLoop = {l}
  Delegated = {a, b, c, l}
  Small = {}
  Offloadable = {b, l}
  Session = {s}
  SessionOf <- MCSessionOf
  TurnOf <- MCTurnOf
  Provider = {cluster, copilot}
  Local = {cluster}
  Target = cluster
  Chain <- MCChain
  OffloadChain <- MCOffloadChain
  MaxInFlight = 1
  RetryOn = {"network_error", "other"}
  RetryBudget = 1
  Leaving = {l}
  Follows <- MCFollows
PROPERTIES
  AbortStopsWork
CHECK_DEADLOCK FALSE
