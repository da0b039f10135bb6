SPECIFICATION Spec
CONSTANTS
  a = a
  b = b
  c = c
  copilot = copilot
  claude = claude
  e = e
  h = h
  Request = {a, b, c}
  Routed = {a, b}
  Overflow = {b}
  Checks <- MCChecks
  Copilot = copilot
  Endpoint = {e, h}
  Wants <- MCWants
  Any = Any
  None = None
  Slot = {1, 2}
  Tunnel = {a, b}
  Decrypted = {}
  Bypassed = {b}
  Call = {a, b}
  Token = {e, h}
  NoToken = NoToken
CHECK_DEADLOCK FALSE
INVARIANTS
  ProcessKept
  TunnelsKept
PROPERTIES
  FlagsSettle
  RefusalsEnd
  BegunEnds
