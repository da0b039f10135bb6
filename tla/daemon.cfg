SPECIFICATION Spec
CONSTANTS
  f = f
  g = g
  l = l
  s = s
  x = x
  y = y
  Call = {f, g, l}
  Tapped = {f, g, l}
  Chat = {f, g, l}
  Prompt <- MCPrompt
  Declared <- MCDeclared
  Big = {}
  Turn = {1, 2}
  TurnOf <- MCTurnOf
  Session = {s}
  SessionOf <- MCSessionOf
  TurnIndex <- MCTurnIndex
  Endpoint = {x, y}
  Flaky = {x}
  Config <- MCConfig
  FirstConfig <- MCFirst
  MaxInFlight = 1
  Attempts = 2
  MaxEdits = 1
  Follows <- MCFollows
CHECK_DEADLOCK FALSE
INVARIANTS
  IInv
PROPERTIES
  TurnStaysTogether
  ProviderIsLastResort
  GoesOn
