SPECIFICATION MCSpec
CONSTANTS
  r1 = r1
  r2 = r2
  r3 = r3
  k1 = k1
  k2 = k2
  claude = claude
  copilot = copilot
  ollama = ollama
  Threshold = 2
  MaxMult = 3
  Request = {r1, r2, r3}
  Provider = {claude, copilot, ollama}
  LocalOrder <- MCLocal
  Subscription <- MCSubscription
  Chain <- MCChain
  Prompt = {k1, k2}
  PromptOf <- MCPromptOf
  LocalOnly = {r1}
  Sensitive = {r3}
  Metered = {r1, r3}
  Schema = {r2}
  SkipCache = {r2}
  ClassifierFails = FALSE
  Caller = {r1, r2}
  Plan = {claude}
  Backoff <- MCBackoff
  MaxRestarts = 1
  Starter = {r1, r2}
  groq = groq
  Vendor = {claude, groq}
  Blocked = {groq}
  NoStarter = NoStarter
CHECK_DEADLOCK FALSE
INVARIANTS
  IInv
  RequestHonoured
  RefusedForReason
  RegistryWhole
  InTurn
PROPERTIES
  PublicCallsSettle
  StartSucceeds
