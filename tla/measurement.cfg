SPECIFICATION Spec
CHECK_DEADLOCK FALSE
CONSTANTS
  m = m
  n = n
  a = a
  d = d
  e = e
  q = q
  rec = rec
  rep = rep
  amb = amb
  NoReq = NoReq
  NoSpan = NoSpan
  TornSpan = TornSpan
  GarbledSpan = GarbledSpan
  Call = {m, n, a, d, e}
  Coding = {d, e}
  Split = {a}
  Hash <- MCHash
  Req <- MCReq
  OldRows <- MCOldRows
  Windows = 2
  Attempts = 2
  MaxFaults = 2
  Span = {rec, rep, amb}
  Ambient = {amb}
  Mode <- MCMode
  From <- MCFrom
  Cmd = {p1, p2}
  Job = {a, d, m}
  Tap = {m}
  Background = {d}
  MaxUpsets = 1
INVARIANTS
  RowsKept
PROPERTIES
  HistoryKept
  SpansHonoured
  ReplayFaithful
