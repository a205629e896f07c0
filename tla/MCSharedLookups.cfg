SPECIFICATION Spec
CONSTANTS
  a1 = a1
  a2 = a2
  s1 = s1
  s2 = s2
  Scopings <- MCScopings
  Audits = {a1, a2}
  Scopes = {s1, s2}
  v1 = v1
  v2 = v2
  Values = {v1, v2}
  Past <- MCPast
  Earlier = earlier
  Absent = absent
  SharedWorkers = 2
  ProbeWorkers = 2
  NegativeCap = 1
  NegativeTtl = 15
  PositiveTtl = 2
  MemoTtl = 1
  ResultTtl = 3
  QueryTime = 1
  MaxTime = 3
  MaxChanges = 1
INVARIANTS
  FixIsSeen
  HistoryTells
PROPERTY ChecksEnd
CHECK_DEADLOCK FALSE
