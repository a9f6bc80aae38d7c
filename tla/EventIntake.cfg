CONSTANTS
  w1 = w1
  w2 = w2
  s1 = s1
  a1 = a1
  k1 = k1
  k2 = k2
  bad = bad
  Bad = bad
  Workers = {p1, p2}
  Keys = {k1, k2}
  Legacy = {k2}
  Master = master
  Unknown = unknown
  Events <- MCEvents
  Quota = 1
  Lifetime = 1
  MaxTime = 1
  MaxCalls = 3
  MaxRestarts = 1
SPECIFICATION Spec
INVARIANTS QuotaHolds AgentSubjectAgrees
PROPERTIES RetryAddsNothing
CHECK_DEADLOCK FALSE
