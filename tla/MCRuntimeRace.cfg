SPECIFICATION Spec
CONSTANTS
  Workers = {w1, w2}
  Senders = {io}
  Actors = {a1}
  Msgs = {m1, m2}
  MaxThroughput = 1
  None = None
INVARIANTS
  CacheNotShared
CHECK_DEADLOCK FALSE
