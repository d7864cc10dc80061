\* Two workers: what the two mutexes guarantee for a pool of any size.
SPECIFICATION Spec
CONSTANTS
  Workers = {w1, w2}
  Senders = {io}
  Actors = {a1, a2}
  Msgs = {m1, m2, m3}
  MaxThroughput = 1
  None = None
SYMMETRY Symmetry
INVARIANTS
  TypeOK
  WorkConserving
  InboxHasRunner
\* All messages handled and all workers waiting is a legitimate end, and so
\* is the end of the process after a data race.
CHECK_DEADLOCK FALSE
