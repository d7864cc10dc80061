SPECIFICATION Spec
CONSTANTS
  Data = {x, y}
  MaxEpochs = 2
  MaxOps = 3
  MaxInbox = 2
INVARIANTS
  TypeOK
  OneChain
  OneWrite
  WritesInOrder
\* A chain that ended, or the stop of the process, is a legitimate end.
CHECK_DEADLOCK FALSE
