SPECIFICATION FairSpec
CONSTANTS
  s1 = s1
  s2 = s2
  c1 = c1
  Sessions = {s1, s2}
  Clients = {c1}
  Nobody = Nobody
  Upgraded = Upgraded
  Loads <- OneAtATime
  MaxHeard = 1
  MaxFrames = 3
  Limit = 2
  MaxAsked = 4
  Files <- MainFiles
  MaxActivity = 3
INVARIANTS
  SentInOrder
  PipelineBounded
  ResponsesInOrder
  KeepsReading
PROPERTIES
  ImplementsSessions
  ReportedIsRemoved
  FramesAreSent
  SessionReleased
  SilentIsClosed
\* The end of the loop is a legitimate end.
CHECK_DEADLOCK FALSE
