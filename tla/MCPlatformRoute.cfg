SPECIFICATION FairSpec
CONSTANTS
  tc = tc
  tm = tm
  own = own
  oth = oth
  new = new
  pw = pw
  rest = rest
  mgr = mgr
  longest = longest
  None = None
  Empty = Empty
  Wrong = Wrong
  Rests = {rest}
  Transports = {tc, tm}
  Logins = {own, oth, new, Empty}
  Passwords = {pw, Empty}
  Names = {mgr, longest}
  LongNames = {longest}
  Scenes <- AllScenes
  MaxCalls = 3
  MaxNotify = 1
  Persisted <- HomeDatabase
INVARIANTS
  TaskInOnePlace
  RepliesReachAsker
  RegisteredHasRow
  TrustedHasRow
  ForwardedToOwner
PROPERTIES
  Answered
\* All requests done and all connections closed is a legitimate end.
CHECK_DEADLOCK FALSE
