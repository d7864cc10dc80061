SPECIFICATION FairSpec
CONSTANTS
  tu = tu
  td = td
  tp = tp
  user = user
  owner = owner
  pw = pw
  pw2 = pw2
  rest = rest
  dev = dev
  g1 = g1
  g2 = g2
  None = None
  Empty = Empty
  Wrong = Wrong
  Rests = {rest}
  Transports = {tu, td, tp}
  Remote = {tu, tp}
  Logins = {user, owner, Empty}
  Passwords = {pw, pw2, Empty}
  Devices = {dev}
  Groups = {g1, g2}
  ProfileKey <- OwnerKey
  Scenes <- AnswerScenes
  MaxCalls = 2
  MaxNotify = 0
  Persisted <- SharedDatabase
PROPERTIES
  Answered
\* All requests done and all connections closed is a legitimate end.
CHECK_DEADLOCK FALSE
