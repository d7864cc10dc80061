SPECIFICATION Spec
CONSTANTS
  tu = tu
  td = td
  tp = tp
  user = user
  owner = owner
  pw = pw
  pw2 = pw2
  rest = rest
  dev = dev
  g1 = g1
  g2 = g2
  None = None
  Empty = Empty
  Wrong = Wrong
  Rests = {rest}
  Transports = {tu, td, tp}
  Remote = {tu, tp}
  Logins = {user, owner, Empty}
  Passwords = {pw, pw2, Empty}
  Devices = {dev}
  Groups = {g1, g2}
  ProfileKey <- OwnerKey
  Scenes <- AllScenes
  MaxCalls = 4
  MaxNotify = 1
  Persisted <- Databases
INVARIANTS
  TypeOK
  TaskInOnePlace
  CommandAuthorized
  ListenersAuthorized
  UnsubscribeIsFinal
  AuthCacheFresh
\* All requests done and all connections closed is a legitimate end.
CHECK_DEADLOCK FALSE
