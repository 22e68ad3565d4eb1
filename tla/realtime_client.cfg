SPECIFICATION FairSpec
CONSTANTS
  Sockets = {s1, s2, s3, s4}
  Users = {ann}
  Channels = {status, position}
  None = None
  maxReconnectAttempts = 2
  MaxChanges = 3
INVARIANTS
  TypeOK
  UsedSocketSubscribed
  ConnectedAgrees
  RetriesBounded
PROPERTIES
  KeepsTrying
CHECK_DEADLOCK FALSE
