SPECIFICATION FairSpec
CONSTANTS
  c1 = c1
  c2 = c2
  toUser = toUser
  toOrg = toOrg
  toEntity = toEntity
  Clients = {c1}
  Profile <- MCProfile
  Events = {toOrg, toEntity}
  Route <- MCRoute
  Channels = {"vessel"}
  Note = Note
  None = None
  SendCap = 2
  BroadcastCap = 2
  MaxKicks = 2
  ClockSteps = TRUE
PROPERTIES
  ConnectionsEnd
CHECK_DEADLOCK FALSE
