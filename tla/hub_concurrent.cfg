SPECIFICATION Spec
CONSTANTS
  c1 = c1
  c2 = c2
  toUser = toUser
  toOrg = toOrg
  toEntity = toEntity
  Clients = {c1, c2}
  Profile <- MCProfile
  Events = {toUser, toOrg, toEntity}
  Route <- MCRoute
  Channels = {"vessel"}
  Note = Note
  None = None
  SendCap = 1
  BroadcastCap = 1
  MaxKicks = 1
  ClockSteps = FALSE
INVARIANTS
  TypeOK
  HubNeverPanics
  SubscriptionsMatch
  EventsStayInScope
CHECK_DEADLOCK FALSE
