SPECIFICATION FairSpec
CONSTANTS
  Notes = {n1}
  Workers = {w1}
  Requests = {r1, r2}
  Kinds = {"push", "sms"}
  None = None
  MaxFaults = 1
PROPERTY ScheduledIsHandled
CHECK_DEADLOCK FALSE
