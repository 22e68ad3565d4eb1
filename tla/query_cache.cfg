SPECIFICATION FairSpec
CONSTANTS
  Ids = {i1}
  Calls = {c1, c2}
  MaxStale = 1
  MaxFaults = 1
INVARIANTS
  TypeOK
  OwnWritesShown
  EventsShown
PROPERTIES
  PolledIsShown
CHECK_DEADLOCK FALSE
