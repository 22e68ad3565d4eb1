SPECIFICATION FairSpec
CONSTANTS
  MaxVisits = 3
INVARIANTS
  TypeOK
  BusyAgrees
  SavedIsShown
  ListedOnce
PROPERTIES
  PagesComeToRest
CHECK_DEADLOCK FALSE
