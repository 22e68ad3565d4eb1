SPECIFICATION FairSpec
CONSTANTS
  t1 = t1
  t2 = t2
  Tabs = {t1, t2}
  Callers <- MCCallers
  Answers = {"wrapped", "bare"}
  Routes = {"/login", "/"}
  Visitors = {t1}
  MaxCalls = 2
  MaxPairs = 3
  MaxFaults = 1
INVARIANTS
  TypeOK
  StoredRefreshWorks
  BareServiceAdmitsNobody
PROPERTIES
  LoadingEnds
CHECK_DEADLOCK FALSE
