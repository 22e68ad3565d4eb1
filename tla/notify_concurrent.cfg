SPECIFICATION Spec
CONSTANTS
  Notes = {n1, n2}
  Workers = {w1}
  Requests = {r1, r2}
  Kinds = {"email"}
  None = None
  MaxFaults = 1
SYMMETRY Symmetry
INVARIANTS
  TypeOK
  SentOnce
  QueuedIsPending
  NeverEarly
CHECK_DEADLOCK FALSE
