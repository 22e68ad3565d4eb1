SPECIFICATION Spec
CONSTANTS
  Requests = {r1, r2}
  Rfqs = {f1, f2}
  Quotes = {q1, q2, q3}
  Vendors = {v1}
  Nil = Nil
  MayFail = TRUE
SYMMETRY Symmetry
INVARIANTS
  TypeOK
  RejectionLeavesAWinner
  AwardIntegrity
PROPERTY NothingTakenBack
CHECK_DEADLOCK FALSE
