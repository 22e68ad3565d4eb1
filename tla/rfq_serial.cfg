SPECIFICATION FairSpec
CONSTANTS
  Requests = {r1}
  Rfqs = {f1}
  Quotes = {q1, q2, q3}
  Vendors = {v1, v2, v3}
  Nil = Nil
  MayFail = FALSE
INVARIANTS
  AwardSettles
  QuotesAreInvited
PROPERTIES
  ImplementsLifecycle
  AcceptedLeadsToAwarded
CHECK_DEADLOCK FALSE
