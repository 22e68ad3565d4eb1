SPECIFICATION Spec
CONSTANTS
  Requests = {r1, r2}
  Rfqs = {f1}
  Quotes = {q1, q2}
  Vendors = {v1, v2}
  Nil = Nil
  MayFail = FALSE
SYMMETRY Symmetry
INVARIANT OneWinner
CHECK_DEADLOCK FALSE
