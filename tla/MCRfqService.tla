---------------------------- MODULE MCRfqService ----------------------------
(* RfqService for TLC: requests, quotes and vendors are interchangeable.    *)
EXTENDS RfqService, TLC

Symmetry == Permutations(Requests) \cup Permutations(Quotes)
              \cup Permutations(Vendors) \cup Permutations(Rfqs)
=============================================================================
