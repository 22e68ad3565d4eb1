----------------------------- MODULE MCRfqSerial -----------------------------
(* RfqSerial for TLC.  No symmetry: the run checks temporal formulas.        *)
EXTENDS RfqSerial
=============================================================================
