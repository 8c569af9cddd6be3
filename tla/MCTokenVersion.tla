--------------------------- MODULE MCTokenVersion ---------------------------
(* Instances of TokenVersion for TLC: requests are model values.           *)
EXTENDS TokenVersion
=============================================================================
