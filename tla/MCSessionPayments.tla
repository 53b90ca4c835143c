------------------------- MODULE MCSessionPayments -------------------------
(* Instances of SessionPayments for TLC.  The calls are interchangeable.   *)
EXTENDS SessionPayments, TLC

RequestSymmetry == Permutations(Requests)

=============================================================================
