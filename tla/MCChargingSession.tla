------------------------- MODULE MCChargingSession -------------------------
(* Instances of ChargingSession for TLC.  The slots are interchangeable.   *)
EXTENDS ChargingSession, TLC

RequestSymmetry == Permutations(Requests)

=============================================================================
