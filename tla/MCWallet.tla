------------------------------ MODULE MCWallet ------------------------------
(* Instances of Wallet for TLC.  The requests are interchangeable.         *)
EXTENDS Wallet, TLC

RequestSymmetry == Permutations(Requests)

=============================================================================
