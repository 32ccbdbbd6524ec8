---------------------------- MODULE MCCloudAccount ----------------------------
(* Model checking of CloudAccount.                                         *)
EXTENDS CloudAccount, TLC

Symmetry == Permutations(Attempts)
===============================================================================
