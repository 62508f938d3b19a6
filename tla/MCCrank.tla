------------------------------ MODULE MCCrank ------------------------------
(* Instances of Crank for TLC: three foragers, told apart because a run     *)
(* with liveness properties takes no symmetry.                              *)
EXTENDS Crank

CONSTANTS f1, f2, f3
=============================================================================
