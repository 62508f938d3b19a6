------------------------------ MODULE MCBrood ------------------------------
(* Instances of Brood for TLC: depositors are interchangeable.  The virtual *)
(* offset is 2 shares to 1 asset instead of 10^6 to 1, so that roundings    *)
(* are large against the amounts.                                          *)
EXTENDS Brood, TLC

DepositorSymmetry == Permutations(Depositor)
ProfitOrLoss == {-3, 2}
=============================================================================
