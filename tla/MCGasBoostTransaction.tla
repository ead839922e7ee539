----------------------- MODULE MCGasBoostTransaction -----------------------
(* Instances of GasBoostTransaction for TLC. *)
EXTENDS GasBoostTransaction

CONSTANTS p1, p2
=============================================================================
