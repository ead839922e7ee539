----------------------------- MODULE MCEventSync -----------------------------
(* Instances of EventSync for TLC. *)
EXTENDS EventSync, TLC
=============================================================================
