---------------------------- MODULE MCSettlement ----------------------------
(* Instances of Settlement for TLC. *)
EXTENDS Settlement, TLC

CONSTANTS t1, t2, b1, b2

\* Two transfers of one bonder or of two, up to the names.
OneOrTwoBonders == t1 :> {b1} @@ t2 :> {b1, b2}
=============================================================================
