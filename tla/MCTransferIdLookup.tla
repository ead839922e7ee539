------------------------- MODULE MCTransferIdLookup -------------------------
(* Instances of TransferIdLookup for TLC. *)
EXTENDS TransferIdLookup, TLC

CONSTANTS c1, c2

\* As the transfers were sent, and the other way round.
EitherWay == {[i \in 1 .. MaxEvents |-> i], [i \in 1 .. MaxEvents |-> - i]}

Symmetry == Permutations(Chains)
=============================================================================
