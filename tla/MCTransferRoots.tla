-------------------------- MODULE MCTransferRoots --------------------------
(* Instances of TransferRoots for TLC. *)
EXTENDS TransferRoots

CONSTANTS r1, r2

\* From an optimistic rollup to a chain whose messages have to be redeemed, or neither.
BothEnds == [oru : {TRUE}, relayable : {TRUE}] \cup [oru : {FALSE}, relayable : {FALSE}]
=============================================================================
