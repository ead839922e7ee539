-------------------------- MODULE MCBondWithdrawal --------------------------
(* Instances of BondWithdrawal for TLC. *)
EXTENDS BondWithdrawal, TLC

\* After a reorg t2 takes the nonce of t1.
SharedNonce == [t \in Transfers |-> 0]

\* Sound for the safety runs: transfers and calls are told apart by nothing else.
Symmetry == Permutations(Calls) \cup Permutations(Transfers)
=============================================================================
