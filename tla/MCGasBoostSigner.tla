-------------------------- MODULE MCGasBoostSigner --------------------------
(* Instances of GasBoostSigner for TLC. *)
EXTENDS GasBoostSigner, TLC

\* The db of a program that starts for the first time.
Unset == {[nonce |-> 0, updated |-> "never"]}

\* The db of a program that ran before, maybe behind another one with the key.
Known == [nonce : 1 .. InitialCount, updated : {"longAgo"}]

Either == Unset \cup Known

Symmetry == Permutations(Txs)
=============================================================================
