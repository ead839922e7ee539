-------------------------- MODULE MCTransferRootsDb --------------------------
(* Instances of TransferRootsDb for TLC. *)
EXTENDS TransferRootsDb

\* The updates of handleTransfersCommittedEvent, handleTransferRootBondedEvent,
\* populateTransferRootBondedAt and populateTransferRootTransferIds.
committed == {"transferRootHash", "totalAmount", "committedAt", "destinationChainId",
              "sourceChainId", "commitTxHash", "commitTxBlockNumber"}
bonded    == {"transferRootHash", "totalAmount", "bondTxHash"}
bondedAt  == {"bonder", "bondedAt"}
ids       == {"transferIds"}
MCPatches == {committed, bonded, bondedAt, ids}
MCFields  == UNION MCPatches
=============================================================================
