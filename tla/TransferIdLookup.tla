-------------------------- MODULE TransferIdLookup --------------------------
(***************************************************************************)
(* How the transfers of a root are found on its source chain.  The L2      *)
(* bridge numbers the transfers that wait for each destination and commits *)
(* them as a root, of which the event names the hash alone.  SyncWatcher   *)
(* (and, for the command line, theGraph) works the list back out of the    *)
(* events between two commits and compares its hash with the root; a root  *)
(* whose list it gets wrong is marked isNotFound and never settled.        *)
(*                                                                         *)
(* The bridge is external.  A transfer is its place in the log, the hash   *)
(* of a root is the list of its transfers.                                 *)
(***************************************************************************)
EXTENDS Integers, Sequences

CONSTANTS
  Chains,              \* destinations
  MaxPendingTransfers, \* of the contract; a send beyond it commits first
  BatchBlocks,         \* of the configuration of the chain
  LateIndex,           \* 100 in the code
  IdOrders,            \* orders of transfer ids, by which theGraph sorts within a block
  MaxEvents            \* bound of the log

ASSUME LookupAssumption ==
  /\ MaxPendingTransfers \in Nat \ {0}
  /\ BatchBlocks \in Nat /\ LateIndex \in Nat /\ MaxEvents \in Nat
  /\ \A order \in IdOrders : /\ order \in [1 .. MaxEvents -> Int]
                             /\ \A i, j \in 1 .. MaxEvents : order[i] = order[j] => i = j

VARIABLES
  log,     \* TransferSent and TransfersCommitted events of the bridge, oldest first
  pending  \* transfers that wait, of each destination

vars == <<log, pending>>

BridgeDeployedBlockNumber == 1

\* A transfer has an index, a commit the transfers of its root.
TransferSent(c, index, place) ==
  [type |-> "sent", chain |-> c, index |-> index, ids |-> <<>>,
   block |-> place.block, tx |-> place.tx]
TransfersCommitted(c, ids, place) ==
  [type |-> "committed", chain |-> c, index |-> 0, ids |-> ids,
   block |-> place.block, tx |-> place.tx]

Init ==
  /\ log = <<>>
  /\ pending = [c \in Chains |-> <<>>]

-----------------------------------------------------------------------------
(* The bridge (external).  A call has a block or a transaction of its own, or *)
(* shares them with the one before: another contract may call more than once. *)

Places ==
  IF log = <<>> THEN {[block |-> BridgeDeployedBlockNumber, tx |-> 0]}
  ELSE LET last == log[Len(log)] IN
       {[block |-> last.block, tx |-> last.tx],
        [block |-> last.block, tx |-> last.tx + 1],
        [block |-> last.block + 1, tx |-> 0]}

Send(c) ==
  /\ Len(log) + 2 <= MaxEvents
  /\ \E place \in Places :
       LET full == Len(pending[c]) >= MaxPendingTransfers
           waiting == IF full THEN <<>> ELSE pending[c]
           committed == IF full
                        THEN Append(log, TransfersCommitted(c, pending[c], place))
                        ELSE log
       IN /\ log' = Append(committed, TransferSent(c, Len(waiting), place))
          /\ pending' = [pending EXCEPT ![c] = Append(waiting, Len(committed) + 1)]

CommitTransfers(c) ==
  /\ Len(log) < MaxEvents
  /\ pending[c] # <<>>
  /\ \E place \in Places :
       log' = Append(log, TransfersCommitted(c, pending[c], place))
  /\ pending' = [pending EXCEPT ![c] = <<>>]

Next == \E c \in Chains : Send(c) \/ CommitTransfers(c)

Spec == Init /\ [][Next]_vars

-----------------------------------------------------------------------------
(* eventsBatch and getSortedTransferIds. *)

\* Mutant of LastOfBatch: the block between two batches is left out.
LastOfBatchWithGaps(end, k) == end - k * (BatchBlocks + 2)

\* validateEventsBatchInput: eventsBatch throws when the search has one block only.
IsBatchInput(start, end) == start < end

\* Each batch ends one block before the one that was read before it.
LastOfBatch(end, k) == end - k * (BatchBlocks + 1)

\* The blocks that eventsBatch reads, a batch at a time from end down to start, when it
\* takes the two.
BatchesDownTo(start, end) ==
  {b \in start .. end : \E k \in 0 .. end - start :
     LastOfBatch(end, k) - BatchBlocks <= b /\ b <= LastOfBatch(end, k)}

Events(type, c, blocks) ==
  {i \in DOMAIN log : log[i].type = type /\ log[i].chain = c /\ log[i].block \in blocks}

\* Transfers are sorted by index, block, and the order in which they were read.
WithIndex(items, index) == {i \in items : log[i].index = index}
IsBefore(i, j, order) ==
  \/ log[i].block < log[j].block
  \/ log[i].block = log[j].block /\ order[i] <= order[j]
First(S, order) == CHOOSE i \in S : \A j \in S : IsBefore(i, j, order)
Last(S, order) == CHOOSE i \in S : \A j \in S : IsBefore(j, i, order)

\* Of those with one index the first is seen; the last may take its place when it was
\* sent in a later block than the first, and than the block where the search began.
Seen(items, index, order) == First(WithIndex(items, index), order)
Replacements(items, index, startBlock) ==
  {i \in WithIndex(items, index) :
     /\ \E j \in WithIndex(items, index) : log[j].block < log[i].block
     /\ log[i].block > startBlock}

\* Indexes count up to the first that is missing.
IsLength(items, length) ==
  /\ WithIndex(items, length) = {}
  /\ \A index \in 0 .. length - 1 : WithIndex(items, index) # {}
Length(items) == CHOOSE length \in 0 .. Len(log) : IsLength(items, length)

\* Mutant of GetSortedTransferIds: the transfer that was seen first stays.
SeenTransferIds(items, startBlock, order) ==
  [n \in 1 .. Length(items) |-> Seen(items, n - 1, order)]

\* A replacement beyond the length makes the code throw or leave a hole: either way the
\* list is not the one of the root.
GetSortedTransferIds(items, startBlock, order) ==
  LET firstBlock == log[Seen(items, 0, order)].block
      IsReplaced(index) ==
        /\ Replacements(items, index, startBlock) # {}
        /\ \/ index > LateIndex
           \/ \E i \in WithIndex(items, index) : log[i].block < firstBlock
  IN [n \in 1 .. Length(items) |->
        IF IsReplaced(n - 1) THEN Last(Replacements(items, n - 1, startBlock), order)
                             ELSE Seen(items, n - 1, order)]

-----------------------------------------------------------------------------
(* lookupTransferIds of SyncWatcher, for the commit event e of a root. *)

\* The commit before it for the same destination.
PriorCommits(e) ==
  {i \in Events("committed", log[e].chain,
                BatchesDownTo(BridgeDeployedBlockNumber, log[e].block)) : i < e}

Latest(commits) == CHOOSE i \in commits : \A j \in commits : j <= i

StartBlock(commits) ==
  IF commits = {} THEN BridgeDeployedBlockNumber ELSE log[Latest(commits)].block

\* Mutant of IsBetween: what was sent by the transaction of the commit before is left out.
IsAfterCommit(i, e, commits) ==
  /\ commits # {} /\ log[i].block = log[Latest(commits)].block
       => log[i].tx > log[Latest(commits)].tx
  /\ log[i].block = log[e].block => log[i].tx <= log[e].tx

\* Transfers of the blocks of the two commits are told apart by their transaction.
IsBetween(i, e, commits) ==
  /\ commits # {} /\ log[i].block = log[Latest(commits)].block
       => log[i].tx >= log[Latest(commits)].tx
  /\ log[i].block = log[e].block => log[i].tx <= log[e].tx

TransfersBetween(e) ==
  LET commits == PriorCommits(e)
      blocks == BatchesDownTo(StartBlock(commits), log[e].block)
  IN {i \in Events("sent", log[e].chain, blocks) : IsBetween(i, e, commits)}

\* Neither search throws.
IsSearchable(e) ==
  /\ IsBatchInput(BridgeDeployedBlockNumber, log[e].block)
  /\ IsBatchInput(StartBlock(PriorCommits(e)), log[e].block)

\* There is no list when a search throws; a root has a transfer.
LookupTransferIds(e) ==
  IF IsSearchable(e)
  THEN GetSortedTransferIds(TransfersBetween(e), StartBlock(PriorCommits(e)),
                            [i \in DOMAIN log |-> i])
  ELSE <<>>

-----------------------------------------------------------------------------
(* getTransferIdsForTransferRoot of theGraph: by blocks alone, and transfers of one *)
(* block come in the order of their ids. *)

PriorBlockCommits(e) == Events("committed", log[e].chain, 0 .. log[e].block - 1)

TransfersOfBlocks(e) ==
  Events("sent", log[e].chain, StartBlock(PriorBlockCommits(e)) .. log[e].block)

GetTransferIdsForTransferRoot(e, order) ==
  GetSortedTransferIds(TransfersOfBlocks(e), StartBlock(PriorBlockCommits(e)), order)

-----------------------------------------------------------------------------
(* Properties. *)

Commits == {e \in DOMAIN log : log[e].type = "committed"}

\* The transfers of a root, and what a search found of the roots before and after it.
Own(e) == {log[e].ids[n] : n \in DOMAIN log[e].ids}
OfRootsBefore(items, e) == {i \in items : i < e} \ Own(e)
OfRootsAfter(items, e) == {i \in items : i > e}

\* A transfer of the root before is harmless when this root has a later one with its
\* index, and began in a later block; one of the root after, when this root has one
\* with its index.
CanBeToldApart(items, e) ==
  /\ \A i \in OfRootsBefore(items, e) :
       /\ log[i].index > 0 /\ log[i].index < Len(log[e].ids)
       /\ log[log[e].ids[1]].block > log[i].block
  /\ \A i \in OfRootsAfter(items, e) :
       /\ log[i].index < Len(log[e].ids) /\ log[i].index <= LateIndex
       /\ \A j \in OfRootsBefore(items, e) : log[j].index # log[i].index

\* The bridge was there before the block of the commit, and no earlier root for the same
\* destination was committed in it.  The lookup of another root throws.
HasSearchableBlock(e) ==
  /\ log[e].block # BridgeDeployedBlockNumber
  /\ \A i \in Commits : i < e /\ log[i].chain = log[e].chain => log[i].block # log[e].block

\* The watcher gets the list of a root right when it can search for it, whichever blocks and
\* transactions its transfers share with the commits before and after it and with those of
\* other destinations.
LookupIsExact ==
  \A e \in Commits : HasSearchableBlock(e) /\ CanBeToldApart(TransfersBetween(e), e)
    => LookupTransferIds(e) = log[e].ids

\* A transfer of a later root comes after the one of this root with its index.
IsSentLater(items, e) ==
  \A i \in OfRootsAfter(items, e) :
    log[i].block > log[log[e].ids[log[i].index + 1]].block

\* So does the graph, in whichever order it returns the transfers of a block.
GraphLookupIsExact ==
  \A e \in Commits :
    CanBeToldApart(TransfersOfBlocks(e), e) /\ IsSentLater(TransfersOfBlocks(e), e)
      => \A order \in IdOrders : GetTransferIdsForTransferRoot(e, order) = log[e].ids
=============================================================================
