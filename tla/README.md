# Hop bonder: TLA+ verification of `hop-node`

TLA+ modules, TLC runs and TLAPS proofs about the off-chain part of Hop Protocol
v1: the `hop-node` package of this repository (`src/packages/hop-node/src`). Paths
below are relative to it unless they begin with `packages/`. `PROJECT.json` lists
the components, the runs, the source lines of every definition, the hazards and the
theorems.

## 1. The system

A *bonder* moves liquidity. When a user sends a transfer on a source chain
(`TransferSent`), the bonder pays the recipient on the destination chain at once
(`bondWithdrawal`, the fast path) and gets its stake back later: the source bridge
commits a batch of transfers as a *transfer root* (`TransfersCommitted`), the root is
bonded on L1 (`bondTransferRoot`), confirmed by the native bridge, set on the
destination, and the bonded withdrawals of the root are settled
(`settleBondedWithdrawals`). A wrong bond can be challenged.

`hop-node` does this with one Node.js process: *watchers* that share a LevelDB
and a wallet. It is single threaded, so a handler runs alone between two `await`s,
and everything that happens in between can interleave: the sync of event logs, the
polls, several calls of one poll, and the pollers of pending transactions. The
process may crash at any `await`; the db and the chains survive.

### Inventory

| component | state | operations | hard behaviour | what makes it correct |
|---|---|---|---|---|
| **SyncWatcher** (`watchers/SyncWatcher.ts`) | none of its own; writes all dbs | event handlers, populate of incomplete items, settlement of roots, gas cost poll | events replayed and out of order, populate steps that fail, an event swallowed with its error | the db becomes what the chain says; nothing is acted on before it is complete |
| **TransfersDb**, **TransferRootsDb** (`db/`) | records, time index, incompletes, root ids by hash | merge of one record under a mutex, week-wide queries | index and record are written one after the other | every record a poll should see is found; a complete one is not looked up for ever |
| **BaseDb** (`db/BaseDb.ts`) | LevelDB, batch queue | read-merge-put under a mutex, queued batches | batch removed from the queue before it is written; read errors are swallowed | no update is lost or applied twice |
| **Event batches** (`watchers/classes/Bridge.ts`, `db/SyncStateDb.ts`) | sync watermark per event | `mapEventsBatch`, `eventsBatch`, the rounds of `SyncWatcher` | watermark stored before the handlers ended; a failed round goes on beside the next; providers that lag | no event is skipped; settle events come after those they need |
| **BondWithdrawalWatcher** (`watchers/BondWithdrawalWatcher.ts`) | the poll, `emergencyDryMode` of the process | poll, `checkTransferId`, validation before the transaction, retry bookkeeping | reorgs, stale reads over many awaits, calls that outlive their poll, providers that disagree, retries | never bond what is not there; bond what is |
| **GasBoostSigner** (`gasboost/GasBoostSigner.ts`, `wallets/wallets.ts`) | next nonce in the db, mutex, pending transactions | start, `sendTransaction`, `connect` | crash between broadcast and `incNonce`, lost responses, other programs with the key | no nonce twice, none skipped |
| **GasBoostTransaction** (`gasboost/GasBoostTransaction.ts`) | fees, inflight items, pollers, confirmations | send, boost, rebroadcast, wait, reorg watch | reorgs, retries, two pollers, caps | mined in the end, fees within their caps, `wait()` answered |
| **AvailableLiquidityWatcher** | credit per destination | sync of credit, pending amounts, unbonded roots | concurrent bonds read one credit | no more is bonded than there is credit |
| **Root watchers** (`BondTransferRoot`, `ConfirmRoots`, `Relay`, `SettleBondedWithdrawal`, and `Commit`, `Challenge`) | records of roots | one poll each | events of three chains in any order, some lost; other bonders, challenges, reorgs; what one query leaves to another | no orphan is bonded; a root is confirmed, set and settled in the end, and marked so only then |
| **Lookup of transfers** (`SyncWatcher.lookupTransferIds`, `theGraph/getTransferIdsForTransferRoot.ts`, `utils/getSortedTransferIds.ts`) | none | two scans of logs, a sort | roots that share blocks and transactions, indexes that repeat | the list found is the one that was committed |
| monitoring watchers, contract wrappers, `vault`, `arbBot`, the rest of `theGraph`, `cli`, config and utilities | – | reports, contract calls | – | not protocol state |
| other packages: `sdk`, `frontend`, `stats-worker`, `core`, `api`, `ipfs-worker`, ... | – | client library, UI, statistics, data | – | not part of the bonder |
| contracts, chains, RPC providers | outside the repository | – | reorgs, lost logs, lost responses | external: modelled from how the code uses them |

### How they interact

```
 source chain ──logs──▶ SyncWatcher ──▶ TransfersDb ◀── poll ── BondWithdrawalWatcher
 redundant RPCs ──────────── logs of one block ──────────────────────▶ │
                                        emergencyDryMode ◀── reorg ────┤
 three chains ──logs──▶ SyncWatchers ──▶ TransferRootsDb ◀── polls ── BondTransferRoot-,
        ▲                                                   ConfirmRoots-, Relay-, Settle-
        └──────────── bond, exit, confirm, relay, settle ◀──────────── BondedWithdrawal-
 destination chain ◀── GasBoostTransaction ◀── GasBoostSigner ◀── bondWithdrawal
        └── WithdrawalBonded, Withdrew ──▶ SyncWatcher      └─▶ GasBoostDb (nonce)
```

Watchers never call each other; they meet in the dbs. The only shared memory is
`emergencyDryMode` and the signer of a chain.

## 2. Modules

| module | what it is |
|---|---|
| `BondWithdrawal` | the fast path: the transfer half of `SyncWatcher`, the transfer records, `BondWithdrawalWatcher` |
| `GasBoostSigner` | the nonce of the wallet |
| `GasBoostTransaction` | one transaction: fees, retries, pollers, confirmation, reorg watch |
| `EventSync` | the rounds of one `SyncWatcher`: ranges of blocks, watermarks, handlers |
| `EventDelivery` | what reading events promises, abstractly; `EventSync` implements it |
| `TransferRootsDb` | `update` of a record and its four indexes, overlapping |
| `RecordStore` | what a db of records promises, abstractly; `TransferRootsDb` implements it |
| `Settlement` | the bonds of one root on their way to being settled: handlers, populate polls, `SettleBondedWithdrawalWatcher` |
| `TransferRoots` | one root on its way to its destination: `BondTransferRootWatcher`, `ConfirmRootsWatcher`, `RelayWatcher`, and what `AvailableLiquidityWatcher` marks |
| `TransferIdLookup` | how the transfers of a root are found in the events of its source chain |
| `MC...` | instances for TLC |
| `..._proofs` | theorems, checked by TLAPS |

How they fit together: `EventSync` shows which events reach a handler, and that one may
be lost; `Settlement` and `TransferRoots` take the events as sets that are handled in
any order and may lose some (`LoseSettled`, `LoseEvent`). `TransferRootsDb` shows that
the updates of a record are atomic; the other modules update records in one step.
`TransferIdLookup` shows when the list of a root's transfers is right, which `Settlement`
takes as given.
`GasBoostTransaction` shows that what was sent is mined or given up; the others have a
set of pending transactions. A name with a comment "A slip" or "Mutant of" is a variant
of the definition after it that no behaviour uses: `PROJECT.json` lists under `mutants`
the property that breaks when it takes that definition's place.

### BondWithdrawal

| state | code |
|---|---|
| `canonical`, `spent`, `pool` | external: the `TransferSent` event on the source chain (its log index), the transfer on the destination bridge, this bonder's unmined transactions |
| `synced` | the watermark has passed the event |
| `db` | a `TransfersDb` record: `transferSentIndex`, `transferSentTimestamp` (as an age), `sender`, `isBondable`, `isNotFound`, `isTransferSpent`, `withdrawalBonded`, `bondWithdrawalAttemptedAt` (as "no / waiting / elapsed"), `withdrawalBondTxError`, `withdrawalBondBackoffIndex` |
| `populating` | where `populateTransferDbItem` is for a transfer |
| `todo`, `running` | the list of the current poll, and the calls that `promiseQueueConcurrent` still waits for |
| `call` | the `checkTransferId` invocations: the step, the transfer, what was read |
| `emergencyDryMode` | the flag of that name |
| `sentBonds`, `disputed`, `reorgs`, `crashes` | history and bounds |

`checkTransferId` is cut at the awaits where the state it depends on can change:
`CheckIsTransferIdSpent`, `PassGate` / `StopAtGate` (the only look at
`emergencyDryMode`), `GetSourceTransaction` (stores `bondWithdrawalAttemptedAt`, then
checks the bonder fee), `ValidateDb`, `ValidateUniqueness`, one `AskRedundantRpc` per
provider, `SendBondWithdrawal` / `SendThrows`, and the read and the write of the
backoff index. `CallThrows` is any other failing await; `CallTimesOut` is p-queue
giving up on a call that goes on. The three steps of `populateTransferDbItem`
interleave with all of it, so that a record is visible to the poll before its sender
has been compared with the blocklist.

Abstractions: amounts, fees and credit are conditions that may or may not hold
(`Faults`); delays are "not elapsed / elapsed"; ages are "in the week / older"; a
transfer is an id with a nonce. `Faults` names everything that may go wrong, and each
run enables what its question needs. Providers in `TrustedRpcs` answer from the
canonical chain, the others answer anything of `RpcAnswers`. Records are updated
atomically.

### GasBoostSigner

| state | code |
|---|---|
| `count`, `slot` | external: mined transactions of the account; who holds each nonce |
| `item` | the `GasBoostDb` item `nonce`: value and age of `updatedAt` |
| `signer` | each `GasBoostSigner`: the step of `init` or `_sendTransaction`, the call that holds the mutex, the nonce it read |
| `status`, `nonceOf`, `boosting` | what became of each call; the `GasBoostTransaction`s of this process |

`Connect` is the additional signer `connect()` makes: same db, a mutex of its own. The
start (`ShouldSetLatestNonce`, `GetOnChainNonce`, `SetLatestNonce`) and a send
(`Lock`, `GetDbNonce`, `Send` / `SendLosesResponse` / `SendFails` / `SendTooLow`,
`IncNonce`, `SetDbNonce`) have a step per await. A nonce of zero is falsy in
`setOwnTxParams`, so the wallet fills it in (`SendNonce`). `GasBoostTransaction` is seen
from outside: it keeps broadcasting (`Boost`) until it is mined and
`reorgWaitConfirmations` deep (`EndReorgWatch`). A read error of LevelDB, which
`BaseDb.getById` takes for an empty db, is left out.

### GasBoostTransaction

| state | code |
|---|---|
| `pool`, `mined` | external: broadcasts that may be mined; the transaction of the chain with this nonce |
| `type`, `given` | the type, and the fee of `originalTxParams` |
| `gas` | `gasPrice` (type 0) or `maxPriorityFeePerGas` (type 2), zero if undefined |
| `latest`, `due` | the latest of `inflightItems`, and that `timeTilBoostMs` have passed since `sentAt` |
| `maxGasPriceReached`, `rebroadcastIndex`, `maxRebroadcastIndexReached`, `started` | the fields of those names |
| `proc` | the runs of `startPoller` and the caller of `send()`: the await each is at, and the fee and index of its request |
| `waits` | broadcasts whose `tx.wait()` or, for a caller of `wait()`, `getReceipt` is pending |
| `confirmed`, `handling`, `watching` | `confirmations` and `txHash`; `handleConfirmation` and `watchForReorg` at their awaits |
| `waiter` | a caller of `wait()`: listening (`"waiting"`, `"late"` without a poller on, `"unannounced"` after a confirmation that did not emit) or answered |
| `highest`, `retried`, `broken` | history |

The broadcasts of a transaction differ only in their fee, so the fee stands for the
hash. `SendFees` and `Boost` choose a fee, `SendTransaction` is one round of
`_sendTransaction` with every answer of a node (`Track`, `Retry`, `SendThrows`), and
`ShouldBoost`, `RebroadcastLatestTx`, `Rebroadcast`, `EndPoller` are the poll.
`WaitEnds`, `HandleConfirmation`, `WatchForReorg` and `Reset` are the way from a
receipt to a reorg and back to `send()`. Of `inflightItems` only the latest is ever
unboosted, so it stands for the list. `maxFeePerGas` is limited to the maximum
wherever it is set and is left out, like chains whose fee is not bumped (Optimism),
and storing and restoring a transaction.

### EventSync

| state | code |
|---|---|
| `head` | external: the last final block |
| `synced` | `syncState`: `latestBlockSynced` of each kind of event |
| `task` | each call of `mapEventsBatch` of a round: the await it is at, and the bounds of `getBlockValues` and of the current batch |
| `cached` | whether the round uses the watermarks (`useCacheKey`) |
| `handlers` | the handlers that were started and have not returned |
| `current`, `initialSyncCompleted` | the round `pollSync` awaits, and the field |
| `started`, `handled` | history: blocks whose event was given to a handler, and stored |

A kind is `Prior` (those whose handlers the settle events wait for), `Settle` or
`Free`. A round (`StartRound`, `StartSettle`, `EndRound`, `FailRound`) asks for them
as `syncHandler` does. A call reads the watermark and the head (`ReadState`,
`ReadHead`), reads batches backward (`Fetch`), stores the watermark (`StoreSynced`)
and only then waits for its handlers (`Await`). When a round fails, what it started
goes on, so `Rounds` may overlap. Every block has one event of each kind.

### TransferRootsDb

| state | code |
|---|---|
| `record` | the stored records, as the set of fields that have a value |
| `index` | the timestamps, hashes and bonded-at indexes, to which entries are only added |
| `incompletes` | `subDbIncompletes` |
| `call` | each `update` under way, the await it is at and what it read |
| `queue` | the mutex of `BaseDb`: the holder and who waits |
| `disturbed` | history: roots whose last update overlapped another or was cut short |

`Update` starts the inserts (`InsertItem`) and the upsert side by side, as
`Promise.all` does; `GetUpdateData` and `Put` are under the mutex, `Reread`, `Exists`
and `UpsertIncomplete` are not. A failing read is a missing record (`BaseDb.getById`).
The instance gives the patches the fields that real updates set together.

### Settlement

| state | code |
|---|---|
| `bond`, `cleared`, `withdrawn`, `settlements` | external: the destination bridge |
| `mempool` | settle transactions that are pending |
| `recent` | the root's commit is within the two weeks of `getTransferRootsFromTwoWeeks` |
| `unread` | events that will still be handled, in any order |
| `db`, `root` | the fields of the records that settling looks at |
| `stored` | `subDbMultipleWithdrawalsSettleds` |
| `checks` | calls of `checkTransferRootSettledState`: what they read, what they have still to write |
| `poll` | where `checkUnsettledTransferRootsFromDb` is |

An amount is the set of transfers it pays: two amounts are equal when the sets are.
`CheckRead`, `CheckWrite` and `CheckEnd` are separate, so that two checks of one root
and the handlers of new bonds interleave. The root's hash, the Merkle tree and the
calldata of a settlement are left out: the list of transfers is the right one. So is the
branch of `checkTransferRootSettledState` for a transfer without a record: the list is
known once every transfer was handled, and reads do not fail in this module. `PollUnsettled`
finds the root only while it is `recent`, and `TwoWeeksPass` ends that, at any time or
never.

### TransferRoots

| state | code |
|---|---|
| `route` | whether the source is an optimistic rollup (`oruChains`) and the destination one of `RelayableChains` |
| `canonical`, `age` | external: the commit; `"bondable"` is past the delay and finality, `"exitable"` past the exit time |
| `bond`, `confirmed`, `set`, `mempool` | external: L1 and the destination |
| `unread`, `lost` | events that will be, and never will be, handled |
| `db` | the record; `bonded`, `set` and `confirmTx` stand for the transaction hashes of the events |
| `populating` | where `populateTransferRootDbItem` is |
| `bonding`, `confirming`, `relaying` | the call of each watcher for the root |
| `emergencyDryMode` | the flag |

The queries are `IsUnbonded`, `IsExitable`, `IsConfirmable`, `IsRelayable`, each a
translation of its filter in `TransferRootsDb.ts`. `BondStart`, `BondCheck` and
`BondSend` (with one answer per redundant provider), `ConfirmStart`, `ConfirmCheck` and
`ConfirmSend`, and `RelayStart` with `Redeem` are cut at the awaits after
which the chains may have moved on. The exit watchers are one step (`ExitSeesConfirmed`,
`ExitSend`): what the query read may be stale, but L1 takes a root only once. That of
zkSync does not look at `emergencyDryMode`, so `ExitSend` may happen in it and is only
fair without. Those of Linea and Scroll send nothing: a root of theirs that is not bonded
is confirmed only when somebody exits it (`OtherExits`, which is not fair), so
`RootIsConfirmed` is about the other rollups.
`CallThrows` is too little credit, dry mode or any await that fails. The delay between
two attempts (`sentBondTxAt`, `sentConfirmTxAt`, `sentRelayTxAt`) is that of the next
poll; what `validateUniqueness` compares is the fault `"conflict"`. Left out:
`rootSetTimestamp`, the two weeks after which a root leaves the queries, and the branch
of `RelayWatcher` without any transaction hash, which `bondedAt ?? confirmedAt` in the
query keeps from being reached.

### TransferIdLookup

| state | code |
|---|---|
| `log` | external: the `TransferSent` and `TransfersCommitted` events of the L2 bridge, with block and transaction |
| `pending` | external: `pendingTransferIdsForChainId` of the contract, of each destination |

The bridge numbers what it is sent from zero until it commits; a send that finds
`MaxPendingTransfers` waiting commits them first. A call may share its block or its
transaction with the one before (`Places`). The rest are the pure algorithms:
`BatchesDownTo` is the set of blocks that `eventsBatch` reads between two blocks when
`IsBatchInput` lets it, `PriorCommits` the first scan of `lookupTransferIds`,
`TransfersBetween` the second with its filter by transaction, `GetSortedTransferIds` the sort with its replacements, and
`GetTransferIdsForTransferRoot` the way of theGraph, by blocks alone and with the
transfers of a block in any order. Their reference is what the bridge committed
(`log[e].ids`), to which the code has no access but through the hash: a list that
differs is "computed transfer root hash doesn't match" (`SyncWatcher.ts:1332`), and the
root is marked `isNotFound`. The first look into the db (`checkTransferRootFromDb`),
which finds only what an earlier lookup stored, is left out.

The two gasboost modules are not composed: `GasBoostSigner` uses a transaction through
`Boost` and `EndReorgWatch`, `GasBoostTransaction` takes its nonce as given, and a
nonce that another program takes is `"foreign"`.

## 3. Runs

| run | instance | shows |
|---|---|---|
| `bond_reorg` | two transfers with one nonce, one reorg, two calls that may outlive their poll, one restart, one trusted provider | `ConflictingTransfersNotBothBonded`, `PollStartsATransferOnce`, `OrphanIsNeverBonded` |
| `bond_faults` | one blocklisted transfer, every fault, every answer of an untrusted provider, one restart | `TypeOK`, `NoFalseAlarm` (emergency mode has a cause) |
| `bond_live` | one transfer, every error that is tried again | `TransferIsSpentOrGivenUp` |
| `signer_crash` | three sends, two crashes, failed starts and sends, lost responses, a db behind the account, a foreign transaction, a deep reorg | `TypeOK`, `SentIsNeverDisplaced`, `NoNonceGap` |
| `signer_live` | two sends, two signers on one db, which is empty or behind at first, a failing start, two evictions, a reorg within the wait | `MutexIsReleased`, `SentIsMined` |
| `boost_faults` | either type, every fault, a market below and above the maximum, one poller, two attempts, two rebroadcasts | `TypeOK`, `UnretriedFeeWithinMax`, `WaitIsAnswered` |
| `boost_reorg` | either type, one reorg, two pollers, every fault but lost responses and dropped broadcasts (a reorg may drop one) | `InflightIsPolled`, `WaitIsAnswered` |
| `sync_rounds` | two kinds, one settling, overlapping rounds, a lagging provider, requests and handlers that fail, a restart | `TypeOK`, `SyncedIsStarted`, `SettleFollowsPrior`, `EventIsStarted`, and `Implements` (`EventDelivery`) |
| `db` | two updates at a time of one record with every patch of the code, a read or a write that fails, a restart | `TypeOK`, `LoneUpdateFixesIndex`, `IndexedIsStored`, `UpdateReturns`, and `Implements` (`RecordStore`) |
| `settle` | two transfers, two bonders, a withdrawal, one failure of any kind, or the end of the two weeks | `TypeOK`, `MarkedIsCleared`, `AllSettledIsSpent`, `BondIsCleared`, `RootIsFinished` |
| `roots` | one root on an optimistic, relayable route or on neither, every answer of an untrusted provider, other bonders, challenges, a reorg, restarts, one lost event | `TypeOK`, `OrphanIsNeverBonded`, `WrapperConfirmsStanding`, `HiddenIsOnL1` (what a mark hides was bonded or confirmed), `RootIsConfirmed`, `RootIsSet`, `ConfirmedIsKnown` |
| `lookup` | seven events of two destinations in any blocks and transactions, roots of up to three transfers, batches of two blocks | `LookupIsExact`, `GraphLookupIsExact` |

**Bounds.** Two transfers and two calls are the least with which a nonce conflict and
an interleaving of calls exist; the properties of the run speak of pairs. One reorg
gives one nonce to another transfer, and the rest of a behaviour may take any number
of polls, retries and syncs, which are not bounded. `MaxReorgCheckBackoffIndex` is the
code's 2 in the runs whose question depends on it, and 0 where only the existence of
the two verdicts does. `MaxBackoffIndex` stands for the last index whose delay is
within a week (the code counts on without a limit; indexes above it are one value: they
all mean "given up").
`MaxDisputed` bounds a history variable. Three sends with two crashes let a nonce be
read, lost and read again with a transaction on either side; `MaxNonce` leaves room
for every send and the foreign transactions. A multiplier of 5/4 with a maximum of 13
makes every case of a boost happen: a bid below the maximum, one above it, one clamped
to it, and one clamped so little above the last fee that nodes refuse it. `MaxFee`
bounds what a node takes, not what is bid. Two attempts and one more rebroadcast than
none reach the end of both loops. The pollers of a model are a finite set and those of
the code are not; one more than reorgs are enough (`PollersSuffice`, section 5), so
`boost_reorg` has two and `boost_faults`, without a reorg, one.

Two overlapping rounds are what `FailRound` can produce at once, and a third adds only
more of the same handlers; one block per batch with three blocks gives a traversal of
several batches, a partial last one, and a head that moves under it. One record and
two calls are the least with an overlap, and records do not interact. Two transfers
with two bonders have every sum of settlements, complete and incomplete; a bonder may
bond after it settled. `MaxChecks` is the two checks that the handlers of two events
start. `MaxFaults = 1` in `settle` and `MaxLost = 1` in `roots` ask what one failure can
do; crashes, conflicts and missing transactions are not bounded in `roots`. There, one
index on either side of each limit (`MaxReorgCheckBackoffIndex = MaxBackoffIndex = 0`)
gives both verdicts and the end of the retries, and the two routes have all that the
queries distinguish (a route mixes them, watcher by watcher).
Seven events hold three roots of one destination, or two with events of another between
them, and a root that is full with another after it; `LateIndex = 1` stands for the 100 of
`getSortedTransferIds.ts:43`, so that indexes on either side of it repeat; a batch of two
blocks gives several batches and a partial one; the two orders of ids in `lookup` put the
transfers of a block as they were sent and the other way round.
`ShouldExitOrus = FALSE` is the default, and the case in which one query leaves a root
to the other. `Unbondable = {}` in `settle`, and the theorems hold with any. The
theorems of section 5 hold without these bounds. Symmetry is used in safety runs only.

**Fairness.** `bond_live`: the poll and sync loops run for ever (`BaseWatcher.start`,
`SyncWatcher.start`), an await returns or throws, delays elapse, and a sent
transaction is mined (gasboost). Strong fairness is asked of the *good* outcome of
awaits that are tried again and again: a provider that is asked infinitely often
answers well infinitely often. No fairness is put on reorgs, faults, other bonders or
crashes. `boost_faults` and `boost_reorg`: awaits end, time passes and the pollers run;
nothing is asked of the chain, which may never mine. `signer_live`: awaits end, the chain
mines what is next, and a poller rebroadcasts; a poller gives up after ten rounds (`maxRebroadcastIndex`), more than the evictions of
the instance need. A reorg deeper than `reorgWaitConfirmations` is beyond what the
code waits for and is excluded from `signer_live` (`DeepReorgs = FALSE`), not from the
safety run.

`sync_rounds`: the event loop goes on and requests are answered; faults and crashes are
finite in number, and nothing is asked of the chain. `db`: every call goes on and the
mutex is first come, first served (`async-mutex`). `settle`: events that are not lost are
handled, polls go on, a pending transaction is mined; nobody has to bond or withdraw.
`roots`: weak fairness of polls, time, mining, of the native bridges of destinations that
need no redeeming, and of the handlers; strong fairness of the steps that may throw and
are tried again at every poll (`PopulateStep`, the exit, the checks and sends of
`ConfirmRootsWatcher`, `Redeem`). Nothing makes anybody else bond, challenge, confirm or
redeem, and none of the bonding is fair: a root must get there without its bond.

`CHECK_DEADLOCK FALSE` is set for the signer, which stops when every call returned, and
for a transaction, which stops when it is mined or given up, in `settle` and `roots`,
where nothing is left to do for a finished root, and in `lookup`, whose log is bounded.

## 4. Where the code is weaker than it looks

What modelling showed the code does not do. The properties of section 3 are stated so
that they hold beside these, and name them as exceptions.

*The fast path*

- "possible reorg detected. turning off writes." (`BondWithdrawalWatcher.ts:300`):
  `emergencyDryMode` is read at line 188 and never after the awaits that follow; a
  call that is past it still sends.
- A transfer of a blocklisted sender "is unbondable" (`SyncWatcher.ts:828`) only once
  its sender has been populated; the poll may be faster.
- Additional signers are to be prevented "from overriding db nonce"
  (`GasBoostSigner.ts:82`); the comparison at line 95 keeps the nonce only when it was
  updated *more* than five minutes ago.
- `maxGasPriceGwei` and `priorityFeePerGasCap` are "the max we'll keep bumping" fees to
  (`GasBoostTransaction.ts:96` and `101`), but a retry bumps by
  `gasPriceMultiplier * i` and clamps nothing (line 743). No fault is needed: a boost
  clamped to less than a tenth above the last fee is underpriced, and its retry bids
  more than twice the last fee. `UnretriedFeeWithinMax` shows that nothing else does,
  but for a boost of type 2 that a reset overtakes (section 5).
- `handleConfirmation` sets `confirmations` (line 604) and then asks for the transaction
  (line 607). If that fails, `State.Confirmed` is never emitted and no later receipt does
  it: who waits hangs, unless a boost under way fails (`"unannounced"`), and
  `watchForReorg` is not started.
- `wait()` only listens. After the poller broke (line 645) or gave up (line 636), or when
  the broadcast after a reset fails, nobody emits an error any more: who calls then, and
  the transaction is not mined, waits for ever (`"late"`). A transaction that was given
  up, mined all the same and then reorged out has no poller either, for `reset` keeps
  `maxRebroadcastIndexReached`.

*Events*

- The watermark of a kind is stored (`Bridge.ts:604`) before the handlers are awaited
  (line 548), and some handlers catch their errors (`SyncWatcher.ts:490`): an event whose
  handler failed, or that was cut off by a restart, is not read again, although the
  comment at `Bridge.ts:599` counts on a failed sync being started over. Hence
  `SyncedIsStarted` and not "is handled".
- `isNotFound` is for good. An event of L1 or of the destination that is handled before
  the `TransferSent` or `TransfersCommitted` it belongs to makes the next populate poll
  mark the item, and no later event takes that back (`Settlement.IsOverlooked`, the
  exception `db.notFound` of `RootIsSet`).

*The list of a root*

- `eventsBatch` refuses "an end block that is before a start block" (`Bridge.ts:694`), and
  means one that is the same as well. The lookup of a root whose commit is in the block of
  the commit before for its destination (a send that finds the bridge full commits by
  itself) throws at its second search, and so does that of a commit in the block the bridge
  was deployed in, at its first. It throws at every poll: the root is not marked, but its
  transfers are known only if somebody settles in it (`HasSearchableBlock`). theGraph finds
  them when the two roots can be told apart.
- Some overlaps of roots cannot be told apart by block and transaction, and the root is
  marked `isNotFound` (theGraph throws): a transfer of the root before that was sent in
  the transaction (theGraph: the block) of the commit before, unless this root has a
  transfer with its index, which is not zero, and began in a later block; a transfer sent
  in the transaction of the commit, after it, unless this root has one with its index, not
  beyond 100 (`CanBeToldApart`; theGraph: in the block, and then this root's must be in an
  earlier one, `IsSentLater`).
- "no end event found" (`SyncWatcher.ts:1321`) is never reached: without an end event there
  are no transfer ids either, and line 1316 throws first.

*Roots*

- A relayable root that somebody else bonded before the event of that bond was handled is
  marked `isNotFound` (`BondTransferRootWatcher.ts:131`, and however new it is,
  `AvailableLiquidityWatcher.ts:159`), and `RelayWatcher` passes over
  it: the root is set only if somebody else redeems the message.
- "already set. marking item not found" (`RelayWatcher.ts:314`) never happens: line 312
  asks `this.bridge`, and the routes that the query returns (`BaseWatcher.ts:231`) make that
  the bridge of the source chain, on which the root is never set. A root that is set, but
  whose event is not handled yet, is redeemed again at every poll, which throws.
- A challenge whose event is lost leaves a root of a rollup without confirmation: the db
  leaves it to the wrapper (`TransferRootsDb.ts:560`), whose validation refuses it.
- With the event of the bond lost, `RelayWatcher` redeems the transaction of the
  confirmation (`RelayWatcher.ts:299`), which carries no message.
- `getUnsettledTransferRoots` takes only the roots committed within the last two weeks
  (`TransferRootsDb.ts:728`, through line 449), while a transfer may be bonded or withdrawn
  later. A bond made, or a settle call to be tried again, after that is never settled by
  the node, and the root is not marked `allSettled` (`WindowIsOver`).
- A bond handled after its bonder settled in the root, together with a late settle event,
  is marked settled and is never settled (`SyncWatcher.ts:710`; `Late`).
- `ChallengeWatcher` finds no root: its query asks for a bonded root that is not
  committed but has a source chain, and the two are written together
  (`SyncWatcher.ts:618`).
- There is no exit watcher for Base.

`NoFalseAlarm` has to name two causes of emergency mode that are no reorg: a transfer
that turned a week old between the poll and `validateUniqueness`, which looks at one
week (`BondWithdrawalWatcher.ts:432`), and a provider that lacked the event once after
low-fee attempts had used up the backoff index the two share
(`BondWithdrawalWatcher.ts:268`, `BaseWatcher.ts:460`). `SentIsMined` has to ask that the
signer is alone on its db and that no send leaves the nonce to the wallet, which happens
when the db is empty and the first start failed: two sends may then get one nonce.
`WaitIsAnswered` has to except who is left by a confirmation without its transaction, and
is not about those who call when no poller is on (see *The fast path*).

## 5. What is proved

For every value of the constants that satisfies the assumptions the modules name.

`BondWithdrawal_proofs`

- `TypeCorrect`: `Spec => []TypeOK`.
- `ConflictingNotBothBonded`: `ConflictingTransfersNotBothBonded` alone is not
  inductive: nothing in it says what a call that has passed `validateUniqueness`, but
  has not sent, found in the db. `ConflictInv` adds that whatever the poll took up has
  a timestamp (`PursuedHasTimestamp`, so that it counts in the week) and that of two
  conflicting transfers only one has *been validated* (sent, or past the validation)
  until one is old. Timestamps are never removed and ages only grow, so a validated
  transfer is seen by every later validation. The proof shows for each action that it
  is quiet (pursues and validates nothing new, keeps the ages), and treats `Poll`,
  `AgeOut`, `PopulateTimestamp` and `ValidateUniqueness` on their own.
- `PollStartsOnce`: needs that what the poll awaits is under way (`PollInv`), or a
  freed call could be taken for one that is awaited.
- `OrphanNeverBonded`: assumes `TrustedRpcs # {}`; without a trusted provider a wrong
  answer can let the bond through, which is what providers are for. `IndexInv` is
  needed because a provider that lacks an event would "match" a record without an
  index.
- `AlarmIsNotFalse`: assumes `MaxDisputed > 0`, so that the history variable counts at
  all. `AlarmInv` says that until a reorg the records and what calls have read agree with
  the chain (`AgreesWithChain`), which gives a nonce to one transfer (`NonceIsUnique`), and
  that a record within the week has an event (`CountedHasIndex`): so `ValidateDb` cannot
  fail, and `ValidateUniqueness` only when the transfer is not in the week any more; that
  it was is `ConflictInv`.

`GasBoostSigner_proofs`

- `TypeCorrect`: `Spec => []TypeOK`.
- `SentNeverDisplaced` and `NoGap`, from `SingleSigner`: no additional signer, a node
  that drops nothing, an account with a transaction before the first start, a db that
  is not ahead of it, and a first start that reaches its provider. Each is necessary:
  two signers share nonces, a dropped transaction frees its nonce
  while the db has passed it, and nonce zero is falsy. `NonceInv` says that every
  nonce below the db's next one is taken (`AccountInv`), that what was returned is
  among those (`SentInv`), and that the nonce a send works with is still the db's
  next one (`MainInv`): the mutex is why, and it is where a crash between
  the broadcast and `incNonce` matters: the slot is taken although the db has not
  moved, and the transaction displaced later was never returned to its caller.
- `SentInNonceOrder`: from the same invariant, as an action property. The db's nonce
  never goes back, not by a start that asks the account either, and a transaction is
  returned with a nonce above those of all that were returned before it.

`GasBoostTransaction_proofs`

- `TypeCorrect`: `Spec => []TypeOK`.
- `InflightPolled`: `PolledInv` says that whoever set `started` has a poller at work
  until the transaction is confirmed, given up or ended by a fatal error, and that
  nothing is in flight without `started`. A reset clears both, so the next `track`
  starts a poller even if the old one has not noticed.
- `UnretriedWithinMax`: `FeeInv` adds to the property that every request under way was
  compared with the maximum (`BidInv`), that the transaction of the chain and the
  confirmed one were paid for by a fee that was (`ChainInv`, which is why
  `handleConfirmation` may take its fee over), and that there is a last fee to compare
  with whenever a boost asks for one (`GasInv`). The last one is where a reorg matters:
  `reset` clears the fee while a poller may be on its way to a boost, and a boost of
  type 2 without a last fee is not clamped.
- `OnePollerPerReorg`: `reset` may leave a poller behind and start another, but at most
  one per reorg. The inductive form (`PollersInv`) counts, with the pollers at work, the
  one that `track` may still start (`Unstarted`) and the reset that a reorg has yet to
  cause (`Dropped`, a confirmed transaction that is not on the chain any more).
- `PollersSuffice`: assumes `Cardinality(Pollers) > MaxReorgs`, as in both runs. Whenever
  nothing is started some poller is off, so the model's finite set of pollers keeps
  nothing from happening that the code could do.

`EventSync_proofs`

- `TypeCorrect`, `NothingIsSkipped` (`SyncedIsStarted`) and `Refinement`
  (`Spec => Implements`, for any number of kinds, rounds and blocks). `SyncInv` adds to
  the property that whatever a call is about to store is a good watermark: a call that
  fetches has everything above its batch started (`end + 1 .. latest`) and will end at a
  block below which everything was (`GoodTask`). `CustomStart` matters: a round without
  watermarks begins there and so must not store one.
- `SettleWaitsForPrior` (`SettleFollowsPrior`): `OrderInv` says that a call has handlers
  only between its first batch and the end of its `await` (`HandlersInv`), that the
  settle kinds of a round start together (`SettleTogether`) and only when the others have
  resolved (`SettleWaits`). A call that failed may leave handlers behind, and the round
  variable is not used again before they end. Its second half, that without failures all
  that was read of the other kinds is in the db by then, is `CalmInv`: no call has
  failed, no round but the current one has anything under way, and what was started and
  not handled has its handler.
- `NothingIsLost`: from the same two invariants, what the comment at `Bridge.ts:599`
  counts on, as far as it is true: without a failure or a restart every event below a
  watermark is in the db or its handler is at work. With one it is false (section 4).
- `MarksAdvance`: `AboveInv` says that a call of the current round has read the watermark
  that is still stored, and stores one that is not below it. Rounds that overlap do
  store older watermarks after newer ones, which `SyncedIsStarted` survives.

`TransferRootsDb_proofs`

- `TypeCorrect` and `Refinement`: `HolderInv` says that who is about to put is the head
  of the queue and that what it read is still what is stored, unless its read failed.
- `LoneUpdate_FixesIndex`: `LoneInv` says what a call that overlaps no other knows at
  each of its steps.
- `FieldsStay`: `RecordStore` allows a record to lose fields to an update that could not
  read it. `SeesInv` says that without such a read no update is blind; with `MutexInv`
  (what is about to be merged is what is stored) no step removes a field.
- `Indexed_IsStored`: `EntriesInv` counts what is stored *or about to be* against what is
  indexed or about to be; `NoFault` is its premise, for an insert that is cut off is never
  repeated.

`Settlement_proofs`

- `TypeCorrect`, `MarkedIsClearedHolds` and `AllSettledIsSpentHolds`. `SettleInv` has
  five parts: settlements and bonds of the chain agree (`ChainInv`), what the db knows
  happened (`DbInv`), what a check is about to write is still right although bonds are
  added beside it (`CheckInv`; that is where `Late` is needed), what the poll has seen
  (`PollInv`), and the mark of the root (`RootInv`).
- `OnlyBondersSettle`: the bonders that the poll collects from the db have a bond in the
  root, and so has whoever a transaction is pending for (`CallsInv`); bonds are not
  undone.

`TransferRoots_proofs`

- `TypeCorrect`: with `CallInv`, which bounds the backoff index: the one call that may be
  under way was started below the limit.
- `OrphanNeverBonded`: assumes `TrustedRpcs # {}`. A reorg needs a new commit, a bond one
  that is not new, and in between a trusted provider has the commit or not (`OrphanInv`).
  The delay alone does not suffice, for the db keeps the orphan until it is old enough.
- `WrapperStanding`: the period of a bond that nobody challenged is over, and from then on
  nobody can (`WrapperInv`); what the db says of it is not needed.
- `HiddenOnL1` (`HiddenIsOnL1`): marks are set by the populate poll, by
  `BondTransferRootWatcher` and by the sync of the credit, on what the db says.
  `EventsInv`: what the db knows of L1, or is still to be told, happened there.
  `PopulatingInv`: the populate poll is at a field for which it has what it looks with.
  `HiddenInv`: a root that was hidden without being on L1 never gets its transfers, for the
  poll that looked for them in vain is over and none takes up a hidden root.

`TransferIdLookup_proofs`

- `LookupExact` and `GraphLookupExact`. `LogInv` says what the bridge's log
  is: places never go back, the list of a commit (and what is pending) has the transfers
  sent since the commit before, numbered from zero, and every transfer of a destination
  that is before a commit and not in its list is before the commit before; also that every
  set of commits has a latest one (`HasLatest`), for which there is no induction to hand.
  `SearchIsSorted` is about the sort alone: of items that include the root's and others
  that can be told apart, the list has the root's at each index. What is left is that the
  searches return such items, for which the batches must cover the blocks
  (`BatchesCover`), and that the search for a commit with a block of its own does not
  throw (`SearchIsTaken`).

Only model-checked: everything with `~>` or `<>` (`TransferIsSpentOrGivenUp`,
`SentIsMined`, `MutexIsReleased`, `WaitIsAnswered`, `EventIsStarted`, `UpdateReturns`,
`BondIsCleared`, `RootIsFinished`, `RootIsConfirmed`, `RootIsSet`, `ConfirmedIsKnown`),
which is out of the prover's reach (TLAPS has neither fairness nor `ENABLED`). Every
invariant and action property of the runs has a theorem. `OnePollerPerReorg`,
`PollersSuffice`, `NothingIsLost`, `MarksAdvance`, `FieldsStay`, `SentInNonceOrder` and
`OnlyBondersSettle` state more than any run checks.

## 6. Not modelled, and the plan

In order of what matters most:

1. `AvailableLiquidity`: the credit that concurrent calls compare with
   (`BondWithdrawalWatcher.ts:173`, `AvailableLiquidityWatcher.ts:76`); amounts are
   conditions now.
2. The transfers of `RelayWatcher` (L1 to L2), whose query takes a log index of zero for
   a missing one (`TransfersDb.ts:505`), and `CommitTransfersWatcher`, whose
   `commitTxSentAt` is only in memory.
3. `WithdrawalBondSettled`: the event of a call for one transfer, which the node itself
   never makes.

Parts of modelled files that stay out: the batch queue of `BaseDb`, which has no caller;
range reads and reports of the dbs; storing and restoring a `GasBoostTransaction`, which
nothing calls at start; the poll loop of `BaseWatcher`.

Not planned: packages other than `hop-node` (clients and reports, no protocol state;
they are most of the lines of the repository), `cli`, `vault`, `arbBot`, the rest of `theGraph`
(calls of external systems), notifications, metrics and configuration.
