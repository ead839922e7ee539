--------------------------- MODULE TransferRoots ---------------------------
(***************************************************************************)
(* The life of one transfer root after it was committed.                   *)
(*                                                                         *)
(* A root committed on its source chain is bonded on L1 (by this bonder or *)
(* another one), confirmed on L1 by the native bridge of its source chain  *)
(* or, once its bond stood unchallenged for the challenge period, by the   *)
(* messenger wrapper, and set on its destination by the message that the   *)
(* bond, or else the confirmation, sends.  Three watchers poll the db and  *)
(* send what is missing: BondTransferRootWatcher, ConfirmRootsWatcher and  *)
(* RelayWatcher.  The SyncWatchers of three chains write what the events   *)
(* say, in any order, and fill in what the events do not say.              *)
(*                                                                         *)
(* Time is the set of deadlines that have passed.  All of it happens in    *)
(* the two weeks the polls look at; the delay between two attempts is that *)
(* of the next poll.  Records are updated atomically (TransferRootsDb).    *)
(***************************************************************************)
EXTENDS Naturals, FiniteSets

CONSTANTS
  RedundantRpcs,   \* providers that are asked for the commit event
  TrustedRpcs,     \* those that answer from the canonical chain
  RpcAnswers,      \* what the others may answer, see AllAnswers
  MaxReorgCheckBackoffIndex,
  MaxBackoffIndex, \* the last index whose delay is within two weeks
  ShouldExitOrus,  \* shouldExitOrus of the configuration
  Routes,          \* source and destination of the root, see AllRoutes
  Faults,          \* what may go wrong, see AllFaults
  MaxLost          \* bound on the events that are never handled

AllAnswers == {"down", "behind", "missing", "match", "mismatch"}

\* "conflict": the db has a second root with one of the transfers; "transaction": a provider
\* does not find a transaction; "lost": an event is not handled; "crash": the process ends
\* and is started again.
AllFaults == {"conflict", "transaction", "lost", "crash"}

AllRoutes == [oru : BOOLEAN, relayable : BOOLEAN]

ASSUME RpcAssumption == TrustedRpcs \subseteq RedundantRpcs /\ RpcAnswers \subseteq AllAnswers
ASSUME BoundsAssumption ==
  /\ MaxReorgCheckBackoffIndex \in Nat /\ MaxBackoffIndex \in Nat /\ MaxLost \in Nat
  /\ ShouldExitOrus \in BOOLEAN /\ Routes \subseteq AllRoutes /\ Faults \subseteq AllFaults

VARIABLES
  route,      \* whether the source is an optimistic rollup, the destination relayable
  canonical,  \* source chain: the commit is on the canonical chain
  age,        \* source chain: what the age of the commit allows
  bond,       \* L1: who bonded the root, if it was challenged, if the period is over
  confirmed,  \* L1: the root is confirmed
  set,        \* destination chain: the root is set
  mempool,    \* this bonder's transactions that are pending
  unread,     \* the events that are still to be handled
  lost,       \* the events that never will be
  db,         \* the item of the root
  populating, \* the step of populateTransferRootDbItem
  bonding, confirming, relaying,  \* the calls of the watchers for the root
  emergencyDryMode

chain == <<route, canonical, age, bond, confirmed, set, mempool>>
calls == <<bonding, confirming, relaying>>
vars == <<chain, unread, lost, db, populating, calls, emergencyDryMode>>

Events == {"committed", "bonded", "confirmed", "challenged", "set"}
Ages == {"new", "bondable", "exitable"}

\* bonded, set and confirmTx stand for the transaction hashes of the events; gaveUp: the
\* backoff index is beyond two weeks.
Item == [committed : BOOLEAN, bonded : BOOLEAN, bondedAt : BOOLEAN, confirmed : BOOLEAN,
         confirmTx : BOOLEAN, confirmedAt : BOOLEAN, challenged : BOOLEAN, set : BOOLEAN,
         ids : BOOLEAN, notFound : BOOLEAN, backoff : 0..(MaxBackoffIndex + 1)]

TypeOK ==
  /\ route \in Routes
  /\ canonical \in BOOLEAN /\ age \in Ages
  /\ bond \in [by : {"none", "self", "other"}, challenged : BOOLEAN, over : BOOLEAN]
  /\ confirmed \in BOOLEAN /\ set \in BOOLEAN
  /\ mempool \subseteq {"bond", "exit", "wrapper"}
  /\ unread \subseteq Events /\ lost \subseteq Events
  /\ db \in Item
  /\ populating \in {"idle", "hide", "bondedAt", "confirmedAt", "ids"}
  /\ bonding \in [step : {"idle", "ask", "send"}, ids : BOOLEAN]
  /\ confirming \in {"idle", "ask", "send"}
  /\ relaying \in {"idle", "bond", "confirm"}
  /\ emergencyDryMode \in BOOLEAN

Init ==
  /\ route \in Routes
  /\ canonical = TRUE /\ age = "new"
  /\ bond = [by |-> "none", challenged |-> FALSE, over |-> FALSE]
  /\ confirmed = FALSE /\ set = FALSE /\ mempool = {}
  /\ unread = {"committed"} /\ lost = {}
  /\ db = [committed |-> FALSE, bonded |-> FALSE, bondedAt |-> FALSE, confirmed |-> FALSE,
           confirmTx |-> FALSE, confirmedAt |-> FALSE, challenged |-> FALSE, set |-> FALSE,
           ids |-> FALSE, notFound |-> FALSE, backoff |-> 0]
  /\ populating = "idle"
  /\ bonding = [step |-> "idle", ids |-> FALSE]
  /\ confirming = "idle" /\ relaying = "idle"
  /\ emergencyDryMode = FALSE

-----------------------------------------------------------------------------
(* The chains. *)

\* The commit becomes old enough to be bonded, which is later than final, then to leave the
\* source chain.
PassTime ==
  /\ age # "exitable"
  /\ age' = IF age = "new" THEN "bondable" ELSE "exitable"
  /\ UNCHANGED <<route, canonical, bond, confirmed, set, mempool, unread, lost, db,
                 populating, calls, emergencyDryMode>>

\* A commit that may not be final is reorged away.
Reorg ==
  /\ canonical /\ age = "new"
  /\ canonical' = FALSE /\ unread' = unread \ {"committed"}
  /\ UNCHANGED <<route, age, bond, confirmed, set, mempool, lost, db, populating, calls,
                 emergencyDryMode>>

\* A day from the bond; a commit is final long before.
PassChallengePeriod ==
  /\ bond.by # "none" /\ ~bond.over /\ age # "new"
  /\ bond' = [bond EXCEPT !.over = TRUE]
  /\ UNCHANGED <<route, canonical, age, confirmed, set, mempool, unread, lost, db,
                 populating, calls, emergencyDryMode>>

\* bondTransferRoot takes a root once, before it is confirmed.
BondIsTaken(by) ==
  /\ bond' = [bond EXCEPT !.by = by]
  /\ unread' = unread \cup {"bonded"}

OtherBonds ==
  /\ bond.by = "none" /\ ~confirmed
  /\ BondIsTaken("other")
  /\ UNCHANGED <<route, canonical, age, confirmed, set, mempool, lost, db, populating,
                 calls, emergencyDryMode>>

Challenge ==
  /\ bond.by # "none" /\ ~bond.challenged /\ ~bond.over /\ ~confirmed
  /\ bond' = [bond EXCEPT !.challenged = TRUE]
  /\ unread' = unread \cup {"challenged"}
  /\ UNCHANGED <<route, canonical, age, confirmed, set, mempool, lost, db, populating,
                 calls, emergencyDryMode>>

IsConfirmed ==
  /\ confirmed' = TRUE
  /\ unread' = unread \cup {"confirmed"}

\* Whoever sends the proof to the native bridge.
OtherExits ==
  /\ canonical /\ age = "exitable" /\ ~confirmed
  /\ IsConfirmed
  /\ UNCHANGED <<route, canonical, age, bond, set, mempool, lost, db, populating, calls,
                 emergencyDryMode>>

\* getTransferBond of a root that confirmRoots of the wrapper accepts.
BondStands == bond.by # "none" /\ ~bond.challenged /\ bond.over

\* L1 takes the transaction; otherwise it came too late and reverts.
Succeeds(tx) ==
  /\ ~confirmed
  /\ tx = "bond" => bond.by = "none"
  /\ tx = "wrapper" => BondStands

\* A pending transaction is mined.
Mine(tx) ==
  /\ tx \in mempool
  /\ mempool' = mempool \ {tx}
  /\ \/ Succeeds(tx) /\ tx = "bond" /\ BondIsTaken("self") /\ UNCHANGED confirmed
     \/ Succeeds(tx) /\ tx # "bond" /\ IsConfirmed /\ UNCHANGED bond
     \/ ~Succeeds(tx) /\ UNCHANGED <<bond, confirmed, unread>>
  /\ UNCHANGED <<route, canonical, age, set, lost, db, populating, calls,
                 emergencyDryMode>>

\* The L1 transaction that sent the root to its destination.
Carrier == IF bond.by # "none" THEN "bond" ELSE IF confirmed THEN "confirm" ELSE "none"

RootSet == set' = TRUE /\ unread' = unread \cup {"set"}

\* The native bridge of the destination delivers the root; on a relayable destination
\* someone has to redeem it.
Deliver ==
  /\ Carrier # "none" /\ ~set
  /\ RootSet
  /\ UNCHANGED <<route, canonical, age, bond, confirmed, mempool, lost, db, populating,
                 calls, emergencyDryMode>>

-----------------------------------------------------------------------------
(* SyncWatcher. *)

\* What the handler of an event writes.
Handled(e) ==
  CASE e = "committed"  -> [db EXCEPT !.committed = TRUE]
    [] e = "bonded"     -> [db EXCEPT !.bonded = TRUE]
    [] e = "confirmed"  -> [db EXCEPT !.confirmed = TRUE, !.confirmTx = TRUE]
    [] e = "challenged" -> [db EXCEPT !.challenged = TRUE]
    [] e = "set"        -> [db EXCEPT !.set = TRUE]

Handle(e) ==
  /\ e \in unread
  /\ unread' = unread \ {e}
  /\ db' = Handled(e)
  /\ UNCHANGED <<chain, lost, populating, calls, emergencyDryMode>>

\* The handler fails after the watermark of its event was stored.
LoseEvent(e) ==
  /\ "lost" \in Faults /\ Cardinality(lost) < MaxLost
  /\ e \in unread
  /\ unread' = unread \ {e} /\ lost' = lost \cup {e}
  /\ UNCHANGED <<chain, db, populating, calls, emergencyDryMode>>

\* What populateTransferRootDbItem still looks for, in its order; what it has or cannot
\* look for yet it passes over.
Missing(item) ==
  {f \in {"bondedAt", "confirmedAt", "ids"} :
     CASE f = "bondedAt" -> item.bonded /\ ~item.bondedAt
       [] f = "confirmedAt" -> item.confirmTx /\ ~item.confirmedAt
       [] f = "ids" -> ~item.ids}
Order == [bondedAt |-> {}, confirmedAt |-> {"bondedAt"}, ids |-> {"bondedAt", "confirmedAt"}]
NextOf(fields) ==
  IF fields = {} THEN "idle" ELSE CHOOSE f \in fields : Order[f] \cap fields = {}

\* isItemIncomplete of a root that some event told of.
IsItemIncomplete ==
  /\ ~db.notFound
  /\ db.committed \/ db.bonded \/ db.confirmed \/ db.challenged \/ db.set
  /\ ~db.committed \/ Missing(db) # {}

\* The poll of any chain takes up a root whose source chain is not known.
PopulateTransferRootDbItem ==
  /\ populating = "idle" /\ IsItemIncomplete
  /\ populating' = IF db.committed THEN NextOf(Missing(db)) ELSE "hide"
  /\ UNCHANGED <<chain, unread, lost, db, calls, emergencyDryMode>>

\* The fields after the one the poll is at.
Rest(item) == {f \in Missing(item) : populating \in Order[f]}

PopulateStep ==
  /\ populating # "idle"
  /\ db' = [db EXCEPT ![IF populating = "hide" THEN "notFound" ELSE populating] = TRUE]
  /\ populating' = NextOf(Rest(db'))
  /\ UNCHANGED <<chain, unread, lost, calls, emergencyDryMode>>

\* A slip: no return after the mark, so that the field is written as well.
MarkedAndPopulated ==
  /\ "transaction" \in Faults
  /\ populating \in {"bondedAt", "confirmedAt", "ids"}
  /\ db' = [db EXCEPT !.notFound = TRUE, ![populating] = TRUE]
  /\ populating' = NextOf(Rest(db'))
  /\ UNCHANGED <<chain, unread, lost, calls, emergencyDryMode>>

\* The provider does not know the transaction, its block, or the transfers of the root.
TransactionNotFound ==
  /\ "transaction" \in Faults
  /\ populating \in {"bondedAt", "confirmedAt", "ids"}
  /\ db' = [db EXCEPT !.notFound = TRUE]
  /\ populating' = NextOf(Rest(db))
  /\ UNCHANGED <<chain, unread, lost, calls, emergencyDryMode>>

-----------------------------------------------------------------------------
(* BondTransferRootWatcher.  One call at a time: the poll waits for it. *)

IdleCall == [step |-> "idle", ids |-> FALSE]

UnlessBonding == UNCHANGED <<chain, unread, lost, populating, confirming, relaying>>

\* A slip: no end of the backoff.
IsUnbondedForever ==
  /\ db.committed /\ route.oru
  /\ ~db.bonded /\ ~db.bondedAt /\ ~db.confirmed /\ ~db.notFound

\* getUnbondedTransferRoots.
IsUnbonded ==
  /\ db.committed /\ route.oru
  /\ ~db.bonded /\ ~db.bondedAt /\ ~db.confirmed /\ ~db.notFound
  /\ db.backoff <= MaxBackoffIndex

\* A slip: the age of the commit is not looked at.
BondStartEarly ==
  /\ bonding.step = "idle" /\ IsUnbonded
  /\ bonding' = [step |-> "ask", ids |-> db.ids]
  /\ UNCHANGED <<db, emergencyDryMode>> /\ UnlessBonding

\* The item is read, and the commit is older than the delay and its finality.
BondStart ==
  /\ bonding.step = "idle" /\ IsUnbonded
  /\ age \in {"bondable", "exitable"}
  /\ bonding' = [step |-> "ask", ids |-> db.ids]
  /\ UNCHANGED <<db, emergencyDryMode>> /\ UnlessBonding

\* isTransferRootIdBonded, then emergencyDryMode.
BondCheck ==
  /\ bonding.step = "ask"
  /\ \/ /\ bond.by # "none"
        /\ db' = [db EXCEPT !.notFound = TRUE] /\ bonding' = IdleCall
     \/ /\ bond.by = "none" /\ ~emergencyDryMode
        /\ bonding' = [bonding EXCEPT !.step = "send"] /\ UNCHANGED db
  /\ UNCHANGED emergencyDryMode /\ UnlessBonding

\* What a provider says of the block of the commit.
Answers(r) ==
  IF r \notin TrustedRpcs THEN RpcAnswers ELSE IF canonical THEN {"match"} ELSE {"missing"}

\* getRedundantRpcEventParams: a missing event is first taken for a provider that lags.
IsOutOfSync(answer) ==
  \/ answer = "behind"
  \/ answer = "missing" /\ db.backoff <= MaxReorgCheckBackoffIndex
IsPossibleReorg(answer) ==
  \/ answer = "mismatch"
  \/ answer = "missing" /\ db.backoff > MaxReorgCheckBackoffIndex

\* preTransactionValidation and bondTransferRoot.
OutOfSync ==
  /\ bonding.ids /\ \E r \in RedundantRpcs : \E answer \in Answers(r) : IsOutOfSync(answer)
  /\ db' = [db EXCEPT !.backoff = @ + 1]
  /\ UNCHANGED <<mempool, emergencyDryMode>>

PossibleReorg ==
  /\ bonding.ids
  /\ \/ \E r \in RedundantRpcs : \E answer \in Answers(r) : IsPossibleReorg(answer)
     \/ "conflict" \in Faults
  /\ emergencyDryMode' = TRUE
  /\ UNCHANGED <<mempool, db>>

SendBond ==
  /\ bonding.ids /\ \A r \in RedundantRpcs : Answers(r) \cap {"down", "match"} # {}
  /\ mempool' = mempool \cup {"bond"}
  /\ UNCHANGED <<db, emergencyDryMode>>

\* Without transfer ids, or for any other error, the call just throws (CallThrows).
BondSend ==
  /\ bonding.step = "send"
  /\ OutOfSync \/ PossibleReorg \/ SendBond
  /\ bonding' = IdleCall
  /\ UNCHANGED <<route, canonical, age, bond, confirmed, set, unread, lost, populating,
                 confirming, relaying>>

-----------------------------------------------------------------------------
(* ConfirmRootsWatcher.  Its two queries run side by side. *)

\* The challenge period of the bond is over and the db knows of no challenge.
IsUnchallenged == db.bondedAt /\ ~db.challenged /\ bond.over

\* A slip: a challenged root is left to the wrapper.
IsExitableUnlessBonded ==
  /\ db.committed /\ ~db.confirmed
  /\ route.oru => age = "exitable"
  /\ ~(route.oru /\ ~ShouldExitOrus /\ db.bondedAt /\ bond.over)

\* getExitableTransferRoots.
IsExitable ==
  /\ db.committed /\ ~db.confirmed
  /\ route.oru => age = "exitable"
  /\ ~(route.oru /\ ~ShouldExitOrus /\ IsUnchallenged)

\* A slip: the confirmed root is not marked.
ExitSeesConfirmedUnmarked ==
  /\ IsExitable /\ confirmed
  /\ UNCHANGED vars

\* checkExitableTransferRoots of a root that isTransferRootIdConfirmed finds confirmed, also
\* when its event was lost.
ExitSeesConfirmed ==
  /\ IsExitable /\ confirmed
  /\ db' = [db EXCEPT !.confirmed = TRUE]
  /\ UNCHANGED <<chain, unread, lost, populating, calls, emergencyDryMode>>

\* handleCommitTxHash of the watcher of the source chain: its bridge takes the proof of a
\* message that is on the chain and past its dispute window.  One step: what the query
\* read may change before the transaction is sent, but L1 takes a root only once.  The
\* watcher of zkSync sends with writes turned off as well; those of Linea and Scroll never do.
ExitSend ==
  /\ IsExitable /\ ~confirmed
  /\ canonical /\ age = "exitable"
  /\ mempool' = mempool \cup {"exit"}
  /\ UNCHANGED <<route, canonical, age, bond, confirmed, set, unread, lost, db, populating,
                 calls, emergencyDryMode>>

\* getConfirmableTransferRoots.
IsConfirmable ==
  /\ db.committed /\ ~db.confirmed
  /\ db.bonded /\ IsUnchallenged

UnlessConfirming == UNCHANGED <<route, canonical, age, bond, confirmed, set, unread, lost,
                                populating, bonding, relaying, emergencyDryMode>>

ConfirmStart ==
  /\ confirming = "idle" /\ IsConfirmable
  /\ confirming' = "ask"
  /\ UNCHANGED <<mempool, db>> /\ UnlessConfirming

\* isTransferRootIdConfirmed, then emergencyDryMode.
ConfirmCheck ==
  /\ confirming = "ask"
  /\ \/ /\ confirmed
        /\ db' = [db EXCEPT !.confirmed = TRUE] /\ confirming' = "idle"
     \/ ~confirmed /\ ~emergencyDryMode /\ confirming' = "send" /\ UNCHANGED db
  /\ UNCHANGED mempool /\ UnlessConfirming

\* A slip: the challenge of the bond is not looked at.
ConfirmSendUnchecked ==
  /\ confirming = "send"
  /\ canonical /\ ~confirmed
  /\ bond.by # "none" /\ bond.over
  /\ mempool' = mempool \cup {"wrapper"}
  /\ confirming' = "idle"
  /\ UNCHANGED db /\ UnlessConfirming

\* confirmRootsViaWrapper: the root is in the subgraph of the source chain, it is not
\* confirmed, and its bond is on L1, old enough and without a challenge.
ConfirmSend ==
  /\ confirming = "send"
  /\ canonical /\ ~confirmed /\ BondStands
  /\ mempool' = mempool \cup {"wrapper"}
  /\ confirming' = "idle"
  /\ UNCHANGED db /\ UnlessConfirming

-----------------------------------------------------------------------------
(* RelayWatcher, for roots. *)

UnlessRelaying == UNCHANGED <<route, canonical, age, bond, confirmed, mempool, lost,
                              populating, bonding, confirming, emergencyDryMode>>

\* getRelayableTransferRoots.
IsRelayable ==
  /\ route.relayable /\ db.committed /\ ~db.notFound /\ ~db.set
  /\ db.bondedAt \/ db.confirmedAt

\* A slip: confirmTxHash comes first.
ConfirmTxFirst == IF db.confirmTx THEN "confirm" ELSE "bond"

\* bondTxHash, or else confirmTxHash; one of them is there.
L1TxHash == IF db.bonded THEN "bond" ELSE "confirm"

RelayStart ==
  /\ relaying = "idle" /\ IsRelayable
  /\ relaying' = L1TxHash
  /\ UNCHANGED <<set, unread, db>> /\ UnlessRelaying

\* redeemArbitrumTransaction: the transaction has a message to the destination, which takes
\* it once; another attempt throws.  What isTransferRootSet says in between stops nothing: it
\* asks the bridge of the source chain, where the root is never set.
Redeem ==
  /\ relaying # "idle" /\ ~set /\ ~emergencyDryMode
  /\ relaying = Carrier
  /\ RootSet
  /\ relaying' = "idle"
  /\ UNCHANGED db /\ UnlessRelaying

-----------------------------------------------------------------------------
(* AvailableLiquidityWatcher. *)

\* calculateUnbondedTransferRootAmounts, after a round of the sync: an unbonded root whose
\* bond L1 has is marked, however new it is.  One step: that the event of the bond is
\* handled between the query and the mark is a case of BondCheck.
CalculateUnbondedTransferRootAmounts ==
  /\ IsUnbonded /\ bond.by # "none"
  /\ db' = [db EXCEPT !.notFound = TRUE]
  /\ UNCHANGED <<chain, unread, lost, populating, calls, emergencyDryMode>>

-----------------------------------------------------------------------------

\* The credit is too low, emergencyDryMode stops a call, or an await of it fails; the next
\* poll tries again.
CallThrows ==
  /\ \/ /\ bonding.step # "idle" /\ bonding' = IdleCall
        /\ UNCHANGED <<confirming, relaying>>
     \/ /\ confirming # "idle" /\ confirming' = "idle"
        /\ UNCHANGED <<bonding, relaying>>
     \/ /\ relaying # "idle" /\ relaying' = "idle"
        /\ UNCHANGED <<bonding, confirming>>
  /\ UNCHANGED <<chain, unread, lost, db, populating, emergencyDryMode>>

\* The process ends and is started again: the db and what was sent are kept.
Crash ==
  /\ "crash" \in Faults
  /\ populating' = "idle" /\ bonding' = IdleCall
  /\ confirming' = "idle" /\ relaying' = "idle"
  /\ emergencyDryMode' = FALSE
  /\ UNCHANGED <<chain, unread, lost, db>>

Chains ==
  \/ PassTime \/ Reorg \/ PassChallengePeriod \/ OtherBonds \/ Challenge \/ OtherExits
  \/ \E tx \in mempool : Mine(tx)
  \/ Deliver

Sync ==
  \/ \E e \in unread : Handle(e) \/ LoseEvent(e)
  \/ PopulateTransferRootDbItem \/ PopulateStep \/ TransactionNotFound

Watch ==
  \/ BondStart \/ BondCheck \/ BondSend
  \/ ExitSeesConfirmed \/ ExitSend
  \/ ConfirmStart \/ ConfirmCheck \/ ConfirmSend
  \/ RelayStart \/ Redeem
  \/ CalculateUnbondedTransferRootAmounts
  \/ CallThrows

Next == Chains \/ Sync \/ Watch \/ Crash

Spec == Init /\ [][Next]_vars

\* The polls and the sync run for ever, time passes, a native bridge delivers, and a
\* transaction that was sent is mined (gasboost).  What may throw is tried at every poll and
\* succeeds in the end.  Nothing makes anybody else bond, challenge, confirm or redeem.
Fairness ==
  /\ WF_vars(PassTime) /\ WF_vars(PassChallengePeriod)
  /\ \A tx \in {"bond", "exit", "wrapper"} : WF_vars(Mine(tx))
  /\ WF_vars(~route.relayable /\ Deliver)
  /\ \A e \in Events : WF_vars(Handle(e))
  /\ WF_vars(PopulateTransferRootDbItem) /\ SF_vars(PopulateStep)
  /\ SF_vars(ExitSeesConfirmed) /\ SF_vars(~emergencyDryMode /\ ExitSend)
  /\ WF_vars(ConfirmStart) /\ SF_vars(ConfirmCheck) /\ SF_vars(ConfirmSend)
  /\ WF_vars(RelayStart) /\ SF_vars(Redeem)
  /\ WF_vars(confirming # "idle" /\ CallThrows /\ confirming' = "idle")
  /\ WF_vars(relaying # "idle" /\ CallThrows /\ relaying' = "idle")

FairSpec == Spec /\ Fairness

-----------------------------------------------------------------------------
(* Properties. *)

\* This bonder has no bond, sent or taken, for a root that a reorg took from the source
\* chain, although its db still has the root: BondTransferRootWatcher waits for finality
\* and asks redundant providers just before it sends.
OrphanIsNeverBonded == "bond" \in mempool \/ bond.by = "self" => canonical

\* ConfirmRootsWatcher has the wrapper confirm only roots of the source chain whose bond
\* nobody can challenge any more, also while the event of a challenge is late or lost.
WrapperConfirmsStanding == "wrapper" \in mempool => canonical /\ BondStands

\* A root that is marked isNotFound although its transfers are known was bonded or confirmed
\* on L1, whoever marks it and whatever events are late or lost: the marks of the watchers
\* and of the populate poll hide no root from BondTransferRootWatcher that could be bonded.
HiddenIsOnL1 == db.notFound /\ db.ids => Carrier # "none"

\* A committed root is confirmed on L1 in the end: one of the two queries of
\* ConfirmRootsWatcher always finds it, unless its commit or a challenge was never handled
\* or writes are turned off.
RootIsConfirmed ==
  <>(confirmed \/ ~canonical \/ emergencyDryMode \/ lost \cap {"committed", "challenged"} # {})

\* A committed root is set on its destination in the end, by the bridge or by RelayWatcher,
\* which has to redeem the transaction that carries it, unless an event of L1 or of the
\* commit was never handled or the item is marked not found.
RootIsSet ==
  <>(set \/ ~canonical \/ emergencyDryMode \/ db.notFound
       \/ lost \cap {"committed", "bonded", "confirmed"} # {})

\* The db learns of every confirmation, also of one whose event is never handled, so that
\* the queries of ConfirmRootsWatcher let go of the root.
ConfirmedIsKnown == confirmed ~> db.confirmed \/ "committed" \in lost
=============================================================================
