----------------------------- MODULE Settlement -----------------------------
(***************************************************************************)
(* How the bonds of one transfer root are settled.                         *)
(*                                                                         *)
(* A bonder that paid a transfer on the destination chain has a bond there *)
(* until settleBondedWithdrawals is called for the bonder and the root of  *)
(* the transfer.  SettleBondedWithdrawalWatcher polls the db for roots     *)
(* with unsettled transfers and sends that call; the SyncWatchers put the  *)
(* events of both chains in the db, fill in what the events do not tell,   *)
(* and compute from the events of settlements which transfers of the root  *)
(* are settled.  All of these run side by side, and no event is certain to *)
(* be handled in the order of the chains.                                  *)
(*                                                                         *)
(* The root has been committed with the transfers in Transfers and is set  *)
(* on the destination chain.  An amount is the set of transfers it pays,   *)
(* so two amounts are equal when the sets are.  WithdrawalBondSettled, the *)
(* event of a call for one transfer, that the node never makes, is left    *)
(* out.  The delay between two attempts is that of the next poll.          *)
(***************************************************************************)
EXTENDS FiniteSets, Integers

CONSTANTS
  Transfers,    \* the transfers of the root
  Bonders,
  None,         \* no bonder
  MayBond,      \* the bonders that may bond a transfer
  MayWithdraw,  \* the transfers that may be withdrawn from the root
  Unbondable,   \* transfers that getIsBondable refuses; another bonder may bond them
  MaxChecks,    \* bound on the calls of checkTransferRootSettledState under way
  Faults,       \* what may go wrong, see AllFaults
  MaxFaults     \* bound on what goes wrong

\* "transaction": a provider does not find a transaction; "call": a call of the watcher
\* fails; "lost": the event of a settlement is not handled; "again": an event is read
\* again; "crash": the process ends and is started again; "twoWeeks": the root gets too old
\* for the poll.
AllFaults == {"transaction", "call", "lost", "again", "crash", "twoWeeks"}

ASSUME BondersAssumption == None \notin Bonders
ASSUME TransfersAssumption == /\ Transfers # {}
                              /\ MayBond \in [Transfers -> SUBSET Bonders]
                              /\ MayWithdraw \subseteq Transfers
                              /\ Unbondable \subseteq Transfers
ASSUME BoundsAssumption ==
  MaxChecks \in Nat \ {0} /\ MaxFaults \in Nat /\ Faults \subseteq AllFaults

VARIABLES
  bond,          \* destination chain: who bonded a transfer
  cleared,       \* the transfers whose bond has been settled
  withdrawn,     \* the transfers their recipients withdrew from the root
  settlements,   \* the MultipleWithdrawalsSettled events
  mempool,       \* the bonders settle transactions are pending for
  recent,        \* the root was committed within the last two weeks
  unread,        \* the events that are still to be handled
  db,            \* the items of the transfers
  root,          \* the item of the root
  stored,        \* subDbMultipleWithdrawalsSettleds
  checks,        \* checkTransferRootSettledState under way
  poll,          \* the poll of SettleBondedWithdrawalWatcher
  faults

chain == <<bond, cleared, withdrawn, settlements, mempool, recent>>
vars == <<chain, unread, db, root, stored, checks, poll, faults>>

\* MultipleWithdrawalsSettled: totalBondsSettled is the amount of the transfers.
SettledEvent == [bonder : Bonders, transfers : SUBSET Transfers]

\* withdrawalBonded, withdrawalBonder and withdrawalBondSettled; unbondable is an explicit
\* isBondable = false, sent the presence of the fields of TransferSent.
Item == [sent : BOOLEAN, bonded : BOOLEAN, bonder : Bonders \cup {None},
         settled : BOOLEAN, unbondable : BOOLEAN, notFound : BOOLEAN]

\* A call of checkTransferRootSettledState, by the handler of an event or by the poll for
\* incomplete roots: whether the events make up the total, whether the items have been
\* read, which are to be written as settled and not settled, and if one was open.
Check == [by : {"event", "root"}, event : SettledEvent, full : BOOLEAN,
          read : BOOLEAN, settle : SUBSET Transfers, unsettle : SUBSET Transfers,
          open : BOOLEAN]

Root == [committed : BOOLEAN, rootSet : BOOLEAN, ids : BOOLEAN, allSettled : BOOLEAN,
         notFound : BOOLEAN]

Idle == [step |-> "idle", unread |-> {}, bonded |-> FALSE, open |-> FALSE, bonders |-> {}]

TypeOK ==
  /\ bond \in [Transfers -> Bonders \cup {None}]
  /\ cleared \subseteq Transfers /\ withdrawn \subseteq Transfers
  /\ settlements \subseteq SettledEvent
  /\ mempool \subseteq Bonders /\ recent \in BOOLEAN
  /\ unread \in [sent : SUBSET Transfers, bonded : SUBSET Transfers,
                 withdrew : SUBSET Transfers, settled : SUBSET SettledEvent,
                 committed : BOOLEAN, rootSet : BOOLEAN]
  /\ db \in [Transfers -> Item]
  /\ root \in Root
  /\ stored \subseteq SettledEvent
  /\ checks \subseteq Check
  /\ poll \in [step : {"idle", "read", "ask"}, unread : SUBSET Transfers,
               bonded : BOOLEAN, open : BOOLEAN, bonders : SUBSET Bonders]
  /\ faults \in Nat

Init ==
  /\ bond = [t \in Transfers |-> None]
  /\ cleared = {} /\ withdrawn = {}
  /\ settlements = {} /\ mempool = {} /\ recent = TRUE
  /\ unread = [sent |-> Transfers, bonded |-> {}, withdrew |-> {}, settled |-> {},
               committed |-> TRUE, rootSet |-> TRUE]
  /\ db = [t \in Transfers |-> [sent |-> FALSE, bonded |-> FALSE, bonder |-> None,
                                settled |-> FALSE, unbondable |-> FALSE,
                                notFound |-> FALSE]]
  /\ root = [committed |-> FALSE, rootSet |-> FALSE, ids |-> FALSE,
             allSettled |-> FALSE, notFound |-> FALSE]
  /\ stored = {} /\ checks = {} /\ poll = Idle
  /\ faults = 0

-----------------------------------------------------------------------------
(* The destination chain. *)

Fault(f) == f \in Faults /\ faults < MaxFaults /\ faults' = faults + 1

Bond(t, b) ==
  /\ b \in MayBond[t]
  /\ bond[t] = None /\ t \notin withdrawn
  /\ bond' = [bond EXCEPT ![t] = b]
  /\ unread' = [unread EXCEPT !.bonded = @ \cup {t}]
  /\ UNCHANGED <<cleared, withdrawn, settlements, mempool, recent, db, root, stored,
                 checks, poll, faults>>

Withdraw(t) ==
  /\ t \in MayWithdraw \ withdrawn /\ bond[t] = None
  /\ withdrawn' = withdrawn \cup {t}
  /\ unread' = [unread EXCEPT !.withdrew = @ \cup {t}]
  /\ UNCHANGED <<bond, cleared, settlements, mempool, recent, db, root, stored,
                 checks, poll, faults>>

\* settleBondedWithdrawals: clears every bond the bonder has in the root, and emits its
\* event even if there was none.
Settle(b) ==
  /\ b \in mempool
  /\ LET bonds == {t \in Transfers : bond[t] = b}
         event == [bonder |-> b, transfers |-> bonds \ cleared]
     IN  /\ cleared' = cleared \cup bonds
         /\ settlements' = settlements \cup {event}
         /\ unread' = [unread EXCEPT !.settled = @ \cup {event}]
  /\ mempool' = mempool \ {b}
  /\ UNCHANGED <<bond, withdrawn, recent, db, root, stored, checks, poll, faults>>

-----------------------------------------------------------------------------
(* SyncWatcher: the handlers of events. *)

TransferSent(t) ==
  /\ db' = [db EXCEPT ![t].sent = TRUE, ![t].unbondable = t \in Unbondable]
  /\ UNCHANGED <<stored, checks>>

WithdrawalBonded(t) ==
  /\ db' = [db EXCEPT ![t].bonded = TRUE, ![t].settled = FALSE]
  /\ UNCHANGED <<stored, checks>>

Withdrew(t) ==
  /\ db' = [db EXCEPT ![t].unbondable = TRUE]
  /\ UNCHANGED <<stored, checks>>

HandleTransferSent(t) ==
  /\ t \in unread.sent
  /\ unread' = [unread EXCEPT !.sent = @ \ {t}]
  /\ TransferSent(t)
  /\ UNCHANGED <<chain, root, poll, faults>>

HandleWithdrawalBonded(t) ==
  /\ t \in unread.bonded
  /\ unread' = [unread EXCEPT !.bonded = @ \ {t}]
  /\ WithdrawalBonded(t)
  /\ UNCHANGED <<chain, root, poll, faults>>

HandleWithdrew(t) ==
  /\ t \in unread.withdrew
  /\ unread' = [unread EXCEPT !.withdrew = @ \ {t}]
  /\ Withdrew(t)
  /\ UNCHANGED <<chain, root, poll, faults>>

HandleTransfersCommitted ==
  /\ unread.committed
  /\ unread' = [unread EXCEPT !.committed = FALSE]
  /\ root' = [root EXCEPT !.committed = TRUE]
  /\ UNCHANGED <<chain, db, stored, checks, poll, faults>>

HandleTransferRootSet ==
  /\ unread.rootSet
  /\ unread' = [unread EXCEPT !.rootSet = FALSE]
  /\ root' = [root EXCEPT !.rootSet = TRUE]
  /\ UNCHANGED <<chain, db, stored, checks, poll, faults>>

\* getMultipleWithdrawalsSettledTotalAmount equals the total amount of the root.
SumIsTotal(events) == UNION {e.transfers : e \in events} = Transfers

CheckTransferRootSettledState(by, e, events) ==
  [by |-> by, event |-> e, full |-> SumIsTotal(events), read |-> FALSE,
   settle |-> {}, unsettle |-> {}, open |-> FALSE]

\* The hash of the root has to be known; until then the handler throws.  The root is read
\* when the event is stored; a handler that reads it sooner, and does not see the list of
\* transfers, loses its check, as in LoseSettled.
MultipleWithdrawalsSettled(e) ==
  /\ root.committed \/ root.rootSet
  /\ Cardinality(checks) < MaxChecks /\ \A c \in checks : c.by = "event" => c.event # e
  /\ stored' = stored \cup {e}
  /\ checks' = IF root.ids
                 THEN checks \cup {CheckTransferRootSettledState("event", e, stored')}
                 ELSE checks
  /\ UNCHANGED db

HandleMultipleWithdrawalsSettled(e) ==
  /\ e \in unread.settled
  /\ unread' = [unread EXCEPT !.settled = @ \ {e}]
  /\ MultipleWithdrawalsSettled(e)
  /\ UNCHANGED <<chain, root, poll, faults>>

\* Mutant of IsDone: a transfer counts as soon as its bond is known.
IsDoneWhenBonded(item) == item.bonded \/ item.unbondable

IsDone(item) == item.settled \/ item.unbondable

\* Mutant of CheckRead: the bonder of the event is not compared.
CheckReadAnyBonder(c) ==
  /\ c \in checks /\ ~c.read
  /\ LET unsettled == {t \in Transfers : ~db[t].settled}
         settle == {t \in unsettled : db[t].bonded}
     IN  checks' = (checks \ {c}) \cup
           {[c EXCEPT !.read = TRUE, !.settle = settle, !.unsettle = unsettled \ settle,
                      !.open = \E t \in Transfers : ~IsDone(db[t])]}
  /\ UNCHANGED <<chain, unread, db, root, stored, poll, faults>>

\* The reads of all transfers are issued together; a transfer is settled if it has been
\* bonded by the bonder of the event.
CheckRead(c) ==
  /\ c \in checks /\ ~c.read
  /\ LET isWithdrawalSettled(t) == db[t].bonded /\ db[t].bonder = c.event.bonder
         unsettled == {t \in Transfers : ~db[t].settled}
         settle == {t \in unsettled : isWithdrawalSettled(t)}
     IN  checks' = (checks \ {c}) \cup
           {[c EXCEPT !.read = TRUE, !.settle = settle, !.unsettle = unsettled \ settle,
                      !.open = \E t \in Transfers : ~IsDone(db[t])]}
  /\ UNCHANGED <<chain, unread, db, root, stored, poll, faults>>

CheckWrite(c, t) ==
  /\ c \in checks /\ t \in c.settle \cup c.unsettle
  /\ db' = [db EXCEPT ![t].settled = t \in c.settle]
  /\ checks' = (checks \ {c})
                 \cup {[c EXCEPT !.settle = @ \ {t}, !.unsettle = @ \ {t}]}
  /\ UNCHANGED <<chain, unread, root, stored, poll, faults>>

CheckEnd(c) ==
  /\ c \in checks
  /\ c.read /\ c.settle = {} /\ c.unsettle = {}
  /\ root' = [root EXCEPT !.allSettled = c.full \/ ~c.open]
  /\ checks' = checks \ {c}
  /\ UNCHANGED <<chain, unread, db, stored, poll, faults>>

-----------------------------------------------------------------------------
(* SyncWatcher: the polls for incomplete items. *)

\* populateTransferDbItem.  An item without the fields of TransferSent is taken up by the
\* poll of every chain.
PopulateTransferDbItem(t) ==
  /\ ~db[t].notFound
  /\ \/ /\ ~db[t].sent /\ (db[t].bonded \/ db[t].unbondable)
        /\ db' = [db EXCEPT ![t].notFound = TRUE]
     \/ /\ db[t].sent /\ db[t].bonded /\ db[t].bonder = None
        /\ db' = [db EXCEPT ![t].bonder = bond[t]]
  /\ UNCHANGED <<chain, unread, root, stored, checks, poll, faults>>

\* The transaction of a bond is not found by the provider.
TransactionNotFound(t) ==
  /\ Fault("transaction")
  /\ db[t].sent /\ db[t].bonded /\ db[t].bonder = None /\ ~db[t].notFound
  /\ db' = [db EXCEPT ![t].notFound = TRUE]
  /\ UNCHANGED <<chain, unread, root, stored, checks, poll>>

\* populateTransferRootDbItem.  The list of transfers comes from the data of a settlement,
\* whose bonder is then checked with the amount of all of them, or else from the transfers
\* that were sent.  The poll of the source chain follows a round that read the transfers
\* before the commit.
PopulateTransferRootDbItem ==
  /\ ~root.notFound
  /\ \/ /\ ~root.committed /\ root.rootSet
        /\ root' = [root EXCEPT !.notFound = TRUE]
        /\ UNCHANGED checks
     \/ /\ root.committed /\ ~root.ids
        /\ \A t \in Transfers : db[t].sent
        /\ root' = [root EXCEPT !.ids = TRUE]
        /\ IF stored = {} THEN UNCHANGED checks
           ELSE \E e \in stored :
                  checks' = checks \cup {CheckTransferRootSettledState("root", e, stored)}
  /\ UNCHANGED <<chain, unread, db, stored, poll, faults>>

-----------------------------------------------------------------------------
(* SettleBondedWithdrawalWatcher. *)

\* Mutant of PollUnsettled: a root is not tried again once a settlement of it is known.
PollUnsettledOnce ==
  /\ poll.step = "idle" /\ recent
  /\ root.ids /\ root.rootSet /\ root.committed
  /\ ~root.allSettled /\ stored = {}
  /\ poll' = [Idle EXCEPT !.step = "read", !.unread = Transfers]
  /\ UNCHANGED <<chain, unread, db, root, stored, checks, faults>>

\* getUnsettledTransferRoots, which has the roots of two weeks, and the start of
\* checkUnsettledTransferRootsFromDb.
PollUnsettled ==
  /\ poll.step = "idle" /\ recent
  /\ root.ids /\ root.rootSet /\ root.committed
  /\ ~root.allSettled
  /\ poll' = [Idle EXCEPT !.step = "read", !.unread = Transfers]
  /\ UNCHANGED <<chain, unread, db, root, stored, checks, faults>>

\* Mutant of Seen: a transfer without a known bonder is not skipped.
SeenWithoutBonder(item) == [poll EXCEPT
  !.bonded = @ \/ item.bonded,
  !.open = @ \/ ~IsDone(item),
  !.bonders = IF item.settled THEN @ ELSE @ \cup {item.bonder}]

\* The item of one transfer is added to what the poll has seen.
Seen(item) == [poll EXCEPT
  !.bonded = @ \/ item.bonded,
  !.open = @ \/ ~IsDone(item),
  !.bonders = IF item.settled THEN @ ELSE @ \cup ({item.bonder} \ {None})]

\* All transfers have been read: there is nothing to do if none is bonded or none open,
\* else a call for each bonder is made.
Decide(seen) == IF seen.bonded /\ seen.open /\ seen.bonders # {}
                  THEN [Idle EXCEPT !.step = "ask", !.bonders = seen.bonders]
                  ELSE Idle

\* Mutant of PollRead: a root without open transfers is left as it is.
PollReadOnly ==
  /\ poll.step = "read"
  /\ LET t == CHOOSE u \in poll.unread : TRUE
     IN  poll' = IF poll.unread = {t} THEN Decide(Seen(db[t]))
                 ELSE [Seen(db[t]) EXCEPT !.unread = @ \ {t}]
  /\ UNCHANGED <<chain, unread, db, root, stored, checks, faults>>

\* One transfer is read, in the order of the list.
PollRead ==
  /\ poll.step = "read"
  /\ LET t == CHOOSE u \in poll.unread : TRUE
         seen == Seen(db[t])
         isLast == poll.unread = {t}
     IN  /\ poll' = IF isLast THEN Decide(seen) ELSE [seen EXCEPT !.unread = @ \ {t}]
         /\ root' = IF isLast /\ seen.bonded /\ ~seen.open
                      THEN [root EXCEPT !.allSettled = TRUE] ELSE root
  /\ UNCHANGED <<chain, unread, db, stored, checks, faults>>

\* The call for a bonder is over.
Asked(b) ==
  /\ poll.step = "ask" /\ b \in poll.bonders
  /\ poll' = IF poll.bonders = {b} THEN Idle ELSE [poll EXCEPT !.bonders = @ \ {b}]

\* checkTransferRootId, for one bonder.
CheckTransferRootId(b) ==
  /\ Asked(b)
  /\ IF cleared \cup withdrawn = Transfers
       THEN root' = [root EXCEPT !.allSettled = TRUE] /\ UNCHANGED mempool
       ELSE mempool' = mempool \cup {b} /\ UNCHANGED root
  /\ UNCHANGED <<bond, cleared, withdrawn, settlements, recent,
                 unread, db, stored, checks, faults>>

-----------------------------------------------------------------------------
(* What may go wrong. *)

\* The provider does not know the root yet, refuses the transaction or fails, or writes
\* are turned off.
CheckTransferRootIdFails(b) ==
  /\ Fault("call")
  /\ Asked(b)
  /\ UNCHANGED <<chain, unread, db, root, stored, checks>>

\* The event of a settlement is lost: its handler threw, or ended with the process, when
\* the watermark was stored already.
LoseSettled(e) ==
  /\ Fault("lost")
  /\ e \in unread.settled
  /\ unread' = [unread EXCEPT !.settled = @ \ {e}]
  /\ UNCHANGED <<chain, db, root, stored, checks, poll>>

\* A round failed, and the next one reads an event again.
ReadAgain ==
  /\ Fault("again")
  /\ \/ \E t \in Transfers \ unread.sent : TransferSent(t)
     \/ \E t \in Transfers \ unread.bonded : bond[t] # None /\ WithdrawalBonded(t)
     \/ \E t \in withdrawn \ unread.withdrew : Withdrew(t)
     \/ \E e \in settlements \ unread.settled : MultipleWithdrawalsSettled(e)
  /\ UNCHANGED <<chain, unread, root, poll>>

\* Handlers that were under way are lost or started again after the restart.
Crash ==
  /\ Fault("crash")
  /\ checks # {} \/ poll # Idle
  /\ \E again \in SUBSET {c.event : c \in {d \in checks : d.by = "event"}} :
       unread' = [unread EXCEPT !.settled = @ \cup again]
  /\ checks' = {} /\ poll' = Idle
  /\ UNCHANGED <<chain, db, root, stored>>

\* The commit is older than what getTransferRootsFromTwoWeeks returns.
TwoWeeksPass ==
  /\ Fault("twoWeeks")
  /\ recent /\ recent' = FALSE
  /\ UNCHANGED <<bond, cleared, withdrawn, settlements, mempool, unread, db, root, stored,
                 checks, poll>>

-----------------------------------------------------------------------------
Handlers == \/ \E t \in Transfers :
                  HandleTransferSent(t) \/ HandleWithdrawalBonded(t) \/ HandleWithdrew(t)
            \/ HandleTransfersCommitted \/ HandleTransferRootSet
            \/ \E e \in unread.settled : HandleMultipleWithdrawalsSettled(e)
            \/ \E c \in checks : CheckRead(c) \/ CheckEnd(c)
            \/ \E c \in checks, t \in Transfers : CheckWrite(c, t)

Watchers == \/ \E t \in Transfers : PopulateTransferDbItem(t)
            \/ PopulateTransferRootDbItem
            \/ PollUnsettled \/ PollRead
            \/ \E b \in Bonders : CheckTransferRootId(b)

DestinationChain == \/ \E t \in Transfers, b \in Bonders : Bond(t, b)
                    \/ \E t \in Transfers : Withdraw(t)
                    \/ \E b \in Bonders : Settle(b)

Failures == \/ \E t \in Transfers : TransactionNotFound(t)
            \/ \E b \in Bonders : CheckTransferRootIdFails(b)
            \/ \E e \in unread.settled : LoseSettled(e)
            \/ ReadAgain \/ Crash

Next == Handlers \/ Watchers \/ DestinationChain \/ Failures \/ TwoWeeksPass

Spec == Init /\ [][Next]_vars

\* Every event is handled, handlers and polls go on, and a pending transaction is mined.
FairSpec ==
  /\ Spec
  /\ \A t \in Transfers : /\ WF_vars(HandleTransferSent(t))
                          /\ WF_vars(HandleWithdrawalBonded(t))
                          /\ WF_vars(HandleWithdrew(t))
                          /\ WF_vars(PopulateTransferDbItem(t))
  /\ WF_vars(HandleTransfersCommitted) /\ WF_vars(HandleTransferRootSet)
  /\ WF_vars(Handlers)
  /\ WF_vars(PopulateTransferRootDbItem)
  /\ WF_vars(PollUnsettled) /\ WF_vars(PollRead)
  /\ \A b \in Bonders : WF_vars(CheckTransferRootId(b)) /\ WF_vars(Settle(b))

-----------------------------------------------------------------------------
\* Bonded after their bonder had settled in the root, and not settled again.
Late == {t \in Transfers \ cleared :
           bond[t] # None /\ \E e \in settlements : e.bonder = bond[t]}

\* checkTransferRootSettledState marks a transfer as settled only when its bond has been
\* settled on chain, whatever handlers and polls interleave, unless it was bonded after
\* its bonder had settled in the root.
MarkedIsCleared == \A t \in Transfers : db[t].settled => t \in cleared \cup Late

\* A root that is marked allSettled, after which no poll looks at it again, has no
\* transfer that is still to be bonded, withdrawn or settled, the late ones and those
\* this bonder never considers aside.
AllSettledIsSpent ==
  root.allSettled => Transfers \subseteq cleared \cup withdrawn \cup Late \cup Unbondable

\* The marks that are never taken back and make the watchers pass over a bond: isNotFound,
\* because the bond or the root was seen before the event of the source chain; and the
\* mark of a late transfer.
IsOverlooked(t) == \/ db[t].notFound \/ root.notFound
                   \/ t \in Unbondable
                   \/ t \in Late /\ (db[t].settled \/ root.allSettled)

\* The root is no longer looked for, and nothing that was begun before is under way.
WindowIsOver ==
  /\ ~recent
  /\ poll.step = "idle" /\ mempool = {} /\ unread.settled = {} /\ checks = {}

\* Every bond is settled once the root is set, with settle events lost, read again or
\* handled in any order, with failed transactions and a restart, unless it is overlooked,
\* or the two weeks after the commit end before a call that settles it was sent.
BondIsCleared ==
  \A t \in Transfers :
    bond[t] # None ~> (t \in cleared \/ IsOverlooked(t) \/ WindowIsOver)

\* TransferSent, handled after Withdrew, makes the transfer bondable again.
IsForgotten(t) == t \in withdrawn /\ t \notin unread.withdrew /\ ~db[t].unbondable

\* When all transfers are bonded or withdrawn the root is marked allSettled in the end, if
\* the two weeks after its commit last.
RootIsFinished ==
  ( /\ \E t \in Transfers : bond[t] # None
    /\ \A t \in Transfers : bond[t] # None \/ t \in withdrawn )
  ~> ( \/ root.allSettled \/ root.notFound \/ WindowIsOver
       \/ \E t \in Transfers : db[t].notFound \/ IsForgotten(t) )
=============================================================================
