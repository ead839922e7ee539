--------------------------- MODULE BondWithdrawal ---------------------------
(***************************************************************************)
(* The bonder's fast path for one source chain: the SyncWatcher stores     *)
(* TransferSent events in the TransfersDb and completes the records, and   *)
(* the BondWithdrawalWatcher polls the db, validates each transfer against *)
(* the db and the redundant RPCs and sends bondWithdrawal transactions.    *)
(*                                                                         *)
(* Every await of checkTransferId at which another handler can run is a    *)
(* step of its own.  Time is abstract: a retry delay is "waiting" until    *)
(* it has "elapsed", a transfer is inside the one-week window until it is  *)
(* "old".  The contracts, the chains and the RPC providers are external.   *)
(* Who bonded a spent transfer and whether the bond was settled is data    *)
(* that this path only writes, so the records leave it out.                *)
(***************************************************************************)
EXTENDS Naturals, FiniteSets

CONSTANTS
  Transfers,                  \* ids of one source chain for which getIsBondable holds
  TransferNonce,              \* the nonce of each transfer; a reorg can reuse it
  Indexes,                    \* values of transferSentIndex
  Absent,                     \* no TransferSent event, or no such record
  Blocklist,                  \* transfers whose sender or recipient is blocklisted
  RedundantRpcs,              \* the configured redundant providers
  TrustedRpcs,                \* those that are up and serve the canonical logs
  RpcAnswers,                 \* what the other providers may answer
  Calls,                      \* checkTransferId invocations alive at a time
  MaxReorgCheckBackoffIndex,  \* out-of-sync verdicts before a missing log is a reorg
  MaxBackoffIndex,            \* the last index whose delay is within a week
  Faults,                     \* what may go wrong or be done by others, see AllFaults
  MaxReorgs, MaxCrashes,      \* bounds of the environment
  MaxDisputed                 \* bound of the history variable disputed

\* "spentElsewhere": another bonder or the recipient spends a transfer;
\* "forgotten": the source provider lost what a reorg dropped; "populate": an await
\* of populateTransferDbItem fails; "ageOut": a transfer becomes a week old;
\* "timeout": a call outlives its poll; "throws": an await of checkTransferId fails;
\* the rest are the conditions checkTransferId handles by name.
AllFaults ==
  {"spentElsewhere", "forgotten", "populate", "ageOut", "timeout", "throws",
   "notReceivable", "notEnoughCredit", "feeTooLow", "blacklisted", "callException",
   "nonceTooLow", "lostResponse"}

ASSUME TransfersAssumption ==
  /\ IsFiniteSet(Transfers)
  /\ Faults \subseteq AllFaults
  /\ Absent \notin Indexes
  /\ Blocklist \subseteq Transfers
  /\ TrustedRpcs \subseteq RedundantRpcs
  /\ RpcAnswers \subseteq {"down", "behind", "missing", "match", "mismatch"}
ASSUME BoundsAssumption ==
  /\ MaxReorgCheckBackoffIndex \in Nat
  /\ MaxBackoffIndex \in Nat
  /\ MaxReorgs \in Nat
  /\ MaxCrashes \in Nat
  /\ MaxDisputed \in Nat

VARIABLES
  canonical,  \* index of the TransferSent event on the canonical source chain
  synced,     \* the sync watermark has passed the event
  spent,      \* the transfer on the destination bridge
  pool,       \* bond transactions of this bonder that are not mined yet
  db,         \* the TransfersDb records
  populating, \* progress of populateTransferDbItem
  todo,       \* transfers of the current poll that have not been started
  running,    \* calls the current poll still awaits
  call,       \* the checkTransferId invocations
  emergencyDryMode,
  reorgs, crashes,
  sentBonds,  \* history: transfers a bond transaction was submitted for
  disputed    \* history: times a provider lacked the event of a transfer or had another

chainVars == <<canonical, synced, spent, reorgs>>
syncVars == <<db, populating>>
watcherVars == <<todo, running, call, emergencyDryMode>>
bondVars == <<pool, sentBonds, disputed>>
vars == <<canonical, synced, spent, pool, db, populating, todo, running, call,
          emergencyDryMode, reorgs, crashes, sentBonds, disputed>>

-----------------------------------------------------------------------------
(* Records of the database and of a running checkTransferId. *)

Backoffs == 0 .. (MaxBackoffIndex + 1)

\* age: transferSentTimestamp is unknown, inside the last week, or older.
\* attempted: bondWithdrawalAttemptedAt is falsy, recent, or older than the delay.
\* txError: "backoff" is BonderFeeTooLow or RedundantRpcOutOfSync, which the retry
\* delay treats alike; "other" is none, NotEnoughLiquidity or CallException.
Transfer ==
  [index : Indexes \cup {Absent}, age : {"unknown", "week", "old"},
   sender : BOOLEAN, isBondable : BOOLEAN, isNotFound : BOOLEAN,
   isTransferSpent : BOOLEAN, withdrawalBonded : BOOLEAN,
   attempted : {"no", "waiting", "elapsed"}, txError : {"backoff", "other"},
   backoffIndex : Backoffs]

NoRecord ==
  [index |-> Absent, age |-> "unknown", sender |-> FALSE, isBondable |-> FALSE,
   isNotFound |-> FALSE, isTransferSpent |-> FALSE, withdrawalBonded |-> FALSE,
   attempted |-> "no", txError |-> "other", backoffIndex |-> 0]

CallSteps == {"idle", "isTransferIdSpent", "gate", "getTransaction", "validateDb",
              "validateUniqueness", "validateLogs", "send", "readBackoff",
              "writeBackoff"}

\* index and backoffIndex are what the call read from the db, rpcs are the
\* providers the validation loop has still to ask.
Call ==
  [step : CallSteps, id : Transfers \cup {Absent}, index : Indexes \cup {Absent},
   rpcs : SUBSET RedundantRpcs, backoffIndex : Backoffs]

NoCall == [step |-> "idle", id |-> Absent, index |-> Absent, rpcs |-> {},
           backoffIndex |-> 0]

Conflicts(t) == {u \in Transfers \ {t} : TransferNonce[u] = TransferNonce[t]}

Set(t, field, value) == db' = [db EXCEPT ![t][field] = value]

Min2(a, b) == IF a < b THEN a ELSE b

Init ==
  /\ canonical = [t \in Transfers |-> Absent]
  /\ synced = [t \in Transfers |-> FALSE]
  /\ spent = [t \in Transfers |-> "no"]
  /\ pool = {}
  /\ db = [t \in Transfers |-> NoRecord]
  /\ populating = [t \in Transfers |-> "idle"]
  /\ todo = {} /\ running = {}
  /\ call = [c \in Calls |-> NoCall]
  /\ emergencyDryMode = FALSE
  /\ reorgs = 0 /\ crashes = 0
  /\ sentBonds = {}
  /\ disputed = [t \in Transfers |-> 0]

-----------------------------------------------------------------------------
(* The chains (external). *)

\* The bridge gives every nonce to one transfer of the canonical chain.
SendTransfer(t) ==
  /\ canonical[t] = Absent
  /\ \A u \in Conflicts(t) : canonical[u] = Absent
  /\ \E i \in Indexes : canonical' = [canonical EXCEPT ![t] = i]
  /\ UNCHANGED <<synced, spent, reorgs, bondVars, syncVars, watcherVars, crashes>>

\* A reorg drops the event; its replacement is a new event to sync.
Reorg(t) ==
  /\ reorgs < MaxReorgs
  /\ canonical[t] # Absent
  /\ canonical' = [canonical EXCEPT ![t] = Absent]
  /\ synced' = [synced EXCEPT ![t] = FALSE]
  /\ reorgs' = reorgs + 1
  /\ UNCHANGED <<spent, bondVars, syncVars, watcherVars, crashes>>

\* Another bonder bonds the transfer or its recipient withdraws it.
SpendElsewhere(t) ==
  /\ "spentElsewhere" \in Faults
  /\ canonical[t] # Absent
  /\ spent[t] = "no"
  /\ \E how \in {"bonded", "withdrawn"} : spent' = [spent EXCEPT ![t] = how]
  /\ UNCHANGED <<canonical, synced, reorgs, bondVars, syncVars, watcherVars, crashes>>

\* A transaction for a transfer that is spent already reverts.
MineBond(t) ==
  /\ t \in pool
  /\ pool' = pool \ {t}
  /\ spent' = [spent EXCEPT ![t] = IF @ = "no" THEN "bonded" ELSE @]
  /\ UNCHANGED <<canonical, synced, reorgs, sentBonds, disputed, syncVars, watcherVars,
                 crashes>>

-----------------------------------------------------------------------------
(* SyncWatcher: the event handlers of both bridges and populateTransferDbItem. *)

\* A sync that fails after the handler ran replays the event, hence "advanced".
HandleTransferSent(t) ==
  /\ canonical[t] # Absent
  /\ ~synced[t]
  /\ \E advanced \in BOOLEAN : synced' = [synced EXCEPT ![t] = advanced]
  /\ db' = [db EXCEPT ![t].index = canonical[t], ![t].isBondable = TRUE]
  /\ UNCHANGED <<canonical, spent, reorgs, bondVars, populating, watcherVars, crashes>>

HandleWithdrawalBonded(t) ==
  /\ spent[t] = "bonded"
  /\ ~db[t].withdrawalBonded
  /\ db' = [db EXCEPT ![t].withdrawalBonded = TRUE, ![t].isTransferSpent = TRUE]
  /\ UNCHANGED <<chainVars, bondVars, populating, watcherVars, crashes>>

HandleWithdrew(t) ==
  /\ spent[t] = "withdrawn"
  /\ ~db[t].isTransferSpent
  /\ db' = [db EXCEPT ![t].isTransferSpent = TRUE, ![t].isBondable = FALSE]
  /\ UNCHANGED <<chainVars, bondVars, populating, watcherVars, crashes>>

IsItemIncomplete(item) ==
  /\ item.index # Absent \/ item.isTransferSpent
  /\ ~item.isNotFound
  /\ \/ item.index = Absent
     \/ item.age = "unknown"
     \/ ~item.sender

\* A record without TransferSent data is given up for good.
StartPopulate(t) ==
  /\ populating[t] = "idle"
  /\ IsItemIncomplete(db[t])
  /\ \/ /\ db[t].index = Absent
        /\ Set(t, "isNotFound", TRUE)
        /\ UNCHANGED populating
     \/ /\ db[t].index # Absent
        /\ populating' = [populating EXCEPT ![t] = "timestamp"]
        /\ UNCHANGED db
  /\ UNCHANGED <<chainVars, bondVars, watcherVars, crashes>>

\* The source provider knows the block and the transaction of a canonical event;
\* it may have forgotten those of an event that a reorg dropped.
SourceForgets(t) == "forgotten" \in Faults /\ canonical[t] # db[t].index

PopulateTimestamp(t) ==
  /\ populating[t] = "timestamp"
  /\ populating' = [populating EXCEPT ![t] = "sender"]
  /\ \/ db[t].age = "unknown" /\ Set(t, "age", "week")
     \/ db[t].age = "unknown" /\ SourceForgets(t) /\ Set(t, "isNotFound", TRUE)
     \/ db[t].age # "unknown" /\ UNCHANGED db
  /\ UNCHANGED <<chainVars, bondVars, watcherVars, crashes>>

\* The blocklist is looked up only by the call that stores the sender.
PopulateSender(t) ==
  /\ populating[t] = "sender"
  /\ \/ /\ ~db[t].sender
        /\ Set(t, "sender", TRUE)
        /\ populating' = [populating EXCEPT ![t] = IF t \in Blocklist THEN "blocklist"
                                                                    ELSE "idle"]
     \/ /\ ~db[t].sender /\ SourceForgets(t)
        /\ Set(t, "isNotFound", TRUE)
        /\ populating' = [populating EXCEPT ![t] = "idle"]
     \/ /\ db[t].sender
        /\ populating' = [populating EXCEPT ![t] = "idle"]
        /\ UNCHANGED db
  /\ UNCHANGED <<chainVars, bondVars, watcherVars, crashes>>

PopulateBlocklist(t) ==
  /\ populating[t] = "blocklist"
  /\ populating' = [populating EXCEPT ![t] = "idle"]
  /\ Set(t, "isBondable", FALSE)
  /\ UNCHANGED <<chainVars, bondVars, watcherVars, crashes>>

\* A provider error ends the item; the next incomplete poll starts it again.
PopulateFails(t) ==
  /\ "populate" \in Faults
  /\ populating[t] # "idle"
  /\ populating' = [populating EXCEPT ![t] = "idle"]
  /\ UNCHANGED <<chainVars, bondVars, db, watcherVars, crashes>>

Populate(t) ==
  \/ StartPopulate(t) \/ PopulateTimestamp(t) \/ PopulateSender(t)
  \/ PopulateBlocklist(t)

-----------------------------------------------------------------------------
(* Time. *)

AgeOut(t) ==
  /\ "ageOut" \in Faults
  /\ db[t].age = "week"
  /\ Set(t, "age", "old")
  /\ UNCHANGED <<chainVars, bondVars, populating, watcherVars, crashes>>

RetryDelayElapses(t) ==
  /\ db[t].attempted = "waiting"
  /\ Set(t, "attempted", "elapsed")
  /\ UNCHANGED <<chainVars, bondVars, populating, watcherVars, crashes>>

-----------------------------------------------------------------------------
(* BondWithdrawalWatcher: the poll. *)

\* A delay of more than a week takes the transfer out of every later poll.
IsGivenUp(item) ==
  /\ item.attempted # "no"
  /\ item.txError = "backoff"
  /\ item.backoffIndex > MaxBackoffIndex

\* Mutant of IsUnbondedSent: an attempt is never repeated.
NotAttempted(item) ==
  /\ item.index # Absent
  /\ item.age = "week"
  /\ item.attempted = "no"
  /\ ~item.isNotFound
  /\ item.isBondable
  /\ ~item.isTransferSpent

IsUnbondedSent(item) ==
  /\ item.index # Absent
  /\ item.age = "week"
  /\ ~item.isNotFound
  /\ item.attempted # "waiting"
  /\ ~IsGivenUp(item)
  /\ ~item.withdrawalBonded
  /\ item.isBondable
  /\ ~item.isTransferSpent

\* Mutant of Poll: the next poll starts although the last one still awaits calls.
PollWithoutWaiting ==
  /\ todo = {}
  /\ todo' = {t \in Transfers : IsUnbondedSent(db[t])}
  /\ UNCHANGED <<chainVars, bondVars, syncVars, running, call, emergencyDryMode, crashes>>

\* The next poll starts when every call of the last one ended or timed out.
Poll ==
  /\ todo = {} /\ running = {}
  /\ todo' = {t \in Transfers : IsUnbondedSent(db[t])}
  /\ UNCHANGED <<chainVars, bondVars, syncVars, running, call, emergencyDryMode, crashes>>

Advance(c, step) == call' = [call EXCEPT ![c].step = step]

\* The call returns or throws; the poll's callback swallows what it throws.
Return(c) ==
  /\ call' = [call EXCEPT ![c] = NoCall]
  /\ running' = running \ {c}

\* Mutant of StartCall: an index of zero is taken for a missing one.
StartCallFalsyIndex(c, t) ==
  /\ call[c].step = "idle"
  /\ t \in todo
  /\ todo' = todo \ {t}
  /\ call' = [call EXCEPT ![c].step = "isTransferIdSpent", ![c].id = t,
                         ![c].index = IF db[t].index = 0 THEN Absent ELSE db[t].index]
  /\ running' = running \cup {c}
  /\ UNCHANGED <<chainVars, bondVars, syncVars, emergencyDryMode, crashes>>

StartCall(c, t) ==
  /\ call[c].step = "idle"
  /\ t \in todo
  /\ todo' = todo \ {t}
  /\ call' = [call EXCEPT ![c].step = "isTransferIdSpent", ![c].id = t,
                         ![c].index = db[t].index]
  /\ running' = running \cup {c}
  /\ UNCHANGED <<chainVars, bondVars, syncVars, emergencyDryMode, crashes>>

\* p-queue stops waiting for a call after ten minutes; the call itself goes on.
CallTimesOut(c) ==
  /\ "timeout" \in Faults
  /\ c \in running
  /\ running' = running \ {c}
  /\ UNCHANGED <<chainVars, bondVars, syncVars, todo, call, emergencyDryMode, crashes>>

-----------------------------------------------------------------------------
(* BondWithdrawalWatcher: checkTransferId. *)

\* Where the call is, and what no step of it changes.
At(c, step) ==
  /\ call[c].step = step
  /\ UNCHANGED <<chainVars, populating, todo, crashes>>

CheckIsTransferIdSpent(c) ==
  LET t == call[c].id IN
  /\ At(c, "isTransferIdSpent")
  /\ \/ /\ spent[t] # "no"
        /\ Set(t, "isNotFound", TRUE)
        /\ Return(c)
     \/ /\ spent[t] = "no"
        /\ Advance(c, "gate")
        /\ UNCHANGED <<db, running>>
  /\ UNCHANGED <<bondVars, emergencyDryMode>>

\* The last look at emergencyDryMode before the transaction is sent.
PassGate(c) ==
  /\ At(c, "gate")
  /\ ~emergencyDryMode
  /\ Advance(c, "getTransaction")
  /\ UNCHANGED <<bondVars, db, running, emergencyDryMode>>

\* The recipient cannot receive, credit is short, or writes are turned off.
StopAtGate(c) ==
  LET t == call[c].id IN
  /\ At(c, "gate")
  /\ Return(c)
  /\ \/ "notReceivable" \in Faults /\ Set(t, "isBondable", FALSE)
     \/ "notEnoughCredit" \in Faults /\ Set(t, "txError", "other")
     \/ emergencyDryMode /\ UNCHANGED db
  /\ UNCHANGED <<bondVars, emergencyDryMode>>

\* The attempt is stored before the bonder fee is checked and the tx validated.
GetSourceTransaction(c) ==
  /\ At(c, "getTransaction")
  /\ Set(call[c].id, "attempted", "waiting")
  /\ \/ Advance(c, "validateDb")
     \/ "feeTooLow" \in Faults /\ Advance(c, "readBackoff")
  /\ UNCHANGED <<bondVars, running, emergencyDryMode>>

\* PossibleReorgDetected turns off the writes of the whole process.
DetectReorg(c) ==
  /\ emergencyDryMode' = TRUE
  /\ Return(c)

\* validateDbExistence and validateTransferSentIndex.
ValidateDb(c) ==
  LET t == call[c].id IN
  /\ At(c, "validateDb")
  /\ \/ /\ db[t].index = call[c].index
        /\ Advance(c, "validateUniqueness")
        /\ UNCHANGED <<running, emergencyDryMode>>
     \/ db[t].index # call[c].index /\ DetectReorg(c)
  /\ UNCHANGED <<bondVars, db>>

\* Mutant of WithSameNonce: transfers that are spent do not count.
UnspentWithSameNonce(t) ==
  {u \in Transfers : /\ TransferNonce[u] = TransferNonce[t]
                     /\ db[u].age = "week" /\ ~db[u].isTransferSpent}

\* Transfers in the db, sent within a week, that carry the nonce of t.
WithSameNonce(t) ==
  {u \in Transfers : TransferNonce[u] = TransferNonce[t] /\ db[u].age = "week"}

\* Mutant of NextCheck: the providers are asked only when there are none.
NextCheckInverted(rpcs) == IF rpcs # {} THEN "send" ELSE "validateLogs"

NextCheck(rpcs) == IF rpcs = {} THEN "send" ELSE "validateLogs"

ValidateUniqueness(c) ==
  LET matches == Cardinality(WithSameNonce(call[c].id)) IN
  /\ At(c, "validateUniqueness")
  /\ \/ /\ matches = 1
        /\ call' = [call EXCEPT ![c].step = NextCheck(RedundantRpcs),
                               ![c].rpcs = RedundantRpcs,
                               ![c].backoffIndex = db[call[c].id].backoffIndex]
        /\ UNCHANGED <<running, emergencyDryMode>>
     \/ matches # 1 /\ DetectReorg(c)
  /\ UNCHANGED <<bondVars, db>>

\* What a provider says of the event at the block and index the db recorded.
Answers(r, t, index) ==
  IF r \notin TrustedRpcs THEN RpcAnswers
  ELSE IF canonical[t] = index THEN {"match"}
  ELSE IF canonical[t] = Absent THEN {"missing"}
  ELSE {"missing", "mismatch"}

\* A provider that lacks the event is given some attempts to catch up.
OutOfSync(answer, backoffIndex) ==
  \/ answer = "behind"
  \/ answer = "missing" /\ backoffIndex <= MaxReorgCheckBackoffIndex

PossibleReorg(answer, backoffIndex) ==
  \/ answer = "mismatch"
  \/ answer = "missing" /\ backoffIndex > MaxReorgCheckBackoffIndex

\* One turn of the loop over the providers; the first that disagrees ends it.
AskRedundantRpc(c, r) ==
  LET t == call[c].id IN
  /\ At(c, "validateLogs")
  /\ r \in call[c].rpcs
  /\ \E answer \in Answers(r, t, call[c].index) :
       /\ disputed' = IF answer \in {"missing", "mismatch"}
                      THEN [disputed EXCEPT ![t] = Min2(@ + 1, MaxDisputed)]
                      ELSE disputed
       /\ \/ /\ answer \in {"down", "match"}
             /\ call' = [call EXCEPT ![c].step = NextCheck(call[c].rpcs \ {r}),
                                    ![c].rpcs = @ \ {r}]
             /\ UNCHANGED <<running, emergencyDryMode>>
          \/ /\ OutOfSync(answer, call[c].backoffIndex)
             /\ Advance(c, "readBackoff")
             /\ UNCHANGED <<running, emergencyDryMode>>
          \/ PossibleReorg(answer, call[c].backoffIndex) /\ DetectReorg(c)
  /\ UNCHANGED <<pool, sentBonds, db>>

Submit(t) ==
  /\ pool' = pool \cup {t}
  /\ sentBonds' = sentBonds \cup {t}

NotSubmitted == UNCHANGED <<pool, sentBonds>>

SendBondWithdrawal(c) ==
  LET t == call[c].id IN
  /\ At(c, "send")
  /\ Submit(t)
  /\ Return(c)
  /\ UNCHANGED <<db, emergencyDryMode, disputed>>

\* The send throws. A lost response or a "nonce too low" on a repeated send can
\* hide a transaction that did reach the destination chain.
SendThrows(c) ==
  LET t == call[c].id IN
  /\ At(c, "send")
  /\ Return(c)
  /\ \/ "blacklisted" \in Faults /\ Set(t, "isBondable", FALSE) /\ NotSubmitted
     \/ "callException" \in Faults /\ Set(t, "txError", "other") /\ NotSubmitted
     \/ "nonceTooLow" \in Faults /\ Set(t, "attempted", "no") /\ NotSubmitted
     \/ /\ {"nonceTooLow", "lostResponse"} \subseteq Faults
        /\ Set(t, "attempted", "no") /\ Submit(t)
     \/ "lostResponse" \in Faults /\ Submit(t) /\ UNCHANGED db
  /\ UNCHANGED <<emergencyDryMode, disputed>>

\* An await that fails for another reason, a source transaction that is missing or
\* a vault withdrawal that throws end the call without a trace in the db.
CallThrows(c) ==
  /\ "throws" \in Faults
  /\ \E step \in CallSteps \ {"idle"} : At(c, step)
  /\ Return(c)
  /\ UNCHANGED <<bondVars, db, emergencyDryMode>>

\* Mutant of ReadBackoffIndex: an index that was never stored is not taken for 0, and
\* to count on from it gives no number.
ReadStoredBackoffIndex(c) ==
  /\ At(c, "readBackoff")
  /\ call' = [call EXCEPT ![c].step = "writeBackoff",
                         ![c].backoffIndex = IF db[call[c].id].backoffIndex = 0 THEN Absent
                                             ELSE db[call[c].id].backoffIndex]
  /\ UNCHANGED <<bondVars, db, running, emergencyDryMode>>

ReadBackoffIndex(c) ==
  /\ At(c, "readBackoff")
  /\ call' = [call EXCEPT ![c].step = "writeBackoff",
                         ![c].backoffIndex = db[call[c].id].backoffIndex]
  /\ UNCHANGED <<bondVars, db, running, emergencyDryMode>>

\* The code's index has no limit.  Those above MaxBackoffIndex all mean "not within a
\* week", and the model lets one stand for them.
WriteBackoffIndex(c) ==
  LET t == call[c].id IN
  /\ At(c, "writeBackoff")
  /\ db' = [db EXCEPT
               ![t].txError = "backoff",
               ![t].backoffIndex = Min2(call[c].backoffIndex + 1, MaxBackoffIndex + 1)]
  /\ Return(c)
  /\ UNCHANGED <<bondVars, emergencyDryMode>>

\* The process ends and starts again with the db it left; nothing else survives.
Crash ==
  /\ crashes < MaxCrashes
  /\ crashes' = crashes + 1
  /\ populating' = [t \in Transfers |-> "idle"]
  /\ todo' = {} /\ running' = {}
  /\ call' = [c \in Calls |-> NoCall]
  /\ emergencyDryMode' = FALSE
  /\ UNCHANGED <<chainVars, bondVars, db>>

-----------------------------------------------------------------------------
Chain(t) == SendTransfer(t) \/ Reorg(t) \/ SpendElsewhere(t) \/ MineBond(t)

Sync(t) == HandleTransferSent(t) \/ HandleWithdrawalBonded(t) \/ HandleWithdrew(t)

CheckTransferId(c) ==
  \/ CheckIsTransferIdSpent(c) \/ PassGate(c) \/ StopAtGate(c)
  \/ GetSourceTransaction(c) \/ ValidateDb(c) \/ ValidateUniqueness(c)
  \/ (\E r \in RedundantRpcs : AskRedundantRpc(c, r))
  \/ SendBondWithdrawal(c) \/ SendThrows(c)
  \/ ReadBackoffIndex(c) \/ WriteBackoffIndex(c)

Next ==
  \/ \E t \in Transfers : \/ Chain(t) \/ Sync(t) \/ Populate(t) \/ PopulateFails(t)
                          \/ AgeOut(t) \/ RetryDelayElapses(t)
  \/ Poll
  \/ \E c \in Calls : \/ \E t \in Transfers : StartCall(c, t)
                      \/ CallTimesOut(c) \/ CallThrows(c) \/ CheckTransferId(c)
  \/ Crash

Spec == Init /\ [][Next]_vars

\* The loops that poll and sync never stop, nothing keeps a call or a populate step
\* from its next await, delays pass, and a transaction that was sent is mined
\* (gasboost).  A provider that keeps answering answers well infinitely often: so
\* the good outcome of a step that is tried again and again happens in the end.
Fairness ==
  /\ \A t \in Transfers :
       /\ WF_vars(Sync(t)) /\ WF_vars(StartPopulate(t))
       /\ SF_vars(PopulateTimestamp(t)) /\ SF_vars(PopulateSender(t))
       /\ SF_vars(PopulateBlocklist(t))
       /\ WF_vars(RetryDelayElapses(t)) /\ WF_vars(MineBond(t))
       /\ SF_vars(\E c \in Calls : StartCall(c, t))
  /\ WF_vars(Poll)
  /\ \A c \in Calls :
       /\ SF_vars(CheckIsTransferIdSpent(c)) /\ SF_vars(PassGate(c))
       /\ SF_vars(GetSourceTransaction(c) /\ call'[c].step = "validateDb")
       /\ SF_vars(ValidateDb(c)) /\ SF_vars(ValidateUniqueness(c))
       /\ \A r \in RedundantRpcs :
            SF_vars(AskRedundantRpc(c, r) /\ call'[c].step \in {"validateLogs", "send"})
       /\ SF_vars(SendBondWithdrawal(c))
       /\ WF_vars(CheckTransferId(c))

FairSpec == Spec /\ Fairness

-----------------------------------------------------------------------------
(* Properties. *)

\* A call that is under way works on a transfer.
CallsTyped ==
  /\ call \in [Calls -> Call]
  /\ \A c \in Calls : call[c].step # "idle" => call[c].id \in Transfers

\* Every variable stays within the values the code gives it.
TypeOK ==
  /\ canonical \in [Transfers -> Indexes \cup {Absent}]
  /\ synced \in [Transfers -> BOOLEAN]
  /\ spent \in [Transfers -> {"no", "bonded", "withdrawn"}]
  /\ pool \subseteq Transfers
  /\ db \in [Transfers -> Transfer]
  /\ populating \in [Transfers -> {"idle", "timestamp", "sender", "blocklist"}]
  /\ todo \subseteq Transfers
  /\ running \subseteq Calls
  /\ CallsTyped
  /\ emergencyDryMode \in BOOLEAN
  /\ reorgs \in 0 .. MaxReorgs
  /\ crashes \in 0 .. MaxCrashes
  /\ sentBonds \subseteq Transfers
  /\ disputed \in [Transfers -> 0 .. MaxDisputed]

\* After a reorg two transfers can carry one nonce and both be in the db.  The
\* bonder sends a bond for at most one of them while both are within the week that
\* validateUniqueness looks at, whatever the polls, syncs and restarts in between.
ConflictingTransfersNotBothBonded ==
  \A t \in sentBonds : \A u \in sentBonds \cap Conflicts(t) :
    db[t].age = "old" \/ db[u].age = "old"

\* Why: a transfer that the poll took up or a bond was sent for has a timestamp ...
Pursued(t) ==
  t \in todo \cup sentBonds \/ \E c \in Calls : call[c].step # "idle" /\ call[c].id = t
PursuedHasTimestamp ==
  \A t \in Transfers : Pursued(t) => db[t].age # "unknown"

\* ... so whoever passes validateUniqueness has been seen by every later look at the
\* week, until it is old.
Validated(t) ==
  t \in sentBonds \/ \E c \in Calls : /\ call[c].step \in {"validateLogs", "send"}
                                      /\ call[c].id = t
ConflictingNotBothValidated ==
  \A t \in Transfers : \A u \in Conflicts(t) :
    Validated(t) /\ Validated(u) => db[t].age = "old" \/ db[u].age = "old"

ConflictInv == TypeOK /\ PursuedHasTimestamp /\ ConflictingNotBothValidated

\* checkTransferSentFromDb: two calls the poll awaits never work on one transfer,
\* and none works on a transfer the poll has still to start.
PollStartsATransferOnce ==
  \A c \in running :
    /\ call[c].id \notin todo
    /\ \A d \in running \ {c} : call[d].id # call[c].id

\* Why: what the poll awaits is under way.
PollInv ==
  /\ PollStartsATransferOnce
  /\ \A c \in running : call[c].step # "idle"

\* Emergency mode stops the bonder, so it must not be entered without cause: a
\* reorg, a provider that lacks an event, or a transfer that left the week window
\* while it was being validated.
NoFalseAlarm ==
  emergencyDryMode =>
    \/ reorgs > 0
    \/ \E t \in Transfers : db[t].age = "old" \/ disputed[t] > 0

\* Why: the chain gives a nonce to one transfer, a record that the uniqueness check
\* counts has an event, and until a reorg records and calls agree with the chain.
NonceIsUnique ==
  \A t \in Transfers : \A u \in Conflicts(t) : canonical[t] = Absent \/ canonical[u] = Absent
CountedHasIndex ==
  \A t \in Transfers :
    db[t].age # "unknown" \/ populating[t] # "idle" => db[t].index # Absent
AgreesWithChain ==
  /\ \A t \in Transfers : db[t].index # Absent => canonical[t] = db[t].index
  /\ \A c \in Calls : call[c].step # "idle" => call[c].index = db[call[c].id].index

AlarmInv ==
  /\ NoFalseAlarm
  /\ NonceIsUnique
  /\ CountedHasIndex
  /\ reorgs = 0 => AgreesWithChain

\* t was reorged out for good (its nonce went to another transfer), its bond has not
\* been sent, and no call has already heard from every trusted provider.
Orphaned(t) ==
  /\ canonical[t] = Absent
  /\ \E u \in Conflicts(t) : canonical[u] # Absent
  /\ reorgs = MaxReorgs
  /\ t \notin sentBonds
  /\ \A c \in Calls : call[c].id = t =>
       /\ call[c].step # "send"
       /\ call[c].step = "validateLogs" => TrustedRpcs \subseteq call[c].rpcs

\* With one provider that stays up and serves the canonical logs, a transfer that a
\* reorg dropped before the provider was asked stays unbonded for good, whatever
\* polls, calls, syncs and restarts follow: it never stops being an orphan.
OrphanIsNeverBonded == [][\A t \in Transfers : Orphaned(t) => Orphaned(t)']_vars

\* Why: a call asks the providers for the event of a record that has an index.
IndexInv ==
  /\ \A t \in todo : db[t].index # Absent
  /\ \A c \in Calls : call[c].step # "idle" => call[c].index # Absent

GivenUp(t) == \/ ~db[t].isBondable \/ db[t].isNotFound \/ db[t].age = "old"
              \/ IsGivenUp(db[t])

\* Retries lead somewhere: a transfer of the canonical chain is spent in the end
\* (by this bonder, another one or its recipient), or the db says why not.
TransferIsSpentOrGivenUp ==
  \A t \in Transfers : canonical[t] # Absent
    ~> (spent[t] # "no" \/ GivenUp(t) \/ emergencyDryMode)
=============================================================================
