------------------------ MODULE BondWithdrawal_proofs ------------------------
(* Theorems about BondWithdrawal for every value of its constants. *)
EXTENDS BondWithdrawal, FiniteSetTheorems, TLAPS

-----------------------------------------------------------------------------
(* What the actions write into the records of the db and of the calls. *)

\* A field that Set writes keeps the record typed when the value fits the field.
LEMMA SetType ==
  ASSUME NEW t \in Transfers, db \in [Transfers -> Transfer]
  PROVE  /\ \A b \in BOOLEAN : Set(t, "isNotFound", b) => db' \in [Transfers -> Transfer]
         /\ \A b \in BOOLEAN : Set(t, "isBondable", b) => db' \in [Transfers -> Transfer]
         /\ \A b \in BOOLEAN : Set(t, "sender", b) => db' \in [Transfers -> Transfer]
         /\ \A a \in {"unknown", "week", "old"} :
              Set(t, "age", a) => db' \in [Transfers -> Transfer]
         /\ \A a \in {"no", "waiting", "elapsed"} :
              Set(t, "attempted", a) => db' \in [Transfers -> Transfer]
         /\ Set(t, "txError", "other") => db' \in [Transfers -> Transfer]
<1>1. ASSUME NEW b \in BOOLEAN, Set(t, "isNotFound", b)
      PROVE  db' \in [Transfers -> Transfer]
  BY <1>1 DEF Set, Transfer
<1>2. ASSUME NEW b \in BOOLEAN, Set(t, "isBondable", b)
      PROVE  db' \in [Transfers -> Transfer]
  BY <1>2 DEF Set, Transfer
<1>3. ASSUME NEW b \in BOOLEAN, Set(t, "sender", b)
      PROVE  db' \in [Transfers -> Transfer]
  BY <1>3 DEF Set, Transfer
<1>4. ASSUME NEW a \in {"unknown", "week", "old"}, Set(t, "age", a)
      PROVE  db' \in [Transfers -> Transfer]
  BY <1>4 DEF Set, Transfer
<1>5. ASSUME NEW a \in {"no", "waiting", "elapsed"}, Set(t, "attempted", a)
      PROVE  db' \in [Transfers -> Transfer]
  BY <1>5 DEF Set, Transfer
<1>6. ASSUME Set(t, "txError", "other")
      PROVE  db' \in [Transfers -> Transfer]
  BY <1>6 DEF Set, Transfer
<1> QED
  BY <1>1, <1>2, <1>3, <1>4, <1>5, <1>6

\* Records that a handler overwrites in several fields.
LEMMA RecordType ==
  ASSUME NEW r \in Transfer
  PROVE  /\ \A i \in Indexes \cup {Absent} :
              [r EXCEPT !.index = i, !.isBondable = TRUE] \in Transfer
         /\ [r EXCEPT !.withdrawalBonded = TRUE, !.isTransferSpent = TRUE] \in Transfer
         /\ [r EXCEPT !.isTransferSpent = TRUE, !.isBondable = FALSE] \in Transfer
         /\ \A n \in Backoffs :
              [r EXCEPT !.txError = "backoff", !.backoffIndex = n] \in Transfer
<1>1. ASSUME NEW i \in Indexes \cup {Absent}
      PROVE  [r EXCEPT !.index = i, !.isBondable = TRUE] \in Transfer
  BY DEF Transfer
<1>2. [r EXCEPT !.withdrawalBonded = TRUE, !.isTransferSpent = TRUE] \in Transfer
  BY DEF Transfer
<1>3. [r EXCEPT !.isTransferSpent = TRUE, !.isBondable = FALSE] \in Transfer
  BY DEF Transfer
<1>4. ASSUME NEW n \in Backoffs
      PROVE  [r EXCEPT !.txError = "backoff", !.backoffIndex = n] \in Transfer
  BY DEF Transfer
<1> QED
  BY <1>1, <1>2, <1>3, <1>4

\* A call that is under way works on one of the transfers.
LEMMA IdType ==
  ASSUME CallsTyped, NEW c \in Calls, call[c].step # "idle"
  PROVE  call[c].id \in Transfers
BY DEF CallsTyped

\* Replacing one call by a well-typed one keeps the calls typed.
LEMMA CallUpdate ==
  ASSUME NEW c \in Calls, CallsTyped, NEW k \in Call, k.id \in Transfers,
         call' = [call EXCEPT ![c] = k]
  PROVE  CallsTyped'
BY DEF CallsTyped

\* A call that goes on to another step stays typed.
LEMMA AdvanceType ==
  ASSUME NEW c \in Calls, CallsTyped, call[c].step # "idle",
         NEW s \in CallSteps, Advance(c, s)
  PROVE  CallsTyped'
BY DEF CallsTyped, Call, CallSteps, Advance

\* A call that returns leaves the calls and the poll typed.
LEMMA ReturnType ==
  ASSUME NEW c \in Calls, CallsTyped, Return(c)
  PROVE  CallsTyped' /\ running' = running \ {c}
BY BoundsAssumption DEF CallsTyped, Call, CallSteps, NoCall, Return, Backoffs



\* Init has the types, and every action keeps them.
LEMMA InitType == Init => TypeOK
<1> SUFFICES ASSUME Init PROVE TypeOK
  OBVIOUS
<1>1. NoRecord \in Transfer /\ NoCall \in Call
  BY BoundsAssumption DEF NoRecord, NoCall, Transfer, Call, Backoffs, CallSteps
<1>2. CallsTyped
  BY <1>1 DEF Init, CallsTyped, NoCall
<1>3. db \in [Transfers -> Transfer]
  BY <1>1 DEF Init
<1>4. /\ 0 \in 0 .. MaxReorgs /\ 0 \in 0 .. MaxCrashes
      /\ disputed \in [Transfers -> 0 .. MaxDisputed]
  BY BoundsAssumption DEF Init
<1>5. /\ canonical \in [Transfers -> Indexes \cup {Absent}]
      /\ synced \in [Transfers -> BOOLEAN]
      /\ spent \in [Transfers -> {"no", "bonded", "withdrawn"}]
      /\ populating \in [Transfers -> {"idle", "timestamp", "sender", "blocklist"}]
      /\ emergencyDryMode \in BOOLEAN
  BY DEF Init
<1> QED
  BY <1>2, <1>3, <1>4, <1>5 DEF Init, TypeOK

\* Every step keeps the types.
LEMMA TypeInductive == TypeOK /\ [Next]_vars => TypeOK'
<1> SUFFICES ASSUME TypeOK, [Next]_vars PROVE TypeOK'
  OBVIOUS
<1> USE DEF chainVars, syncVars, watcherVars, bondVars
<1>1. ASSUME NEW t \in Transfers, SendTransfer(t) PROVE TypeOK'
  BY <1>1 DEF TypeOK, SendTransfer, CallsTyped
<1>2. ASSUME NEW t \in Transfers, Reorg(t) PROVE TypeOK'
  BY <1>2, BoundsAssumption DEF TypeOK, Reorg, CallsTyped
<1>3. ASSUME NEW t \in Transfers, SpendElsewhere(t) PROVE TypeOK'
  BY <1>3 DEF TypeOK, SpendElsewhere, CallsTyped
<1>4. ASSUME NEW t \in Transfers, MineBond(t) PROVE TypeOK'
  BY <1>4 DEF TypeOK, MineBond, CallsTyped
<1>5. ASSUME NEW t \in Transfers, HandleTransferSent(t) PROVE TypeOK'
  <2>1. [db[t] EXCEPT !.index = canonical[t], !.isBondable = TRUE] \in Transfer
    BY <1>5, RecordType DEF TypeOK, HandleTransferSent
  <2>2. db' = [db EXCEPT ![t] = [db[t] EXCEPT !.index = canonical[t], !.isBondable = TRUE]]
    BY <1>5 DEF HandleTransferSent
  <2> QED
    BY <1>5, <2>1, <2>2 DEF TypeOK, CallsTyped, HandleTransferSent
<1>6. ASSUME NEW t \in Transfers, HandleWithdrawalBonded(t) PROVE TypeOK'
  <2>1. [db[t] EXCEPT !.withdrawalBonded = TRUE, !.isTransferSpent = TRUE] \in Transfer
    BY <1>6, RecordType DEF TypeOK, HandleWithdrawalBonded
  <2>2. db' = [db EXCEPT ![t] = [db[t] EXCEPT !.withdrawalBonded = TRUE, !.isTransferSpent = TRUE]]
    BY <1>6 DEF HandleWithdrawalBonded
  <2> QED
    BY <1>6, <2>1, <2>2 DEF TypeOK, CallsTyped, HandleWithdrawalBonded
<1>7. ASSUME NEW t \in Transfers, HandleWithdrew(t) PROVE TypeOK'
  <2>1. [db[t] EXCEPT !.isTransferSpent = TRUE, !.isBondable = FALSE] \in Transfer
    BY <1>7, RecordType DEF TypeOK, HandleWithdrew
  <2>2. db' = [db EXCEPT ![t] = [db[t] EXCEPT !.isTransferSpent = TRUE, !.isBondable = FALSE]]
    BY <1>7 DEF HandleWithdrew
  <2> QED
    BY <1>7, <2>1, <2>2 DEF TypeOK, CallsTyped, HandleWithdrew
<1>8. ASSUME NEW t \in Transfers, StartPopulate(t) PROVE TypeOK'
  BY <1>8, SetType DEF TypeOK, StartPopulate, CallsTyped
<1>9. ASSUME NEW t \in Transfers, PopulateTimestamp(t) PROVE TypeOK'
  BY <1>9, SetType DEF TypeOK, PopulateTimestamp, CallsTyped
<1>10. ASSUME NEW t \in Transfers, PopulateSender(t) PROVE TypeOK'
  BY <1>10, SetType DEF TypeOK, PopulateSender, CallsTyped
<1>11. ASSUME NEW t \in Transfers, PopulateBlocklist(t) PROVE TypeOK'
  BY <1>11, SetType DEF TypeOK, PopulateBlocklist, CallsTyped
<1>12. ASSUME NEW t \in Transfers, PopulateFails(t) PROVE TypeOK'
  BY <1>12 DEF TypeOK, PopulateFails, CallsTyped
<1>13. ASSUME NEW t \in Transfers, AgeOut(t) PROVE TypeOK'
  BY <1>13, SetType DEF TypeOK, AgeOut, CallsTyped
<1>14. ASSUME NEW t \in Transfers, RetryDelayElapses(t) PROVE TypeOK'
  BY <1>14, SetType DEF TypeOK, RetryDelayElapses, CallsTyped
<1>15. ASSUME NEW c \in Calls, CallTimesOut(c) PROVE TypeOK'
  BY <1>15 DEF TypeOK, CallTimesOut, CallsTyped
<1>16. ASSUME NEW c \in Calls, CheckIsTransferIdSpent(c) PROVE TypeOK'
  BY <1>16, IdType, SetType, ReturnType, AdvanceType DEF TypeOK, CheckIsTransferIdSpent, At, CallSteps
<1>17. ASSUME NEW c \in Calls, PassGate(c) PROVE TypeOK'
  BY <1>17, AdvanceType DEF TypeOK, PassGate, At, CallSteps
<1>18. ASSUME NEW c \in Calls, StopAtGate(c) PROVE TypeOK'
  BY <1>18, IdType, SetType, ReturnType DEF TypeOK, StopAtGate, At
<1>19. ASSUME NEW c \in Calls, GetSourceTransaction(c) PROVE TypeOK'
  BY <1>19, IdType, SetType, AdvanceType DEF TypeOK, GetSourceTransaction, At, CallSteps
<1>20. ASSUME NEW c \in Calls, ValidateDb(c) PROVE TypeOK'
  BY <1>20, ReturnType, AdvanceType DEF TypeOK, ValidateDb, At, CallSteps, DetectReorg
<1>21. ASSUME NEW c \in Calls, ValidateUniqueness(c) PROVE TypeOK'
  <2>1. call[c].id \in Transfers /\ db[call[c].id].backoffIndex \in Backoffs
    BY <1>21 DEF ValidateUniqueness, At, TypeOK, CallsTyped, Transfer
  <2>2. CallsTyped' /\ running' \subseteq Calls /\ emergencyDryMode' \in BOOLEAN
    <3>1. CASE DetectReorg(c)
      BY <3>1, ReturnType DEF DetectReorg, TypeOK
    <3>2. CASE ~DetectReorg(c)
      <4> DEFINE k == [call[c] EXCEPT !.step = NextCheck(RedundantRpcs),
                                      !.rpcs = RedundantRpcs,
                                      !.backoffIndex = db[call[c].id].backoffIndex]
      <4>1. k \in Call /\ k.id \in Transfers
        BY <1>21, <2>1 DEF NextCheck, TypeOK, CallsTyped, Call, CallSteps
      <4>2. call' = [call EXCEPT ![c] = k] /\ UNCHANGED <<running, emergencyDryMode>>
        BY <1>21, <3>2 DEF ValidateUniqueness
      <4> QED
        BY <4>1, <4>2, CallUpdate DEF TypeOK
    <3> QED
      BY <3>1, <3>2
  <2> QED
    BY <1>21, <2>2 DEF ValidateUniqueness, At, TypeOK
<1>22. ASSUME NEW c \in Calls, SendBondWithdrawal(c) PROVE TypeOK'
  BY <1>22, IdType, ReturnType DEF TypeOK, SendBondWithdrawal, At, Submit
<1>23. ASSUME NEW c \in Calls, SendThrows(c) PROVE TypeOK'
  BY <1>23, IdType, SetType, ReturnType DEF TypeOK, SendThrows, At, Submit, NotSubmitted
<1>24. ASSUME NEW c \in Calls, CallThrows(c) PROVE TypeOK'
  BY <1>24, ReturnType DEF TypeOK, CallThrows, At, CallSteps
<1>25. ASSUME NEW c \in Calls, ReadBackoffIndex(c) PROVE TypeOK'
  <2>1. call[c].id \in Transfers /\ db[call[c].id].backoffIndex \in Backoffs
    BY <1>25 DEF ReadBackoffIndex, At, TypeOK, CallsTyped, Transfer
  <2>2. CallsTyped'
    <3> DEFINE k == [call[c] EXCEPT !.step = "writeBackoff",
                                    !.backoffIndex = db[call[c].id].backoffIndex]
    <3>1. k \in Call /\ k.id \in Transfers
      BY <1>25, <2>1 DEF TypeOK, CallsTyped, Call, CallSteps
    <3>2. call' = [call EXCEPT ![c] = k]
      BY <1>25 DEF ReadBackoffIndex
    <3> QED
      BY <3>1, <3>2, CallUpdate DEF TypeOK
  <2> QED
    BY <1>25, <2>2 DEF ReadBackoffIndex, At, TypeOK
<1>26. ASSUME NEW c \in Calls, WriteBackoffIndex(c) PROVE TypeOK'
  <2> DEFINE t == call[c].id
             n == Min2(call[c].backoffIndex + 1, MaxBackoffIndex + 1)
             r == [db[t] EXCEPT !.txError = "backoff", !.backoffIndex = n]
  <2>1. t \in Transfers /\ n \in Backoffs
    BY <1>26, BoundsAssumption DEF WriteBackoffIndex, At, TypeOK, CallsTyped, Call, Backoffs, Min2
  <2>2. r \in Transfer
    BY <2>1, RecordType DEF TypeOK
  <2>3. db' = [db EXCEPT ![t] = r]
    BY <1>26 DEF WriteBackoffIndex
  <2> QED
    BY <1>26, <2>1, <2>2, <2>3, ReturnType DEF WriteBackoffIndex, At, TypeOK
<1>27. ASSUME NEW c \in Calls, NEW t \in Transfers, StartCall(c, t) PROVE TypeOK'
  <2>1. CallsTyped'
    <3> DEFINE k == [call[c] EXCEPT !.step = "isTransferIdSpent", !.id = t,
                                    !.index = db[t].index]
    <3>1. k \in Call /\ k.id \in Transfers
      <4>1. db[t].index \in Indexes \cup {Absent} /\ call[c] \in Call
        BY DEF TypeOK, CallsTyped, Transfer
      <4> QED
        BY <4>1 DEF Call, CallSteps
    <3>2. call' = [call EXCEPT ![c] = k]
      BY <1>27 DEF StartCall
    <3> QED
      BY <3>1, <3>2, CallUpdate DEF TypeOK
  <2> QED
    BY <1>27, <2>1 DEF StartCall, TypeOK
<1>28. ASSUME NEW c \in Calls, NEW r \in RedundantRpcs, AskRedundantRpc(c, r)
      PROVE  TypeOK'
  <2>1. disputed' \in [Transfers -> 0 .. MaxDisputed]
    <3> DEFINE t == call[c].id
    <3>1. Min2(disputed[t] + 1, MaxDisputed) \in 0 .. MaxDisputed
      BY <1>28, IdType, BoundsAssumption DEF AskRedundantRpc, At, TypeOK, Min2
    <3> QED
      BY <1>28, <3>1 DEF AskRedundantRpc, TypeOK
  <2>2. CallsTyped' /\ running' \subseteq Calls /\ emergencyDryMode' \in BOOLEAN
    <3>1. CASE DetectReorg(c)
      BY <3>1, ReturnType DEF DetectReorg, TypeOK
    <3>2. CASE Advance(c, "readBackoff") /\ UNCHANGED <<running, emergencyDryMode>>
      BY <1>28, <3>2, AdvanceType DEF AskRedundantRpc, At, CallSteps, TypeOK
    <3>3. CASE /\ call' = [call EXCEPT ![c].step = NextCheck(call[c].rpcs \ {r}),
                                      ![c].rpcs = @ \ {r}]
               /\ UNCHANGED <<running, emergencyDryMode>>
      <4> DEFINE k == [call[c] EXCEPT !.step = NextCheck(call[c].rpcs \ {r}),
                                      !.rpcs = call[c].rpcs \ {r}]
      <4>1. k \in Call /\ k.id \in Transfers
        BY <1>28 DEF AskRedundantRpc, At, NextCheck, TypeOK, CallsTyped, Call, CallSteps
      <4>2. call' = [call EXCEPT ![c] = k]
        BY <3>3
      <4> QED
        BY <3>3, <4>1, <4>2, CallUpdate DEF TypeOK
    <3> QED
      BY <1>28, <3>1, <3>2, <3>3 DEF AskRedundantRpc
  <2> QED
    BY <1>28, <2>1, <2>2 DEF AskRedundantRpc, At, TypeOK
<1>29. ASSUME Poll PROVE TypeOK'
  BY <1>29 DEF Poll, TypeOK, CallsTyped
<1>30. ASSUME Crash PROVE TypeOK'
  <2>1. NoCall \in Call
    BY BoundsAssumption DEF NoCall, Call, Backoffs, CallSteps
  <2>2. CallsTyped'
    BY <1>30, <2>1 DEF Crash, CallsTyped, NoCall
  <2>3. crashes' \in 0 .. MaxCrashes
    BY <1>30, BoundsAssumption DEF Crash, TypeOK
  <2>4. populating' \in [Transfers -> {"idle", "timestamp", "sender", "blocklist"}]
    BY <1>30 DEF Crash
  <2>5. running' \subseteq Calls /\ todo' \subseteq Transfers /\ emergencyDryMode' \in BOOLEAN
    BY <1>30 DEF Crash
  <2> QED
    BY <1>30, <2>2, <2>3, <2>4, <2>5 DEF Crash, TypeOK
<1>31. CASE UNCHANGED vars
  BY <1>31 DEF vars, TypeOK, CallsTyped
<1> QED
  BY <1>1, <1>2, <1>3, <1>4, <1>5, <1>6, <1>7, <1>8, <1>9,
     <1>10, <1>11, <1>12, <1>13, <1>14, <1>15, <1>16, <1>17, <1>18,
     <1>19, <1>20, <1>21, <1>22, <1>23, <1>24, <1>25, <1>26, <1>27,
     <1>28, <1>29, <1>30, <1>31
  DEF Next, Chain, Sync, Populate, CheckTransferId

\* The types hold in every reachable state.
THEOREM TypeCorrect == Spec => []TypeOK
BY InitType, TypeInductive, PTL DEF Spec

-----------------------------------------------------------------------------
(* Two transfers with one nonce are not both bonded within a week. *)

\* A step that keeps every age and lets no transfer be taken up or validated.
Quiet ==
  \A t \in Transfers : /\ db'[t].age = db[t].age
                       /\ Pursued(t)' => Pursued(t)
                       /\ Validated(t)' => Validated(t)

\* Set keeps the age of every record unless it writes that field.
LEMMA SetKeepsAge ==
  ASSUME NEW t \in Transfers, db \in [Transfers -> Transfer]
  PROVE  /\ \A v : Set(t, "isNotFound", v) => \A u \in Transfers : db'[u].age = db[u].age
         /\ \A v : Set(t, "isBondable", v) => \A u \in Transfers : db'[u].age = db[u].age
         /\ \A v : Set(t, "sender", v) => \A u \in Transfers : db'[u].age = db[u].age
         /\ \A v : Set(t, "attempted", v) => \A u \in Transfers : db'[u].age = db[u].age
         /\ \A v : Set(t, "txError", v) => \A u \in Transfers : db'[u].age = db[u].age
<1>1. ASSUME NEW v, NEW u \in Transfers, Set(t, "isNotFound", v)
      PROVE  db'[u].age = db[u].age
  BY <1>1 DEF Set, Transfer
<1>2. ASSUME NEW v, NEW u \in Transfers, Set(t, "isBondable", v)
      PROVE  db'[u].age = db[u].age
  BY <1>2 DEF Set, Transfer
<1>3. ASSUME NEW v, NEW u \in Transfers, Set(t, "sender", v)
      PROVE  db'[u].age = db[u].age
  BY <1>3 DEF Set, Transfer
<1>4. ASSUME NEW v, NEW u \in Transfers, Set(t, "attempted", v)
      PROVE  db'[u].age = db[u].age
  BY <1>4 DEF Set, Transfer
<1>5. ASSUME NEW v, NEW u \in Transfers, Set(t, "txError", v)
      PROVE  db'[u].age = db[u].age
  BY <1>5 DEF Set, Transfer
<1> QED
  BY <1>1, <1>2, <1>3, <1>4, <1>5

\* A call that returns or goes on to a step before validateLogs.
LEMMA ReturnIsQuiet ==
  ASSUME NEW c \in Calls, CallsTyped, Return(c), UNCHANGED <<todo, sentBonds>>
  PROVE  \A t \in Transfers : (Pursued(t)' => Pursued(t)) /\ (Validated(t)' => Validated(t))
BY DEF Return, NoCall, CallsTyped, Pursued, Validated

\* A call that submits its bond and returns pursues and validates nothing new.
LEMMA SubmitIsQuiet ==
  ASSUME NEW c \in Calls, CallsTyped, Return(c), UNCHANGED todo,
         call[c].step = "send", Submit(call[c].id)
  PROVE  \A t \in Transfers : (Pursued(t)' => Pursued(t)) /\ (Validated(t)' => Validated(t))
BY DEF Return, NoCall, CallsTyped, Submit, Pursued, Validated

\* A call that goes on to a step before validateLogs validates nothing new.
LEMMA AdvanceIsQuiet ==
  ASSUME NEW c \in Calls, CallsTyped, call[c].step # "idle", UNCHANGED <<todo, sentBonds>>,
         NEW s \in CallSteps \ {"validateLogs", "send"}, Advance(c, s)
  PROVE  \A t \in Transfers : (Pursued(t)' => Pursued(t)) /\ (Validated(t)' => Validated(t))
BY DEF Advance, CallsTyped, Call, Pursued, Validated

\* Quiet steps preserve the invariant.
LEMMA QuietStep ==
  ASSUME ConflictInv, TypeOK', Quiet
  PROVE  ConflictInv'
<1>1. PursuedHasTimestamp'
  BY DEF ConflictInv, Quiet, PursuedHasTimestamp
<1>2. ConflictingNotBothValidated'
  BY DEF ConflictInv, Quiet, ConflictingNotBothValidated, Conflicts
<1> QED
  BY <1>1, <1>2 DEF ConflictInv

\* What a quiet step leaves alone when it is not a step of a call.
LEMMA CallsUntouched ==
  ASSUME UNCHANGED <<call, sentBonds>>, todo' \subseteq todo,
         \A t \in Transfers : db'[t].age = db[t].age
  PROVE  Quiet
BY DEF Quiet, Pursued, Validated

\* Every other step preserves it too.
LEMMA ConflictInductive == ConflictInv /\ [Next]_vars => ConflictInv'
<1> SUFFICES ASSUME ConflictInv, [Next]_vars PROVE ConflictInv'
  OBVIOUS
<1>T. TypeOK /\ TypeOK' /\ CallsTyped /\ db \in [Transfers -> Transfer]
  BY TypeInductive DEF ConflictInv, TypeOK
<1> USE <1>T DEF chainVars, syncVars, watcherVars, bondVars
<1>1. ASSUME NEW t \in Transfers, SendTransfer(t) PROVE ConflictInv'
  BY <1>1, CallsUntouched, QuietStep DEF SendTransfer
<1>2. ASSUME NEW t \in Transfers, Reorg(t) PROVE ConflictInv'
  BY <1>2, CallsUntouched, QuietStep DEF Reorg
<1>3. ASSUME NEW t \in Transfers, SpendElsewhere(t) PROVE ConflictInv'
  BY <1>3, CallsUntouched, QuietStep DEF SpendElsewhere
<1>4. ASSUME NEW t \in Transfers, MineBond(t) PROVE ConflictInv'
  BY <1>4, CallsUntouched, QuietStep DEF MineBond
<1>5. ASSUME NEW t \in Transfers, HandleTransferSent(t) PROVE ConflictInv'
  <2>1. \A u \in Transfers : db'[u].age = db[u].age
    BY <1>5 DEF HandleTransferSent, Transfer
  <2> QED
    BY <1>5, <2>1, CallsUntouched, QuietStep DEF HandleTransferSent
<1>6. ASSUME NEW t \in Transfers, HandleWithdrawalBonded(t) PROVE ConflictInv'
  <2>1. \A u \in Transfers : db'[u].age = db[u].age
    BY <1>6 DEF HandleWithdrawalBonded, Transfer
  <2> QED
    BY <1>6, <2>1, CallsUntouched, QuietStep DEF HandleWithdrawalBonded
<1>7. ASSUME NEW t \in Transfers, HandleWithdrew(t) PROVE ConflictInv'
  <2>1. \A u \in Transfers : db'[u].age = db[u].age
    BY <1>7 DEF HandleWithdrew, Transfer
  <2> QED
    BY <1>7, <2>1, CallsUntouched, QuietStep DEF HandleWithdrew
<1>8. ASSUME NEW t \in Transfers, StartPopulate(t) PROVE ConflictInv'
  BY <1>8, SetKeepsAge, CallsUntouched, QuietStep DEF StartPopulate
<1>9. ASSUME NEW t \in Transfers, PopulateTimestamp(t) PROVE ConflictInv'
  <2>1. CASE Set(t, "age", "week") /\ db[t].age = "unknown"
    <3>1. db'[t].age = "week" /\ \A u \in Transfers \ {t} : db'[u].age = db[u].age
      BY <2>1 DEF Set, Transfer
    <3>2. ~Pursued(t) /\ ~Validated(t)
      BY <2>1, TransfersAssumption DEF ConflictInv, PursuedHasTimestamp, Pursued, Validated
    <3>3. UNCHANGED <<call, sentBonds, todo>>
      BY <1>9 DEF PopulateTimestamp
    <3>4. \A u \in Transfers : (Pursued(u)' <=> Pursued(u)) /\ (Validated(u)' <=> Validated(u))
      BY <3>3 DEF Pursued, Validated
    <3>5. PursuedHasTimestamp'
      BY <3>1, <3>2, <3>4 DEF ConflictInv, PursuedHasTimestamp
    <3>6. ConflictingNotBothValidated'
      BY <3>1, <3>2, <3>4 DEF ConflictInv, ConflictingNotBothValidated, Conflicts
    <3> QED
      BY <3>5, <3>6 DEF ConflictInv
  <2>2. CASE \A u \in Transfers : db'[u].age = db[u].age
    BY <1>9, <2>2, CallsUntouched, QuietStep DEF PopulateTimestamp
  <2> QED
    BY <1>9, <2>1, <2>2, SetKeepsAge DEF PopulateTimestamp
<1>10. ASSUME NEW t \in Transfers, PopulateSender(t) PROVE ConflictInv'
  BY <1>10, SetKeepsAge, CallsUntouched, QuietStep DEF PopulateSender
<1>11. ASSUME NEW t \in Transfers, PopulateBlocklist(t) PROVE ConflictInv'
  BY <1>11, SetKeepsAge, CallsUntouched, QuietStep DEF PopulateBlocklist
<1>12. ASSUME NEW t \in Transfers, PopulateFails(t) PROVE ConflictInv'
  BY <1>12, CallsUntouched, QuietStep DEF PopulateFails
<1>13. ASSUME NEW t \in Transfers, AgeOut(t) PROVE ConflictInv'
  <2>1. db'[t].age = "old" /\ \A u \in Transfers \ {t} : db'[u].age = db[u].age
    BY <1>13 DEF AgeOut, Set, Transfer
  <2>2. \A u \in Transfers : (Pursued(u)' <=> Pursued(u)) /\ (Validated(u)' <=> Validated(u))
    BY <1>13 DEF AgeOut, Pursued, Validated
  <2>3. PursuedHasTimestamp'
    BY <2>1, <2>2 DEF ConflictInv, PursuedHasTimestamp
  <2>4. ConflictingNotBothValidated'
    BY <2>1, <2>2 DEF ConflictInv, ConflictingNotBothValidated, Conflicts
  <2> QED
    BY <2>3, <2>4 DEF ConflictInv
<1>14. ASSUME NEW t \in Transfers, RetryDelayElapses(t) PROVE ConflictInv'
  BY <1>14, SetKeepsAge, CallsUntouched, QuietStep DEF RetryDelayElapses
<1>15. ASSUME NEW c \in Calls, CallTimesOut(c) PROVE ConflictInv'
  BY <1>15, CallsUntouched, QuietStep DEF CallTimesOut
<1>16. ASSUME NEW c \in Calls, CheckIsTransferIdSpent(c) PROVE ConflictInv'
  <2>1. \A u \in Transfers : db'[u].age = db[u].age
    BY <1>16, IdType, SetKeepsAge DEF CheckIsTransferIdSpent, At
  <2>2. \A u \in Transfers : (Pursued(u)' => Pursued(u)) /\ (Validated(u)' => Validated(u))
    BY <1>16, ReturnIsQuiet, AdvanceIsQuiet DEF CheckIsTransferIdSpent, At, CallSteps
  <2> QED
    BY <2>1, <2>2, QuietStep DEF Quiet
<1>17. ASSUME NEW c \in Calls, PassGate(c) PROVE ConflictInv'
  <2>1. \A u \in Transfers : db'[u].age = db[u].age
    BY <1>17, IdType, SetKeepsAge DEF PassGate, At
  <2>2. \A u \in Transfers : (Pursued(u)' => Pursued(u)) /\ (Validated(u)' => Validated(u))
    BY <1>17, AdvanceIsQuiet DEF PassGate, At, CallSteps
  <2> QED
    BY <2>1, <2>2, QuietStep DEF Quiet
<1>18. ASSUME NEW c \in Calls, StopAtGate(c) PROVE ConflictInv'
  <2>1. \A u \in Transfers : db'[u].age = db[u].age
    BY <1>18, IdType, SetKeepsAge DEF StopAtGate, At
  <2>2. \A u \in Transfers : (Pursued(u)' => Pursued(u)) /\ (Validated(u)' => Validated(u))
    BY <1>18, ReturnIsQuiet DEF StopAtGate, At, CallSteps
  <2> QED
    BY <2>1, <2>2, QuietStep DEF Quiet
<1>19. ASSUME NEW c \in Calls, GetSourceTransaction(c) PROVE ConflictInv'
  <2>1. \A u \in Transfers : db'[u].age = db[u].age
    BY <1>19, IdType, SetKeepsAge DEF GetSourceTransaction, At
  <2>2. \A u \in Transfers : (Pursued(u)' => Pursued(u)) /\ (Validated(u)' => Validated(u))
    BY <1>19, AdvanceIsQuiet DEF GetSourceTransaction, At, CallSteps
  <2> QED
    BY <2>1, <2>2, QuietStep DEF Quiet
<1>20. ASSUME NEW c \in Calls, ValidateDb(c) PROVE ConflictInv'
  <2>1. \A u \in Transfers : db'[u].age = db[u].age
    BY <1>20, IdType, SetKeepsAge DEF ValidateDb, At, DetectReorg
  <2>2. \A u \in Transfers : (Pursued(u)' => Pursued(u)) /\ (Validated(u)' => Validated(u))
    BY <1>20, ReturnIsQuiet, AdvanceIsQuiet DEF ValidateDb, At, CallSteps, DetectReorg
  <2> QED
    BY <2>1, <2>2, QuietStep DEF Quiet
<1>21. ASSUME NEW c \in Calls, ValidateUniqueness(c) PROVE ConflictInv'
  <2> DEFINE t == call[c].id
  <2>0. t \in Transfers /\ call[c].step # "idle"
    BY <1>21, IdType DEF ValidateUniqueness, At
  <2>1. UNCHANGED <<db, sentBonds, todo>>
    BY <1>21 DEF ValidateUniqueness, At
  <2>2. CASE DetectReorg(c)
    BY <2>1, <2>2, ReturnIsQuiet, QuietStep DEF DetectReorg, Quiet
  <2>3. CASE ~DetectReorg(c)
    <3>1. Cardinality(WithSameNonce(t)) = 1
      BY <1>21, <2>3 DEF ValidateUniqueness
    <3>2. \A u \in Conflicts(t) : db[u].age = "week" => db[t].age # "week"
      <4>1. IsFiniteSet(WithSameNonce(t))
        BY FS_Subset, TransfersAssumption DEF WithSameNonce
      <4>2. PICK x : WithSameNonce(t) = {x}
        BY <3>1, <4>1, FS_Singleton
      <4> QED
        BY <2>0, <4>2 DEF WithSameNonce, Conflicts
    <3>3. \A d \in Calls : /\ call'[d].id = call[d].id
                           /\ d # c => call'[d].step = call[d].step
      <4>1. call' = [call EXCEPT ![c] = [call[c] EXCEPT !.step = NextCheck(RedundantRpcs),
                                  !.rpcs = RedundantRpcs,
                                  !.backoffIndex = db[call[c].id].backoffIndex]]
        BY <1>21, <2>3 DEF ValidateUniqueness
      <4> QED
        BY <4>1 DEF CallsTyped, Call
    <3>4. \A u \in Transfers : Pursued(u)' => Pursued(u)
      BY <2>0, <2>1, <3>3 DEF Pursued
    <3>5. \A u \in Transfers : Validated(u)' => Validated(u) \/ u = t
      BY <2>0, <2>1, <3>3 DEF Validated
    <3>6. \A u \in Transfers : Validated(u) => db[u].age \in {"week", "old"}
      <4> SUFFICES ASSUME NEW u \in Transfers, Validated(u) PROVE db[u].age \in {"week", "old"}
        OBVIOUS
      <4>1. Pursued(u)
        BY DEF Validated, Pursued
      <4> QED
        BY <4>1 DEF ConflictInv, PursuedHasTimestamp, Transfer
    <3>7. Pursued(t) /\ db[t].age \in {"week", "old"}
      BY <2>0 DEF Pursued, ConflictInv, PursuedHasTimestamp, Transfer
    <3>8. PursuedHasTimestamp'
      BY <2>1, <3>4 DEF ConflictInv, PursuedHasTimestamp
    <3>9. ConflictingNotBothValidated'
      <4> SUFFICES ASSUME NEW v \in Transfers, NEW w \in Conflicts(v), Validated(v)', Validated(w)'
                   PROVE  db[v].age = "old" \/ db[w].age = "old"
        BY <2>1 DEF ConflictingNotBothValidated, Conflicts
      <4>1. w \in Transfers /\ w # v /\ v \in Conflicts(w)
        BY DEF Conflicts
      <4>2. CASE v = t
        BY <3>2, <3>5, <3>6, <3>7, <4>1, <4>2
      <4>3. CASE w = t
        BY <3>2, <3>5, <3>6, <3>7, <4>1, <4>3
      <4>4. CASE v # t /\ w # t
        BY <3>5, <4>1, <4>4 DEF ConflictInv, ConflictingNotBothValidated
      <4> QED
        BY <4>2, <4>3, <4>4
    <3> QED
      BY <3>8, <3>9 DEF ConflictInv
  <2> QED
    BY <2>2, <2>3
<1>22. ASSUME NEW c \in Calls, SendBondWithdrawal(c) PROVE ConflictInv'
  <2>1. \A u \in Transfers : db'[u].age = db[u].age
    BY <1>22, IdType, SetKeepsAge DEF SendBondWithdrawal, At
  <2>2. \A u \in Transfers : (Pursued(u)' => Pursued(u)) /\ (Validated(u)' => Validated(u))
    BY <1>22, SubmitIsQuiet DEF SendBondWithdrawal, At, CallSteps
  <2> QED
    BY <2>1, <2>2, QuietStep DEF Quiet
<1>23. ASSUME NEW c \in Calls, SendThrows(c) PROVE ConflictInv'
  <2>1. \A u \in Transfers : db'[u].age = db[u].age
    BY <1>23, IdType, SetKeepsAge DEF SendThrows, At, NotSubmitted
  <2>2. \A u \in Transfers : (Pursued(u)' => Pursued(u)) /\ (Validated(u)' => Validated(u))
    BY <1>23, ReturnIsQuiet, SubmitIsQuiet DEF SendThrows, At, CallSteps, NotSubmitted
  <2> QED
    BY <2>1, <2>2, QuietStep DEF Quiet
<1>24. ASSUME NEW c \in Calls, CallThrows(c) PROVE ConflictInv'
  <2>1. \A u \in Transfers : db'[u].age = db[u].age
    BY <1>24, IdType, SetKeepsAge DEF CallThrows, At
  <2>2. \A u \in Transfers : (Pursued(u)' => Pursued(u)) /\ (Validated(u)' => Validated(u))
    BY <1>24, ReturnIsQuiet DEF CallThrows, At, CallSteps
  <2> QED
    BY <2>1, <2>2, QuietStep DEF Quiet
<1>25. ASSUME NEW c \in Calls, ReadBackoffIndex(c) PROVE ConflictInv'
  <2>1. /\ \A d \in Calls : call'[d].id = call[d].id
        /\ \A d \in Calls \ {c} : call'[d].step = call[d].step
        /\ call[c].step = "readBackoff" /\ call'[c].step = "writeBackoff"
    BY <1>25 DEF ReadBackoffIndex, At, CallsTyped, Call
  <2>2. UNCHANGED <<db, sentBonds, todo>>
    BY <1>25 DEF ReadBackoffIndex, At
  <2> QED
    BY <2>1, <2>2, QuietStep DEF Quiet, Pursued, Validated
<1>26. ASSUME NEW c \in Calls, WriteBackoffIndex(c) PROVE ConflictInv'
  <2>1. \A u \in Transfers : db'[u].age = db[u].age
    BY <1>26 DEF WriteBackoffIndex, Transfer
  <2>2. \A u \in Transfers : (Pursued(u)' => Pursued(u)) /\ (Validated(u)' => Validated(u))
    BY <1>26, ReturnIsQuiet DEF WriteBackoffIndex, At
  <2> QED
    BY <2>1, <2>2, QuietStep DEF Quiet
<1>27. ASSUME NEW c \in Calls, NEW t \in Transfers, StartCall(c, t) PROVE ConflictInv'
  <2>1. /\ \A d \in Calls \ {c} : call'[d] = call[d]
        /\ call'[c].id = t /\ call'[c].step = "isTransferIdSpent"
    BY <1>27 DEF StartCall, CallsTyped, Call
  <2>2. t \in todo /\ todo' \subseteq todo /\ UNCHANGED <<db, sentBonds>>
    BY <1>27 DEF StartCall
  <2> QED
    BY <2>1, <2>2, QuietStep DEF Quiet, Pursued, Validated
<1>28. ASSUME NEW c \in Calls, NEW r \in RedundantRpcs, AskRedundantRpc(c, r)
      PROVE  ConflictInv'
  <2>1. UNCHANGED <<db, sentBonds, todo>> /\ call[c].step = "validateLogs"
    BY <1>28 DEF AskRedundantRpc, At
  <2>2. CASE DetectReorg(c)
    BY <2>1, <2>2, ReturnIsQuiet, QuietStep DEF DetectReorg, Quiet
  <2>3. CASE Advance(c, "readBackoff")
    BY <2>1, <2>3, AdvanceIsQuiet, QuietStep DEF Quiet, CallSteps
  <2>4. CASE call' = [call EXCEPT ![c].step = NextCheck(call[c].rpcs \ {r}),
                                 ![c].rpcs = @ \ {r}]
    <3>1. /\ \A d \in Calls : call'[d].id = call[d].id
          /\ \A d \in Calls \ {c} : call'[d].step = call[d].step
      BY <2>4 DEF CallsTyped, Call
    <3> QED
      BY <2>1, <3>1, QuietStep DEF Quiet, Pursued, Validated
  <2> QED
    BY <1>28, <2>2, <2>3, <2>4 DEF AskRedundantRpc
<1>29. ASSUME Poll PROVE ConflictInv'
  <2>1. UNCHANGED <<db, call, sentBonds>> /\ \A t \in todo' : t \in Transfers /\ db[t].age = "week"
    BY <1>29 DEF Poll, IsUnbondedSent
  <2>2. PursuedHasTimestamp'
    BY <2>1 DEF ConflictInv, PursuedHasTimestamp, Pursued
  <2>3. ConflictingNotBothValidated'
    BY <2>1 DEF ConflictInv, ConflictingNotBothValidated, Validated, Conflicts
  <2> QED
    BY <2>2, <2>3 DEF ConflictInv
<1>30. ASSUME Crash PROVE ConflictInv'
  <2>1. UNCHANGED <<db, sentBonds>> /\ todo' = {} /\ \A c \in Calls : call'[c].step = "idle"
    BY <1>30 DEF Crash, NoCall
  <2> QED
    BY <2>1, QuietStep DEF Quiet, Pursued, Validated
<1>31. CASE UNCHANGED vars
  BY <1>31, CallsUntouched, QuietStep DEF vars
<1> QED
  BY <1>1, <1>2, <1>3, <1>4, <1>5, <1>6, <1>7, <1>8, <1>9,
     <1>10, <1>11, <1>12, <1>13, <1>14, <1>15, <1>16, <1>17, <1>18,
     <1>19, <1>20, <1>21, <1>22, <1>23, <1>24, <1>25, <1>26, <1>27,
     <1>28, <1>29, <1>30, <1>31
  DEF Next, Chain, Sync, Populate, CheckTransferId

\* At most one of two transfers with one nonce is bonded while both are within the
\* week, for any number of transfers, calls, providers, reorgs and restarts.
THEOREM ConflictingNotBothBonded == Spec => []ConflictingTransfersNotBothBonded
<1>1. Init => ConflictInv
  BY InitType DEF Init, ConflictInv, PursuedHasTimestamp, ConflictingNotBothValidated,
     Pursued, Validated, NoCall
<1>2. ConflictInv => ConflictingTransfersNotBothBonded
  BY DEF ConflictInv, ConflictingNotBothValidated, ConflictingTransfersNotBothBonded,
     Validated, TypeOK, Conflicts
<1> QED
  BY <1>1, <1>2, ConflictInductive, PTL DEF Spec

-----------------------------------------------------------------------------
(* The poll works on a transfer once. *)

\* A step that awaits no further call and keeps the transfers of those it awaits.
Calm ==
  /\ todo' = todo /\ running' \subseteq running
  /\ \A c \in running' : call'[c].step # "idle" /\ call'[c].id = call[c].id

\* Calm steps preserve the invariant.
LEMMA CalmStep ==
  ASSUME PollInv, Calm
  PROVE  PollInv'
BY DEF PollInv, PollStartsATransferOnce, Calm

\* What is calm when it is not a step of a call.
LEMMA NoCallIsCalm ==
  ASSUME PollInv, todo' = todo, running' \subseteq running, UNCHANGED call
  PROVE  Calm
BY DEF PollInv, Calm

\* A step of one call: it returns, or goes on with its transfer and the index it read.
GoesOn(c, k) ==
  /\ running' = running /\ call' = [call EXCEPT ![c] = k]
  /\ k.id = call[c].id /\ k.index = call[c].index /\ k.step # "idle"
Step(c) == todo' = todo /\ (Return(c) \/ \E k : GoesOn(c, k))

\* Every step of checkTransferId is one.
LEMMA CheckIsStep ==
  ASSUME CallsTyped, NEW c \in Calls, CheckTransferId(c) \/ CallThrows(c)
  PROVE  Step(c)
<1> USE DEF At
<1>1. ASSUME NEW step \in CallSteps \ {"idle"}, Advance(c, step),
             UNCHANGED <<todo, running>>
      PROVE  Step(c)
  <2> DEFINE k == [call[c] EXCEPT !.step = step]
  <2>1. call' = [call EXCEPT ![c] = k]
    BY <1>1 DEF Advance
  <2>2. k.id = call[c].id /\ k.index = call[c].index /\ k.step # "idle"
    BY <1>1 DEF CallsTyped, Call
  <2> QED
    BY <1>1, <2>1, <2>2 DEF Step, GoesOn
<1>2. CASE CheckIsTransferIdSpent(c)
  BY <1>1, <1>2 DEF CheckIsTransferIdSpent, CallSteps, Step
<1>3. CASE PassGate(c)
  BY <1>1, <1>3 DEF PassGate, CallSteps
<1>4. CASE StopAtGate(c)
  BY <1>4 DEF StopAtGate, Step
<1>5. CASE GetSourceTransaction(c)
  BY <1>1, <1>5 DEF GetSourceTransaction, CallSteps
<1>6. CASE ValidateDb(c)
  BY <1>1, <1>6 DEF ValidateDb, DetectReorg, CallSteps, Step
<1>7. CASE ValidateUniqueness(c)
  <2>1. CASE DetectReorg(c)
    BY <1>7, <2>1 DEF ValidateUniqueness, DetectReorg, Step
  <2>2. CASE /\ UNCHANGED running
             /\ call' = [call EXCEPT ![c].step = NextCheck(RedundantRpcs),
                                    ![c].rpcs = RedundantRpcs,
                                    ![c].backoffIndex = db[call[c].id].backoffIndex]
    <3> DEFINE k == [call[c] EXCEPT !.step = NextCheck(RedundantRpcs),
                                    !.rpcs = RedundantRpcs,
                                    !.backoffIndex = db[call[c].id].backoffIndex]
    <3>1. call' = [call EXCEPT ![c] = k]
      BY <2>2
    <3>2. k.id = call[c].id /\ k.index = call[c].index /\ k.step # "idle"
      BY DEF CallsTyped, Call, NextCheck
    <3> QED
      BY <1>7, <2>2, <3>1, <3>2 DEF ValidateUniqueness, Step, GoesOn
  <2> QED
    BY <1>7, <2>1, <2>2 DEF ValidateUniqueness
<1>8. ASSUME NEW r \in RedundantRpcs, AskRedundantRpc(c, r) PROVE Step(c)
  <2>1. UNCHANGED todo
    BY <1>8 DEF AskRedundantRpc
  <2>2. CASE DetectReorg(c)
    BY <2>1, <2>2 DEF DetectReorg, Step
  <2>3. CASE Advance(c, "readBackoff") /\ UNCHANGED running
    BY <1>1, <2>1, <2>3 DEF CallSteps
  <2>4. CASE /\ UNCHANGED running
             /\ call' = [call EXCEPT ![c].step = NextCheck(call[c].rpcs \ {r}),
                                    ![c].rpcs = @ \ {r}]
    <3> DEFINE k == [call[c] EXCEPT !.step = NextCheck(call[c].rpcs \ {r}),
                                    !.rpcs = call[c].rpcs \ {r}]
    <3>1. call' = [call EXCEPT ![c] = k]
      BY <2>4 DEF CallsTyped, Call
    <3>2. k.id = call[c].id /\ k.index = call[c].index /\ k.step # "idle"
      BY DEF CallsTyped, Call, NextCheck
    <3> QED
      BY <2>1, <2>4, <3>1, <3>2 DEF Step, GoesOn
  <2> QED
    BY <1>8, <2>2, <2>3, <2>4 DEF AskRedundantRpc
<1>9. CASE SendBondWithdrawal(c)
  BY <1>9 DEF SendBondWithdrawal, Step
<1>10. CASE SendThrows(c)
  BY <1>10 DEF SendThrows, Step
<1>11. CASE ReadBackoffIndex(c)
  <2> DEFINE k == [call[c] EXCEPT !.step = "writeBackoff",
                                  !.backoffIndex = db[call[c].id].backoffIndex]
  <2>1. call' = [call EXCEPT ![c] = k] /\ UNCHANGED <<todo, running>>
    BY <1>11 DEF ReadBackoffIndex
  <2>2. k.id = call[c].id /\ k.index = call[c].index /\ k.step # "idle"
    BY DEF CallsTyped, Call
  <2> QED
    BY <2>1, <2>2 DEF Step, GoesOn
<1>12. CASE WriteBackoffIndex(c)
  BY <1>12 DEF WriteBackoffIndex, Step
<1>13. CASE CallThrows(c)
  BY <1>13 DEF CallThrows, Step
<1> QED
  BY <1>2, <1>3, <1>4, <1>5, <1>6, <1>7, <1>8, <1>9, <1>10, <1>11, <1>12, <1>13
  DEF CheckTransferId

\* Steps of a call are calm.
LEMMA StepIsCalm ==
  ASSUME PollInv, CallsTyped, running \subseteq Calls, NEW c \in Calls, Step(c)
  PROVE  Calm
BY DEF PollInv, CallsTyped, Calm, Step, GoesOn, Return

\* Every step preserves the invariant.
LEMMA PollInductive == TypeOK /\ PollInv /\ [Next]_vars => PollInv'
<1> SUFFICES ASSUME TypeOK, PollInv, [Next]_vars PROVE PollInv'
  OBVIOUS
<1>T. CallsTyped /\ running \subseteq Calls /\ todo \subseteq Transfers
  BY DEF TypeOK
<1> USE DEF chainVars, syncVars, watcherVars, bondVars
<1>1. ASSUME NEW t \in Transfers, Chain(t) PROVE UNCHANGED <<todo, running, call>>
  BY <1>1 DEF Chain, SendTransfer, Reorg, SpendElsewhere, MineBond
<1>2. ASSUME NEW t \in Transfers, Sync(t) PROVE UNCHANGED <<todo, running, call>>
  BY <1>2 DEF Sync, HandleTransferSent, HandleWithdrawalBonded, HandleWithdrew
<1>3. ASSUME NEW t \in Transfers, Populate(t) \/ PopulateFails(t)
      PROVE  UNCHANGED <<todo, running, call>>
  BY <1>3 DEF Populate, StartPopulate, PopulateTimestamp, PopulateSender,
              PopulateBlocklist, PopulateFails
<1>4. ASSUME NEW t \in Transfers, AgeOut(t) \/ RetryDelayElapses(t)
      PROVE  UNCHANGED <<todo, running, call>>
  BY <1>4 DEF AgeOut, RetryDelayElapses
<1>5. ASSUME UNCHANGED <<todo, running, call>> PROVE PollInv'
  BY <1>5, NoCallIsCalm, CalmStep
<1>6. CASE Poll
  BY <1>6 DEF Poll, PollInv, PollStartsATransferOnce
<1>7. ASSUME NEW c \in Calls, NEW t \in Transfers, StartCall(c, t) PROVE PollInv'
  <2>1. c \notin running /\ t \in todo /\ todo' = todo \ {t} /\ running' = running \cup {c}
    BY <1>7 DEF StartCall, PollInv
  <2>2. call'[c].step # "idle" /\ call'[c].id = t
    BY <1>7, <1>T DEF StartCall, CallsTyped, Call
  <2>3. \A d \in running : call'[d] = call[d]
    BY <1>7, <1>T, <2>1 DEF StartCall, CallsTyped
  <2> QED
    BY <2>1, <2>2, <2>3 DEF PollInv, PollStartsATransferOnce
<1>8. ASSUME NEW c \in Calls, CallTimesOut(c) PROVE PollInv'
  BY <1>8, NoCallIsCalm, CalmStep DEF CallTimesOut
<1>9. ASSUME NEW c \in Calls, CallThrows(c) \/ CheckTransferId(c) PROVE PollInv'
  BY <1>9, <1>T, CheckIsStep, StepIsCalm, CalmStep
<1>10. CASE Crash
  BY <1>10 DEF Crash, PollInv, PollStartsATransferOnce
<1>11. CASE UNCHANGED vars
  BY <1>5, <1>11 DEF vars
<1> QED
  BY <1>1, <1>2, <1>3, <1>4, <1>5, <1>6, <1>7, <1>8, <1>9, <1>10, <1>11 DEF Next

\* Two calls a poll awaits never work on one transfer, nor on one it has still to
\* start, for any number of transfers and calls, and with calls that outlive polls.
THEOREM PollStartsOnce == Spec => []PollStartsATransferOnce
<1>1. Init => PollInv
  BY DEF Init, PollInv, PollStartsATransferOnce
<1>2. PollInv => PollStartsATransferOnce
  BY DEF PollInv
<1> QED
  BY <1>1, <1>2, InitType, TypeInductive, PollInductive, PTL DEF Spec

-----------------------------------------------------------------------------
(* A transfer that a reorg dropped for good stays unbonded. *)

\* No handler takes the index out of a record.
KeepsIndexes == \A t \in Transfers : db[t].index # Absent => db'[t].index # Absent

\* Set keeps the index of every record when it writes another field.
LEMMA SetKeepsIndex ==
  ASSUME NEW t \in Transfers, db \in [Transfers -> Transfer]
  PROVE  \A field \in {"isNotFound", "isBondable", "sender", "attempted", "txError", "age"} :
           \A v : Set(t, field, v) => KeepsIndexes
BY DEF Set, Transfer, KeepsIndexes

\* Every step keeps the indexes of the records.
LEMMA IndexesKept == TypeOK /\ [Next]_vars => KeepsIndexes
<1> SUFFICES ASSUME TypeOK, [Next]_vars PROVE KeepsIndexes
  OBVIOUS
<1>T. CallsTyped /\ db \in [Transfers -> Transfer] /\ canonical \in [Transfers -> Indexes \cup {Absent}]
  BY DEF TypeOK
<1> USE DEF chainVars, syncVars, watcherVars, bondVars, At
<1>1. ASSUME UNCHANGED db PROVE KeepsIndexes
  BY <1>1 DEF KeepsIndexes
<1>2. ASSUME NEW t \in Transfers, Chain(t) PROVE KeepsIndexes
  BY <1>1, <1>2 DEF Chain, SendTransfer, Reorg, SpendElsewhere, MineBond
<1>3. ASSUME NEW t \in Transfers, HandleTransferSent(t) PROVE KeepsIndexes
  BY <1>3, <1>T, TransfersAssumption DEF HandleTransferSent, KeepsIndexes, Transfer
<1>4. ASSUME NEW t \in Transfers, HandleWithdrawalBonded(t) \/ HandleWithdrew(t)
      PROVE  KeepsIndexes
  BY <1>4, <1>T DEF HandleWithdrawalBonded, HandleWithdrew, KeepsIndexes, Transfer
<1>5. ASSUME NEW t \in Transfers, Populate(t) \/ PopulateFails(t) PROVE KeepsIndexes
  BY <1>1, <1>5, <1>T, SetKeepsIndex
  DEF Populate, StartPopulate, PopulateTimestamp, PopulateSender, PopulateBlocklist,
      PopulateFails
<1>6. ASSUME NEW t \in Transfers, AgeOut(t) \/ RetryDelayElapses(t) PROVE KeepsIndexes
  BY <1>6, <1>T, SetKeepsIndex DEF AgeOut, RetryDelayElapses
<1>7. CASE Poll \/ Crash \/ UNCHANGED vars
  BY <1>1, <1>7 DEF Poll, Crash, vars
<1>8. ASSUME NEW c \in Calls,
             CallTimesOut(c) \/ CallThrows(c) \/ \E t \in Transfers : StartCall(c, t)
      PROVE  KeepsIndexes
  BY <1>1, <1>8 DEF CallTimesOut, CallThrows, StartCall
<1>9. ASSUME NEW c \in Calls, CheckTransferId(c) PROVE KeepsIndexes
  <2> DEFINE t == call[c].id
  <2>1. call[c].step # "idle" => t \in Transfers
    BY <1>T, IdType
  <2>2. CASE CheckIsTransferIdSpent(c) \/ StopAtGate(c)
    BY <1>1, <2>1, <2>2, <1>T, SetKeepsIndex DEF CheckIsTransferIdSpent, StopAtGate
  <2>3. CASE GetSourceTransaction(c) \/ SendThrows(c)
    BY <1>1, <2>1, <2>3, <1>T, SetKeepsIndex DEF GetSourceTransaction, SendThrows
  <2>4. CASE WriteBackoffIndex(c)
    BY <2>1, <2>4, <1>T DEF WriteBackoffIndex, KeepsIndexes, Transfer
  <2>5. CASE PassGate(c) \/ ValidateDb(c) \/ ValidateUniqueness(c)
    BY <1>1, <2>5 DEF PassGate, ValidateDb, ValidateUniqueness
  <2>6. CASE \E r \in RedundantRpcs : AskRedundantRpc(c, r)
    BY <1>1, <2>6 DEF AskRedundantRpc
  <2>7. CASE SendBondWithdrawal(c) \/ ReadBackoffIndex(c)
    BY <1>1, <2>7 DEF SendBondWithdrawal, ReadBackoffIndex
  <2> QED
    BY <1>9, <2>2, <2>3, <2>4, <2>5, <2>6, <2>7 DEF CheckTransferId
<1> QED
  BY <1>2, <1>3, <1>4, <1>5, <1>6, <1>7, <1>8, <1>9 DEF Next, Sync

\* What the poll takes up, and what a call has read, has an index.
LEMMA IndexInductive == TypeOK /\ IndexInv /\ [Next]_vars => IndexInv'
<1> SUFFICES ASSUME TypeOK, IndexInv, [Next]_vars PROVE IndexInv'
  OBVIOUS
<1>T. CallsTyped /\ KeepsIndexes /\ todo \subseteq Transfers
  BY IndexesKept DEF TypeOK
<1> USE DEF chainVars, syncVars, watcherVars, bondVars
<1>1. ASSUME UNCHANGED <<todo, call>> PROVE IndexInv'
  BY <1>1, <1>T DEF IndexInv, KeepsIndexes
<1>2. ASSUME NEW t \in Transfers, Chain(t) \/ Sync(t) \/ AgeOut(t) \/ RetryDelayElapses(t)
      PROVE  IndexInv'
  BY <1>1, <1>2 DEF Chain, SendTransfer, Reorg, SpendElsewhere, MineBond, Sync,
    HandleTransferSent, HandleWithdrawalBonded, HandleWithdrew, AgeOut, RetryDelayElapses
<1>3. ASSUME NEW t \in Transfers, Populate(t) \/ PopulateFails(t) PROVE IndexInv'
  BY <1>1, <1>3 DEF Populate, StartPopulate, PopulateTimestamp, PopulateSender,
                    PopulateBlocklist, PopulateFails
<1>4. CASE Poll
  BY <1>4 DEF Poll, IndexInv, IsUnbondedSent
<1>5. ASSUME NEW c \in Calls, NEW t \in Transfers, StartCall(c, t) PROVE IndexInv'
  BY <1>5, <1>T DEF StartCall, IndexInv, CallsTyped, Call
<1>6. ASSUME NEW c \in Calls, CallTimesOut(c) PROVE IndexInv'
  BY <1>1, <1>6 DEF CallTimesOut
<1>7. ASSUME NEW c \in Calls, CallThrows(c) \/ CheckTransferId(c) PROVE IndexInv'
  <2>1. call[c].step # "idle"
    BY <1>7 DEF CallThrows, CheckTransferId, At, CheckIsTransferIdSpent, PassGate,
      StopAtGate, GetSourceTransaction, ValidateDb, ValidateUniqueness, AskRedundantRpc,
      SendBondWithdrawal, SendThrows, ReadBackoffIndex, WriteBackoffIndex
  <2>2. \A d \in Calls : call'[d].step # "idle" => /\ call[d].step # "idle"
                                                  /\ call'[d].index = call[d].index
    BY <1>7, <1>T, <2>1, CheckIsStep DEF Step, GoesOn, Return, NoCall, CallsTyped
  <2>3. todo' = todo
    BY <1>7, <1>T, CheckIsStep DEF Step
  <2> QED
    BY <1>T, <2>2, <2>3 DEF IndexInv, KeepsIndexes
<1>8. CASE Crash
  BY <1>8 DEF Crash, IndexInv, NoCall
<1>9. CASE UNCHANGED vars
  BY <1>1, <1>9 DEF vars
<1> QED
  BY <1>2, <1>3, <1>4, <1>5, <1>6, <1>7, <1>8, <1>9 DEF Next

\* A call on t has not heard from every trusted provider.
NotAsked(c, t) ==
  call[c].id = t => /\ call[c].step # "send"
                    /\ call[c].step = "validateLogs" => TrustedRpcs \subseteq call[c].rpcs

\* A call never hears from a trusted provider that the event of t is there.
LEMMA NotAskedKept ==
  ASSUME TypeOK, IndexInv, TrustedRpcs # {}, NEW t \in Transfers, canonical[t] = Absent,
         NEW c \in Calls, CheckTransferId(c) \/ CallThrows(c), NotAsked(c, t)
  PROVE  NotAsked(c, t)' /\ (t \in sentBonds' => t \in sentBonds)
<1>T. CallsTyped /\ TrustedRpcs \subseteq RedundantRpcs
  BY TransfersAssumption DEF TypeOK
<1> USE DEF At, bondVars
<1>1. ASSUME Return(c) PROVE NotAsked(c, t)'
  BY <1>1, <1>T DEF Return, NoCall, CallsTyped, NotAsked
<1>2. ASSUME NEW step \in CallSteps \ {"validateLogs", "send"}, Advance(c, step)
      PROVE  NotAsked(c, t)'
  BY <1>2, <1>T DEF Advance, CallsTyped, Call, NotAsked
<1>3. CASE \/ CheckIsTransferIdSpent(c) \/ PassGate(c) \/ StopAtGate(c)
           \/ GetSourceTransaction(c) \/ ValidateDb(c)
  BY <1>1, <1>2, <1>3 DEF CheckIsTransferIdSpent, PassGate, StopAtGate,
    GetSourceTransaction, ValidateDb, DetectReorg, CallSteps
<1>4. CASE ValidateUniqueness(c)
  <2>1. CASE DetectReorg(c)
    BY <1>1, <1>4, <2>1 DEF DetectReorg, ValidateUniqueness
  <2>2. CASE call' = [call EXCEPT ![c].step = NextCheck(RedundantRpcs),
                                  ![c].rpcs = RedundantRpcs,
                                  ![c].backoffIndex = db[call[c].id].backoffIndex]
    <3>1. call'[c].step = "validateLogs" /\ call'[c].rpcs = RedundantRpcs
      BY <1>T, <2>2 DEF CallsTyped, Call, NextCheck
    <3> QED
      BY <1>T, <1>4, <3>1 DEF NotAsked, ValidateUniqueness
  <2> QED
    BY <1>4, <2>1, <2>2 DEF ValidateUniqueness
<1>5. ASSUME NEW r \in RedundantRpcs, AskRedundantRpc(c, r)
      PROVE  NotAsked(c, t)' /\ UNCHANGED sentBonds
  <2>1. UNCHANGED sentBonds
    BY <1>5 DEF AskRedundantRpc
  <2>2. CASE DetectReorg(c) \/ Advance(c, "readBackoff")
    BY <1>1, <1>2, <2>1, <2>2 DEF DetectReorg, CallSteps
  <2>3. ASSUME NEW answer \in Answers(r, call[c].id, call[c].index),
               answer \in {"down", "match"},
               call' = [call EXCEPT ![c].step = NextCheck(call[c].rpcs \ {r}),
                                    ![c].rpcs = @ \ {r}]
        PROVE  NotAsked(c, t)'
    <3>1. call'[c].id = call[c].id /\ call'[c].rpcs = call[c].rpcs \ {r}
          /\ call'[c].step = NextCheck(call[c].rpcs \ {r})
      BY <1>T, <2>3 DEF CallsTyped, Call
    <3>2. CASE call[c].id # t
      BY <3>1, <3>2 DEF NotAsked
    <3>3. CASE call[c].id = t
      <4>1. call[c].step = "validateLogs" /\ call[c].index # Absent
        BY <1>5 DEF AskRedundantRpc, IndexInv
      <4>2. r \notin TrustedRpcs
        BY <2>3, <3>3, <4>1 DEF Answers
      <4>3. TrustedRpcs \subseteq call[c].rpcs \ {r}
        BY <3>3, <4>1, <4>2 DEF NotAsked
      <4> QED
        BY <3>1, <4>3 DEF NotAsked, NextCheck
    <3> QED
      BY <3>2, <3>3
  <2> QED
    BY <1>5, <2>1, <2>2, <2>3 DEF AskRedundantRpc
<1>6. CASE SendBondWithdrawal(c) \/ SendThrows(c)
  <2>1. call[c].step = "send" /\ call[c].id # t
    BY <1>6 DEF SendBondWithdrawal, SendThrows, NotAsked
  <2>2. Return(c) /\ sentBonds' \subseteq sentBonds \cup {call[c].id}
    BY <1>6 DEF SendBondWithdrawal, SendThrows, Submit, NotSubmitted
  <2> QED
    BY <1>1, <2>1, <2>2
<1>7. CASE ReadBackoffIndex(c)
  <2>1. call'[c].step = "writeBackoff" /\ UNCHANGED sentBonds
    BY <1>7, <1>T DEF ReadBackoffIndex, CallsTyped, Call
  <2> QED
    BY <2>1 DEF NotAsked
<1>8. CASE WriteBackoffIndex(c) \/ CallThrows(c)
  BY <1>1, <1>8 DEF WriteBackoffIndex, CallThrows
<1> QED
  BY <1>3, <1>4, <1>5, <1>6, <1>7, <1>8 DEF CheckTransferId

\* A step that leaves the calls on t and its bond alone keeps an orphan one.
LEMMA OrphanKept ==
  ASSUME NEW t \in Transfers, Orphaned(t), UNCHANGED <<canonical, reorgs>>,
         t \notin sentBonds', \A c \in Calls : NotAsked(c, t)'
  PROVE  Orphaned(t)'
BY DEF Orphaned, NotAsked, Conflicts

\* No step makes an orphan anything else.
LEMMA OrphanStep ==
  TrustedRpcs # {} /\ TypeOK /\ IndexInv /\ [Next]_vars
    => \A t \in Transfers : Orphaned(t) => Orphaned(t)'
<1> SUFFICES ASSUME TrustedRpcs # {}, TypeOK, IndexInv, [Next]_vars,
                    NEW t \in Transfers, Orphaned(t)
             PROVE  Orphaned(t)'
  OBVIOUS
<1>T. CallsTyped
  BY DEF TypeOK
<1>O. /\ canonical[t] = Absent /\ t \notin sentBonds
      /\ \A c \in Calls : NotAsked(c, t)
  BY DEF Orphaned, NotAsked
<1> USE DEF chainVars, syncVars, watcherVars, bondVars
<1>1. ASSUME UNCHANGED <<canonical, reorgs, sentBonds, call>> PROVE Orphaned(t)'
  BY <1>1, <1>O, OrphanKept DEF NotAsked
<1>2. ASSUME NEW u \in Transfers, SendTransfer(u) PROVE Orphaned(t)'
  <2>1. PICK w \in Conflicts(t) : canonical[w] # Absent
    BY DEF Orphaned
  <2>2. u # t /\ u # w
    BY <1>2, <2>1 DEF SendTransfer, Conflicts
  <2>3. canonical'[t] = Absent /\ canonical'[w] # Absent
    BY <1>2, <1>O, <2>1, <2>2 DEF SendTransfer, TypeOK, Conflicts
  <2>4. UNCHANGED <<reorgs, sentBonds, call>>
    BY <1>2 DEF SendTransfer
  <2> QED
    BY <2>1, <2>3, <2>4 DEF Orphaned, Conflicts
<1>3. ASSUME NEW u \in Transfers, Reorg(u) PROVE Orphaned(t)'
  BY <1>3, BoundsAssumption DEF Reorg, Orphaned
<1>4. ASSUME NEW u \in Transfers, SpendElsewhere(u) \/ MineBond(u) \/ Sync(u)
      PROVE  Orphaned(t)'
  BY <1>1, <1>4 DEF SpendElsewhere, MineBond, Sync, HandleTransferSent,
    HandleWithdrawalBonded, HandleWithdrew
<1>5. ASSUME NEW u \in Transfers,
             Populate(u) \/ PopulateFails(u) \/ AgeOut(u) \/ RetryDelayElapses(u)
      PROVE  Orphaned(t)'
  BY <1>1, <1>5 DEF Populate, StartPopulate, PopulateTimestamp, PopulateSender,
    PopulateBlocklist, PopulateFails, AgeOut, RetryDelayElapses
<1>6. CASE Poll \/ UNCHANGED vars
  BY <1>1, <1>6 DEF Poll, vars
<1>7. ASSUME NEW c \in Calls, CallTimesOut(c) PROVE Orphaned(t)'
  BY <1>1, <1>7 DEF CallTimesOut
<1>8. ASSUME NEW c \in Calls, NEW u \in Transfers, StartCall(c, u) PROVE Orphaned(t)'
  <2>1. UNCHANGED <<canonical, reorgs, sentBonds>>
    BY <1>8 DEF StartCall
  <2>2. call'[c].step = "isTransferIdSpent" /\ \A d \in Calls \ {c} : call'[d] = call[d]
    BY <1>8, <1>T DEF StartCall, CallsTyped, Call
  <2>3. \A d \in Calls : NotAsked(d, t)'
    BY <1>O, <2>2 DEF NotAsked
  <2> QED
    BY <1>O, <2>1, <2>3, OrphanKept
<1>9. ASSUME NEW c \in Calls, CallThrows(c) \/ CheckTransferId(c) PROVE Orphaned(t)'
  <2>1. UNCHANGED <<canonical, reorgs>>
    BY <1>9 DEF CallThrows, CheckTransferId, At, CheckIsTransferIdSpent, PassGate,
      StopAtGate, GetSourceTransaction, ValidateDb, ValidateUniqueness, AskRedundantRpc,
      SendBondWithdrawal, SendThrows, ReadBackoffIndex, WriteBackoffIndex
  <2>2. NotAsked(c, t)' /\ t \notin sentBonds'
    BY <1>9, <1>O, NotAskedKept
  <2>3. \A d \in Calls \ {c} : call'[d] = call[d]
    BY <1>9, <1>T, CheckIsStep DEF Step, GoesOn, Return, CallsTyped
  <2>4. \A d \in Calls : NotAsked(d, t)'
    BY <1>O, <2>2, <2>3 DEF NotAsked
  <2> QED
    BY <2>1, <2>2, <2>4, OrphanKept
<1>10. CASE Crash
  <2>1. UNCHANGED <<canonical, reorgs, sentBonds>> /\ \A c \in Calls : call'[c].step = "idle"
    BY <1>10 DEF Crash, NoCall
  <2> QED
    BY <1>O, <2>1, OrphanKept DEF NotAsked
<1> QED
  BY <1>2, <1>3, <1>4, <1>5, <1>6, <1>7, <1>8, <1>9, <1>10 DEF Next, Chain

\* With a provider that stays up and serves the canonical logs, a transfer that a reorg
\* dropped before the provider was asked is never bonded, for any number of transfers,
\* calls, other providers, reorgs and restarts.
THEOREM OrphanNeverBonded == TrustedRpcs # {} => (Spec => OrphanIsNeverBonded)
<1> SUFFICES ASSUME TrustedRpcs # {} PROVE Spec => OrphanIsNeverBonded
  OBVIOUS
<1>1. Init => TypeOK /\ IndexInv
  BY InitType DEF Init, IndexInv, NoCall
<1>2. TypeOK /\ IndexInv /\ [Next]_vars => TypeOK' /\ IndexInv'
  BY TypeInductive, IndexInductive
<1>3. TypeOK /\ IndexInv /\ [Next]_vars
        => [\A t \in Transfers : Orphaned(t) => Orphaned(t)']_vars
  BY OrphanStep
<1> QED
  BY <1>1, <1>2, <1>3, PTL DEF Spec, OrphanIsNeverBonded

-----------------------------------------------------------------------------
(* Emergency mode has a cause. *)

\* What a step may do to the record of t: the handler of TransferSent stores the index of
\* the chain, a timestamp is stored by the populate poll, which starts with an index, and
\* an old transfer stays old.
RecordKept(t) ==
  /\ \/ db'[t].index = db[t].index
     \/ canonical[t] # Absent /\ db'[t].index = canonical[t] /\ UNCHANGED call
  /\ db[t].age = "unknown" /\ db'[t].age # "unknown" => populating[t] # "idle"
  /\ populating[t] = "idle" /\ populating'[t] # "idle" => db[t].index # Absent
  /\ db[t].age = "old" => db'[t].age = "old"

\* Set keeps the index and the age of every record when it writes another field.
LEMMA SetKeepsIndexAndAge ==
  ASSUME NEW t \in Transfers, db \in [Transfers -> Transfer],
         NEW field \in {"isNotFound", "isBondable", "sender", "attempted", "txError"}, NEW v,
         Set(t, field, v)
  PROVE  \A u \in Transfers : db'[u].index = db[u].index /\ db'[u].age = db[u].age
BY DEF Set, Transfer

\* Every step does no more.
LEMMA RecordsKept == TypeOK /\ [Next]_vars => \A t \in Transfers : RecordKept(t)
<1> SUFFICES ASSUME TypeOK, [Next]_vars PROVE \A t \in Transfers : RecordKept(t)
  OBVIOUS
<1> DEFINE Goal == \A t \in Transfers : RecordKept(t)
<1>T. /\ CallsTyped /\ db \in [Transfers -> Transfer]
      /\ canonical \in [Transfers -> Indexes \cup {Absent}]
      /\ populating \in [Transfers -> {"idle", "timestamp", "sender", "blocklist"}]
  BY DEF TypeOK
<1> USE DEF chainVars, syncVars, watcherVars, bondVars, At
<1>1. ASSUME UNCHANGED db, \A t \in Transfers : populating'[t] \in {"idle", populating[t]}
      PROVE  Goal
  BY <1>1 DEF RecordKept
<1>2. ASSUME \A t \in Transfers : db'[t].index = db[t].index /\ db'[t].age = db[t].age,
             UNCHANGED populating
      PROVE  Goal
  BY <1>2 DEF RecordKept
<1>3. ASSUME NEW t \in Transfers, Chain(t) \/ PopulateFails(t) PROVE Goal
  BY <1>1, <1>3, <1>T DEF Chain, SendTransfer, Reorg, SpendElsewhere, MineBond, PopulateFails
<1>4. ASSUME NEW t \in Transfers, HandleTransferSent(t) PROVE Goal
  BY <1>4, <1>T DEF HandleTransferSent, RecordKept, Transfer
<1>5. ASSUME NEW t \in Transfers, HandleWithdrawalBonded(t) \/ HandleWithdrew(t) PROVE Goal
  BY <1>2, <1>5, <1>T DEF HandleWithdrawalBonded, HandleWithdrew, Transfer
<1>6. ASSUME NEW t \in Transfers, StartPopulate(t) PROVE Goal
  <2>1. CASE Set(t, "isNotFound", TRUE) /\ UNCHANGED populating
    BY <1>2, <1>T, <2>1, SetKeepsIndexAndAge
  <2>2. CASE /\ db[t].index # Absent /\ UNCHANGED db
             /\ populating' = [populating EXCEPT ![t] = "timestamp"]
    BY <1>T, <2>2 DEF RecordKept
  <2> QED
    BY <1>6, <2>1, <2>2 DEF StartPopulate
<1>7. ASSUME NEW t \in Transfers,
             PopulateTimestamp(t) \/ PopulateSender(t) \/ PopulateBlocklist(t)
      PROVE  Goal
  <2>1. populating[t] # "idle" /\ \A u \in Transfers \ {t} : populating'[u] = populating[u]
    BY <1>7, <1>T DEF PopulateTimestamp, PopulateSender, PopulateBlocklist
  <2>2. ASSUME \A u \in Transfers : db'[u].index = db[u].index /\ db'[u].age = db[u].age
        PROVE  Goal
    BY <2>1, <2>2 DEF RecordKept
  <2>3. CASE db[t].age = "unknown" /\ Set(t, "age", "week")
    BY <1>T, <2>1, <2>3 DEF Set, Transfer, RecordKept
  <2>4. CASE UNCHANGED db \/ Set(t, "isNotFound", TRUE) \/ Set(t, "sender", TRUE)
              \/ Set(t, "isBondable", FALSE)
    BY <1>T, <2>2, <2>4, SetKeepsIndexAndAge
  <2> QED
    BY <1>7, <2>3, <2>4 DEF PopulateTimestamp, PopulateSender, PopulateBlocklist
<1>8. ASSUME NEW t \in Transfers, AgeOut(t) PROVE Goal
  BY <1>8, <1>T DEF AgeOut, Set, Transfer, RecordKept
<1>9. ASSUME NEW t \in Transfers, RetryDelayElapses(t) PROVE Goal
  BY <1>2, <1>9, <1>T, SetKeepsIndexAndAge DEF RetryDelayElapses
<1>10. CASE Poll \/ Crash \/ UNCHANGED vars
  BY <1>1, <1>10, <1>T DEF Poll, Crash, vars
<1>11. ASSUME NEW c \in Calls,
              CallTimesOut(c) \/ CallThrows(c) \/ \E t \in Transfers : StartCall(c, t)
       PROVE  Goal
  BY <1>1, <1>11 DEF CallTimesOut, CallThrows, StartCall
<1>12. ASSUME NEW c \in Calls, CheckTransferId(c) PROVE Goal
  <2> DEFINE t == call[c].id
  <2>1. call[c].step # "idle" => t \in Transfers
    BY <1>T, IdType
  <2>2. CASE CheckIsTransferIdSpent(c) \/ StopAtGate(c)
    BY <1>1, <1>2, <2>1, <2>2, <1>T, SetKeepsIndexAndAge DEF CheckIsTransferIdSpent, StopAtGate
  <2>3. CASE GetSourceTransaction(c) \/ SendThrows(c)
    BY <1>1, <1>2, <2>1, <2>3, <1>T, SetKeepsIndexAndAge DEF GetSourceTransaction, SendThrows
  <2>4. CASE WriteBackoffIndex(c)
    BY <1>2, <2>1, <2>4, <1>T DEF WriteBackoffIndex, Transfer
  <2>5. CASE PassGate(c) \/ ValidateDb(c) \/ ValidateUniqueness(c)
    BY <1>1, <2>5 DEF PassGate, ValidateDb, ValidateUniqueness
  <2>6. CASE \E r \in RedundantRpcs : AskRedundantRpc(c, r)
    BY <1>1, <2>6 DEF AskRedundantRpc
  <2>7. CASE SendBondWithdrawal(c) \/ ReadBackoffIndex(c)
    BY <1>1, <2>7 DEF SendBondWithdrawal, ReadBackoffIndex
  <2> QED
    BY <1>12, <2>2, <2>3, <2>4, <2>5, <2>6, <2>7 DEF CheckTransferId
<1> QED
  BY <1>3, <1>4, <1>5, <1>6, <1>7, <1>8, <1>9, <1>10, <1>11, <1>12 DEF Next, Sync, Populate

\* What a step may do to the chain: only a reorg takes an event away, and reorgs count.
LEMMA ChainKept ==
  ASSUME TypeOK, NonceIsUnique, [Next]_vars
  PROVE  /\ reorgs' >= reorgs
         /\ reorgs' = reorgs =>
              \A t \in Transfers : canonical[t] # Absent => canonical'[t] = canonical[t]
         /\ NonceIsUnique'
<1>T. canonical \in [Transfers -> Indexes \cup {Absent}] /\ reorgs \in Nat
  BY BoundsAssumption DEF TypeOK
<1> USE DEF chainVars, syncVars, watcherVars, bondVars
<1>1. ASSUME UNCHANGED <<canonical, reorgs>>
      PROVE  /\ reorgs' >= reorgs
             /\ reorgs' = reorgs =>
                  \A t \in Transfers : canonical[t] # Absent => canonical'[t] = canonical[t]
             /\ NonceIsUnique'
  BY <1>1, <1>T DEF NonceIsUnique
<1>2. ASSUME NEW t \in Transfers, SendTransfer(t)
      PROVE  /\ reorgs' = reorgs
             /\ \A u \in Transfers : canonical[u] # Absent => canonical'[u] = canonical[u]
             /\ NonceIsUnique'
  <2>1. /\ canonical[t] = Absent /\ UNCHANGED reorgs
        /\ \A u \in Transfers \ {t} : canonical'[u] = canonical[u]
        /\ \A u \in Conflicts(t) : canonical[u] = Absent
    BY <1>2, <1>T DEF SendTransfer
  <2> QED
    BY <2>1 DEF NonceIsUnique, Conflicts
<1>3. ASSUME NEW t \in Transfers, Reorg(t)
      PROVE  reorgs' >= reorgs /\ reorgs' # reorgs /\ NonceIsUnique'
  BY <1>3, <1>T DEF Reorg, NonceIsUnique, Conflicts
<1>4. ASSUME NEW t \in Transfers, ~SendTransfer(t), ~Reorg(t),
             Chain(t) \/ Sync(t) \/ Populate(t) \/ PopulateFails(t) \/ AgeOut(t)
               \/ RetryDelayElapses(t)
      PROVE  UNCHANGED <<canonical, reorgs>>
  BY <1>4 DEF Chain, SpendElsewhere, MineBond, Sync, HandleTransferSent,
    HandleWithdrawalBonded, HandleWithdrew, Populate, StartPopulate, PopulateTimestamp,
    PopulateSender, PopulateBlocklist, PopulateFails, AgeOut, RetryDelayElapses
<1>5. CASE Poll \/ Crash \/ UNCHANGED vars
  BY <1>1, <1>5 DEF Poll, Crash, vars
<1>6. ASSUME NEW c \in Calls,
             CallTimesOut(c) \/ CallThrows(c) \/ CheckTransferId(c)
               \/ \E t \in Transfers : StartCall(c, t)
      PROVE  UNCHANGED <<canonical, reorgs>>
  BY <1>6 DEF CallTimesOut, StartCall, CallThrows, CheckTransferId, At,
    CheckIsTransferIdSpent, PassGate, StopAtGate, GetSourceTransaction, ValidateDb,
    ValidateUniqueness, AskRedundantRpc, SendBondWithdrawal, SendThrows, ReadBackoffIndex,
    WriteBackoffIndex
<1> QED
  BY <1>1, <1>2, <1>3, <1>4, <1>5, <1>6, <1>T DEF Next

\* What a step may do to the calls: one that is under way keeps its transfer and what it
\* read, or has just read it.
LEMMA ReadsKept ==
  ASSUME TypeOK, [Next]_vars, NEW c \in Calls, call'[c].step # "idle"
  PROVE  \/ /\ call[c].step # "idle"
            /\ call'[c].id = call[c].id /\ call'[c].index = call[c].index
         \/ /\ UNCHANGED <<db, canonical>> /\ call'[c].id \in Transfers
            /\ call'[c].index = db[call'[c].id].index
<1>T. CallsTyped
  BY DEF TypeOK
<1> USE DEF chainVars, syncVars, watcherVars, bondVars
<1>1. CASE UNCHANGED call
  BY <1>1
<1>2. ASSUME NEW t \in Transfers,
             Chain(t) \/ Sync(t) \/ Populate(t) \/ PopulateFails(t) \/ AgeOut(t)
               \/ RetryDelayElapses(t)
      PROVE  UNCHANGED call
  BY <1>2 DEF Chain, SendTransfer, Reorg, SpendElsewhere, MineBond, Sync,
    HandleTransferSent, HandleWithdrawalBonded, HandleWithdrew, Populate, StartPopulate,
    PopulateTimestamp, PopulateSender, PopulateBlocklist, PopulateFails, AgeOut,
    RetryDelayElapses
<1>3. CASE Poll \/ UNCHANGED vars
  BY <1>1, <1>3 DEF Poll, vars
<1>4. CASE Crash
  BY <1>4 DEF Crash, NoCall
<1>5. ASSUME NEW d \in Calls, CallTimesOut(d) PROVE UNCHANGED call
  BY <1>5 DEF CallTimesOut
<1>6. ASSUME NEW d \in Calls, NEW t \in Transfers, StartCall(d, t), call'[c] # call[c]
      PROVE  /\ UNCHANGED <<db, canonical>> /\ call'[c].id \in Transfers
             /\ call'[c].index = db[call'[c].id].index
  <2>1. c = d
    BY <1>6, <1>T DEF StartCall, CallsTyped
  <2>2. call'[c].id = t /\ call'[c].index = db[t].index /\ UNCHANGED <<db, canonical>>
    BY <1>6, <1>T, <2>1 DEF StartCall, CallsTyped, Call
  <2> QED
    BY <2>2
<1>7. ASSUME NEW d \in Calls, CallThrows(d) \/ CheckTransferId(d)
      PROVE  /\ call[c].step # "idle"
             /\ call'[c].id = call[c].id /\ call'[c].index = call[c].index
  <2>1. call[d].step # "idle"
    BY <1>7 DEF CallThrows, CheckTransferId, At, CheckIsTransferIdSpent, PassGate,
      StopAtGate, GetSourceTransaction, ValidateDb, ValidateUniqueness, AskRedundantRpc,
      SendBondWithdrawal, SendThrows, ReadBackoffIndex, WriteBackoffIndex
  <2> QED
    BY <1>7, <1>T, <2>1, CheckIsStep DEF Step, GoesOn, Return, NoCall, CallsTyped
<1> QED
  BY <1>1, <1>2, <1>3, <1>4, <1>5, <1>6, <1>7 DEF Next

\* Without a reorg, two records with one nonce cannot both be counted.
LEMMA CountedOnce ==
  ASSUME AlarmInv, reorgs = 0, NEW t \in Transfers, db[t].age = "week"
  PROVE  Cardinality(WithSameNonce(t)) = 1
<1>1. t \in WithSameNonce(t)
  BY DEF WithSameNonce
<1>2. ASSUME NEW u \in WithSameNonce(t), u # t PROVE FALSE
  <2>1. u \in Conflicts(t) /\ u \in Transfers /\ db[u].age = "week"
    BY <1>2 DEF WithSameNonce, Conflicts
  <2>2. db[u].index # Absent /\ db[t].index # Absent
    BY <2>1 DEF AlarmInv, CountedHasIndex
  <2> QED
    BY <2>1, <2>2 DEF AlarmInv, AgreesWithChain, NonceIsUnique
<1>3. WithSameNonce(t) = {t}
  BY <1>1, <1>2
<1> QED
  BY <1>3, FS_Singleton

\* A step that turns on emergency mode has a cause.
LEMMA AlarmHasCause ==
  ASSUME MaxDisputed > 0, ConflictInv, AlarmInv, NEW c \in Calls, CheckTransferId(c),
         ~emergencyDryMode, emergencyDryMode', reorgs = 0
  PROVE  \E t \in Transfers : db'[t].age = "old" \/ disputed'[t] > 0
<1> DEFINE t == call[c].id
<1>T. /\ TypeOK /\ CallsTyped /\ db \in [Transfers -> Transfer]
      /\ disputed \in [Transfers -> 0 .. MaxDisputed]
  BY DEF ConflictInv, TypeOK
<1>1. call[c].step # "idle"
  BY DEF CheckTransferId, At, CheckIsTransferIdSpent, PassGate,
    StopAtGate, GetSourceTransaction, ValidateDb, ValidateUniqueness, AskRedundantRpc,
    SendBondWithdrawal, SendThrows, ReadBackoffIndex, WriteBackoffIndex
<1>2. t \in Transfers
  BY <1>1, <1>T, IdType
<1>3. call[c].index = db[t].index
  BY <1>1 DEF AlarmInv, AgreesWithChain
<1>4. ~ValidateDb(c)
  BY <1>3 DEF ValidateDb
<1>5. CASE ValidateUniqueness(c)
  <2>1. Cardinality(WithSameNonce(t)) # 1 /\ UNCHANGED db
    BY <1>5 DEF ValidateUniqueness
  <2>2. db[t].age # "week"
    BY <1>2, <2>1, CountedOnce
  <2>3. db[t].age # "unknown"
    BY <1>1, <1>2 DEF ConflictInv, PursuedHasTimestamp, Pursued
  <2>4. db[t].age \in {"unknown", "week", "old"}
    BY <1>2, <1>T DEF Transfer
  <2> QED
    BY <1>2, <2>1, <2>2, <2>3, <2>4
<1>6. ASSUME NEW r \in RedundantRpcs, AskRedundantRpc(c, r)
      PROVE  disputed'[t] > 0
  <2>1. disputed' = [disputed EXCEPT ![t] = Min2(@ + 1, MaxDisputed)]
    BY <1>6 DEF AskRedundantRpc, PossibleReorg
  <2>2. disputed[t] \in Nat /\ MaxDisputed \in Nat
    BY <1>2, <1>T, BoundsAssumption
  <2> QED
    BY <1>2, <1>T, <2>1, <2>2 DEF Min2
<1>7. /\ ~CheckIsTransferIdSpent(c) /\ ~PassGate(c) /\ ~StopAtGate(c)
      /\ ~GetSourceTransaction(c) /\ ~SendBondWithdrawal(c) /\ ~SendThrows(c)
      /\ ~ReadBackoffIndex(c) /\ ~WriteBackoffIndex(c)
  BY DEF CheckIsTransferIdSpent, PassGate, StopAtGate, GetSourceTransaction,
    SendBondWithdrawal, SendThrows, ReadBackoffIndex, WriteBackoffIndex
<1> QED
  BY <1>2, <1>4, <1>5, <1>6, <1>7 DEF CheckTransferId

\* Disputes are not forgotten, and emergency mode is turned on by a check only.
LEMMA AlarmKept ==
  ASSUME TypeOK, [Next]_vars
  PROVE  /\ \A t \in Transfers : disputed'[t] >= disputed[t]
         /\ emergencyDryMode' =>
              emergencyDryMode \/ \E c \in Calls : CheckTransferId(c)
<1>T. CallsTyped /\ disputed \in [Transfers -> 0 .. MaxDisputed] /\ MaxDisputed \in Nat
  BY BoundsAssumption DEF TypeOK
<1> USE DEF chainVars, syncVars, watcherVars, bondVars
<1>1. ASSUME UNCHANGED disputed PROVE \A t \in Transfers : disputed'[t] >= disputed[t]
  BY <1>1, <1>T
<1>2. ASSUME NEW c \in Calls, CheckTransferId(c)
      PROVE  \A t \in Transfers : disputed'[t] >= disputed[t]
  <2>1. CASE \E r \in RedundantRpcs : AskRedundantRpc(c, r)
    BY <1>1, <1>T, <2>1 DEF AskRedundantRpc, Min2
  <2>2. CASE ~\E r \in RedundantRpcs : AskRedundantRpc(c, r)
    BY <1>1, <1>2, <2>2 DEF CheckTransferId, CheckIsTransferIdSpent, PassGate, StopAtGate,
      GetSourceTransaction, ValidateDb, ValidateUniqueness, SendBondWithdrawal, SendThrows,
      ReadBackoffIndex, WriteBackoffIndex
  <2> QED
    BY <2>1, <2>2
<1>3. ASSUME ~\E c \in Calls : CheckTransferId(c)
      PROVE  UNCHANGED disputed /\ (emergencyDryMode' => emergencyDryMode)
  <2>1. ASSUME NEW t \in Transfers,
               Chain(t) \/ Sync(t) \/ Populate(t) \/ PopulateFails(t) \/ AgeOut(t)
                 \/ RetryDelayElapses(t)
        PROVE  UNCHANGED <<disputed, emergencyDryMode>>
    BY <2>1 DEF Chain, SendTransfer, Reorg, SpendElsewhere, MineBond, Sync,
      HandleTransferSent, HandleWithdrawalBonded, HandleWithdrew, Populate, StartPopulate,
      PopulateTimestamp, PopulateSender, PopulateBlocklist, PopulateFails, AgeOut,
      RetryDelayElapses
  <2>2. CASE Poll \/ Crash \/ UNCHANGED vars
    BY <2>2 DEF Poll, Crash, vars
  <2>3. ASSUME NEW c \in Calls,
               CallTimesOut(c) \/ CallThrows(c) \/ \E t \in Transfers : StartCall(c, t)
        PROVE  UNCHANGED <<disputed, emergencyDryMode>>
    BY <2>3 DEF CallTimesOut, CallThrows, StartCall
  <2> QED
    BY <1>3, <2>1, <2>2, <2>3 DEF Next
<1> QED
  BY <1>1, <1>2, <1>3

\* Every step preserves the invariant.
LEMMA AlarmInductive ==
  MaxDisputed > 0 /\ ConflictInv /\ IndexInv /\ AlarmInv /\ [Next]_vars => AlarmInv'
<1> SUFFICES ASSUME MaxDisputed > 0, ConflictInv, IndexInv, AlarmInv, [Next]_vars
             PROVE  AlarmInv'
  OBVIOUS
<1>T. /\ TypeOK /\ CallsTyped /\ reorgs \in Nat /\ MaxDisputed \in Nat
      /\ \A t \in Transfers : disputed[t] \in Nat
  BY BoundsAssumption DEF ConflictInv, TypeOK
<1>T2. reorgs' \in Nat /\ \A t \in Transfers : disputed'[t] \in Nat
  BY <1>T, TypeInductive, BoundsAssumption DEF TypeOK
<1>K. \A t \in Transfers : RecordKept(t)
  BY <1>T, RecordsKept
<1>C. /\ reorgs' >= reorgs
      /\ reorgs' = reorgs =>
           \A t \in Transfers : canonical[t] # Absent => canonical'[t] = canonical[t]
      /\ NonceIsUnique'
  BY <1>T, ChainKept DEF AlarmInv
<1>1. CountedHasIndex'
  <2> SUFFICES ASSUME NEW t \in Transfers, db'[t].age # "unknown" \/ populating'[t] # "idle"
               PROVE  db'[t].index # Absent
    BY DEF CountedHasIndex
  <2>1. RecordKept(t)
    BY <1>K
  <2>2. db[t].index # Absent
    BY <2>1 DEF RecordKept, AlarmInv, CountedHasIndex
  <2> QED
    BY <2>1, <2>2 DEF RecordKept
<1>2. ASSUME reorgs' = 0 PROVE AgreesWithChain'
  <2>1. reorgs = 0 /\ AgreesWithChain
    BY <1>2, <1>C, <1>T DEF AlarmInv
  <2>2. ASSUME NEW t \in Transfers, db'[t].index # Absent
        PROVE  canonical'[t] = db'[t].index
    BY <1>2, <1>C, <1>K, <2>1, <2>2 DEF RecordKept, AgreesWithChain
  <2>3. ASSUME NEW c \in Calls, call'[c].step # "idle"
        PROVE  call'[c].index = db'[call'[c].id].index
    <3>1. CASE /\ call[c].step # "idle"
               /\ call'[c].id = call[c].id /\ call'[c].index = call[c].index
      <4>1. call[c].id \in Transfers
        BY <1>T, <3>1, IdType
      <4>2. call[c].index # Absent /\ call[c].index = db[call[c].id].index
        BY <2>1, <3>1 DEF IndexInv, AgreesWithChain
      <4>3. canonical[call[c].id] = db[call[c].id].index
        BY <2>1, <4>1, <4>2 DEF AgreesWithChain
      <4>4. RecordKept(call[c].id)
        BY <1>K, <4>1
      <4> QED
        BY <3>1, <4>2, <4>3, <4>4 DEF RecordKept
    <3>2. CASE /\ UNCHANGED <<db, canonical>> /\ call'[c].id \in Transfers
               /\ call'[c].index = db[call'[c].id].index
      BY <3>2
    <3> QED
      BY <1>T, <2>3, <3>1, <3>2, ReadsKept
  <2> QED
    BY <2>2, <2>3 DEF AgreesWithChain
<1>3. NoFalseAlarm'
  <2> SUFFICES ASSUME emergencyDryMode', reorgs' = 0
               PROVE  \E t \in Transfers : db'[t].age = "old" \/ disputed'[t] > 0
    BY <1>T2 DEF NoFalseAlarm
  <2>1. reorgs = 0
    BY <1>C, <1>T
  <2>2. CASE emergencyDryMode
    <3>1. PICK t \in Transfers : db[t].age = "old" \/ disputed[t] > 0
      BY <2>1, <2>2, <1>T DEF AlarmInv, NoFalseAlarm
    <3>2. RecordKept(t) /\ disputed'[t] >= disputed[t]
      BY <1>K, <1>T, AlarmKept
    <3> QED
      BY <1>T, <1>T2, <3>1, <3>2 DEF RecordKept
  <2>3. CASE ~emergencyDryMode
    <3>1. PICK c \in Calls : CheckTransferId(c)
      BY <1>T, <2>3, AlarmKept
    <3> QED
      BY <2>1, <2>3, <3>1, AlarmHasCause
  <2> QED
    BY <2>2, <2>3
<1> QED
  BY <1>1, <1>2, <1>3, <1>C DEF AlarmInv

\* Emergency mode has a cause: a reorg, a transfer that left the week, or a provider that
\* lacked an event or had another; for any number of transfers, providers and calls.
THEOREM AlarmIsNotFalse == MaxDisputed > 0 => (Spec => []NoFalseAlarm)
<1> SUFFICES ASSUME MaxDisputed > 0 PROVE Spec => []NoFalseAlarm
  OBVIOUS
<1> DEFINE I == ConflictInv /\ IndexInv /\ AlarmInv
<1>1. Init => I
  <2> SUFFICES ASSUME Init PROVE I
    OBVIOUS
  <2>1. ConflictInv /\ IndexInv
    BY InitType DEF Init, ConflictInv, PursuedHasTimestamp, ConflictingNotBothValidated,
      Pursued, Validated, NoCall, IndexInv
  <2>2. AlarmInv
    BY DEF Init, AlarmInv, NoFalseAlarm, NonceIsUnique, CountedHasIndex, AgreesWithChain,
      NoRecord, NoCall, Conflicts
  <2> QED
    BY <2>1, <2>2
<1>2. I /\ [Next]_vars => I'
  BY ConflictInductive, IndexInductive, AlarmInductive DEF ConflictInv
<1>3. I => NoFalseAlarm
  BY DEF AlarmInv
<1> QED
  BY <1>1, <1>2, <1>3, PTL DEF Spec
=============================================================================
