--------------------------- MODULE TransferRootsDb ---------------------------
(***************************************************************************)
(* TransferRootsDb.update: the record of a transfer root and its indexes.  *)
(*                                                                         *)
(* An update merges its fields into the record under the mutex of the db,  *)
(* then reads the record again and corrects the index of incomplete items, *)
(* without the mutex; beside it, it inserts into three indexes that are    *)
(* looked up by the fields of the update.  The SyncWatchers of all chains  *)
(* and the watchers of a token share the db, so updates overlap.           *)
(* TransfersDb.update has the same form.                                   *)
(*                                                                         *)
(* A record is the set of its fields that are set.                         *)
(***************************************************************************)
EXTENDS Integers, Sequences, FiniteSets

CONSTANTS
  Roots,      \* transferRootId
  Calls,      \* updates under way at a time
  Patches,    \* the fields an update may set
  Fields,     \* all of them
  Nothing,    \* see RecordStore
  Faults,     \* "read": a read fails; "write": a put of the record fails
  MaxFaults, MaxCrashes   \* bounds of the environment

ASSUME RootsAssumption == Roots # {}
ASSUME PatchesAssumption == Patches \subseteq (SUBSET Fields) \ {{}}
ASSUME FaultsAssumption ==
  Faults \subseteq {"read", "write"} /\ MaxFaults \in Nat /\ MaxCrashes \in Nat
ASSUME NothingAssumption == Nothing \notin Roots \X SUBSET Fields

VARIABLES
  record,        \* the stored records
  index,         \* the roots each of the insert-only indexes has an entry for
  incompletes,   \* the roots in subDbIncompletes
  call,          \* the updates
  queue,         \* the mutex of the db: the holder, then who waits
  disturbed,     \* history: roots whose last update overlapped another one or was cut short
  faults, crashes

vars == <<record, index, incompletes, call, queue, disturbed, faults, crashes>>

\* The field whose presence in an update makes it insert into the index.
KeyField == [timestamps |-> "committedAt", rootHashes |-> "transferRootHash",
             rootBondedAt |-> "bondedAt"]
Indexes == DOMAIN KeyField

\* "lock": waits for the mutex; "put": has read the record; "reread": has written it;
\* "exists": looks into incompletes; "mark", "unmark": about to write there; "end".
Call == [step : {"idle", "lock", "put", "reread", "exists", "mark", "unmark", "end"},
         root : Roots, patch : SUBSET Fields, value : SUBSET Fields, blind : BOOLEAN,
         inserts : SUBSET Indexes]

Busy(r) == {c \in Calls : call[c].step # "idle" /\ call[c].root = r}

\* isItemIncomplete
IsItemIncomplete(item) ==
  /\ "isNotFound" \notin item
  /\ \/ ~({"sourceChainId", "destinationChainId", "commitTxBlockNumber"} \subseteq item)
     \/ "commitTxHash" \in item /\ "committedAt" \notin item
     \/ "bondTxHash" \in item /\ ~({"bonder", "bondedAt"} \subseteq item)
     \/ "confirmTxHash" \in item /\ "confirmedAt" \notin item
     \/ "rootSetBlockNumber" \in item /\ "rootSetTimestamp" \notin item
     \/ "totalAmount" \in item /\ "transferIds" \notin item

TypeOK == /\ record \in [Roots -> SUBSET Fields]
          /\ index \in [Indexes -> SUBSET Roots]
          /\ incompletes \subseteq Roots
          /\ call \in [Calls -> Call]
          /\ queue \in Seq({c \in Calls : call[c].step \in {"lock", "put"}})
          /\ disturbed \subseteq Roots
          /\ faults \in Nat /\ crashes \in Nat

IdleCall == [step |-> "idle", root |-> CHOOSE r \in Roots : TRUE, patch |-> {},
             value |-> {}, blind |-> FALSE, inserts |-> {}]

Init == /\ record = [r \in Roots |-> {}]
        /\ index = [ix \in Indexes |-> {}]
        /\ incompletes = {}
        /\ call = [c \in Calls |-> IdleCall]
        /\ queue = <<>>
        /\ disturbed = {}
        /\ faults = 0 /\ crashes = 0

\* The call goes on with step, and needs of what it read only value.
Goes(c, step, value) ==
  call' = [call EXCEPT ![c].step = step, ![c].patch = {}, ![c].value = value,
                       ![c].blind = FALSE]

-----------------------------------------------------------------------------

\* update: Promise.all of three insertItem and of upsertTransferRootItem, which asks
\* for the mutex at once.
Update(c, r, patch) ==
  /\ call[c].step = "idle"
  /\ call' = [call EXCEPT ![c] =
       [IdleCall EXCEPT !.step = "lock", !.root = r, !.patch = patch,
                        !.inserts = {ix \in Indexes : KeyField[ix] \in patch}]]
  /\ queue' = Append(queue, c)
  /\ disturbed' = IF Busy(r) = {} THEN disturbed \ {r} ELSE disturbed \cup {r}
  /\ UNCHANGED <<record, index, incompletes, faults, crashes>>

Fault(f, c) == /\ f \in Faults /\ faults < MaxFaults
               /\ faults' = faults + 1
               /\ disturbed' = disturbed \cup {call[c].root}

\* A slip: an entry is made for what the record has, not for what the update brings.
InsertStored(c, ix) ==
  /\ ix \in call[c].inserts
  /\ index' = IF KeyField[ix] \in record[call[c].root]
              THEN [index EXCEPT ![ix] = @ \cup {call[c].root}] ELSE index
  /\ call' = [call EXCEPT ![c].inserts = @ \ {ix}]
  /\ UNCHANGED <<record, incompletes, queue, disturbed, faults, crashes>>

\* insertItem of an index: an entry that exists is left as it is.
InsertItem(c, ix) ==
  /\ ix \in call[c].inserts
  /\ index' = [index EXCEPT ![ix] = @ \cup {call[c].root}]
  /\ call' = [call EXCEPT ![c].inserts = @ \ {ix}]
  /\ UNCHANGED <<record, incompletes, queue, disturbed, faults, crashes>>

\* A slip: no mutex.
GetUnlocked(c) ==
  /\ call[c].step = "lock"
  /\ \E i \in DOMAIN queue : queue[i] = c
  /\ call' = [call EXCEPT ![c].step = "put", ![c].value = record[call[c].root]]
  /\ UNCHANGED <<record, index, incompletes, queue, disturbed, faults, crashes>>

\* _getUpdateData: getById takes a read that fails for a record that is missing.
GetUpdateData(c) ==
  /\ call[c].step = "lock" /\ queue # <<>> /\ Head(queue) = c
  /\ \/ /\ call' = [call EXCEPT ![c].step = "put", ![c].value = record[call[c].root]]
        /\ UNCHANGED <<faults, disturbed>>
     \/ /\ Fault("read", c)
        /\ call' = [call EXCEPT ![c].step = "put", ![c].value = {}, ![c].blind = TRUE]
  /\ UNCHANGED <<record, index, incompletes, queue, crashes>>

\* A slip: the mutex is released when the put has succeeded.
PutWithoutFinally(c) ==
  /\ call[c].step = "put"
  /\ \/ /\ record' = [record EXCEPT ![call[c].root] = call[c].value \cup call[c].patch]
        /\ Goes(c, "reread", {}) /\ queue' = Tail(queue)
        /\ UNCHANGED <<faults, disturbed>>
     \/ /\ Fault("write", c)
        /\ Goes(c, "end", {})
        /\ UNCHANGED <<record, queue>>
  /\ UNCHANGED <<index, incompletes, crashes>>

\* put of the merged value; runExclusive lets the next one in, whatever becomes of it.
Put(c) ==
  /\ call[c].step = "put" /\ queue' = Tail(queue)
  /\ \/ /\ record' = [record EXCEPT ![call[c].root] = call[c].value \cup call[c].patch]
        /\ Goes(c, "reread", {})
        /\ UNCHANGED <<faults, disturbed>>
     \/ /\ Fault("write", c)
        /\ Goes(c, "end", {})
        /\ UNCHANGED record
  /\ UNCHANGED <<index, incompletes, crashes>>

\* upsertTransferRootItem reads what is stored now; without an answer it throws.
Reread(c) ==
  /\ call[c].step = "reread"
  /\ \/ /\ Goes(c, "exists", record[call[c].root])
        /\ UNCHANGED <<faults, disturbed>>
     \/ Fault("read", c) /\ Goes(c, "end", {})
  /\ UNCHANGED <<record, index, incompletes, queue, crashes>>

\* A slip: an item that is complete stays in the index.
DecisionToMark(incomplete, exists) == IF incomplete /\ ~exists THEN "mark" ELSE "end"

\* upsertItem of incompletes: whether something has to be written, and what.
Decision(incomplete, exists) ==
  IF incomplete /\ ~exists THEN "mark" ELSE IF ~incomplete /\ exists THEN "unmark" ELSE "end"

Exists(c) ==
  /\ call[c].step = "exists"
  /\ \E exists \in BOOLEAN :
       /\ \/ exists = (call[c].root \in incompletes) /\ UNCHANGED <<faults, disturbed>>
          \/ ~exists /\ Fault("read", c)
       /\ Goes(c, Decision(IsItemIncomplete(call[c].value), exists), {})
  /\ UNCHANGED <<record, index, incompletes, queue, crashes>>

UpsertIncomplete(c) ==
  /\ \/ call[c].step = "mark" /\ incompletes' = incompletes \cup {call[c].root}
     \/ call[c].step = "unmark" /\ incompletes' = incompletes \ {call[c].root}
  /\ call' = [call EXCEPT ![c].step = "end"]
  /\ UNCHANGED <<record, index, queue, disturbed, faults, crashes>>

Return(c) ==
  /\ call[c].step = "end" /\ call[c].inserts = {}
  /\ call' = [call EXCEPT ![c] = IdleCall]
  /\ UNCHANGED <<record, index, incompletes, queue, disturbed, faults, crashes>>

\* Only what was written stays.
Crash == /\ crashes < MaxCrashes
         /\ crashes' = crashes + 1
         /\ call' = [c \in Calls |-> IdleCall] /\ queue' = <<>>
         /\ disturbed' = disturbed \cup {r \in Roots : Busy(r) # {}}
         /\ UNCHANGED <<record, index, incompletes, faults>>

Step(c) == \/ GetUpdateData(c) \/ Put(c) \/ Reread(c) \/ Exists(c) \/ UpsertIncomplete(c)
           \/ Return(c) \/ \E ix \in Indexes : InsertItem(c, ix)

Next == \/ Crash
        \/ \E c \in Calls : Step(c) \/ \E r \in Roots, patch \in Patches : Update(c, r, patch)

Spec == Init /\ [][Next]_vars

\* The event loop goes on, the store answers and the mutex is first come, first served.
FairSpec == Spec /\ \A c \in Calls : WF_vars(Step(c))

-----------------------------------------------------------------------------
(* Properties *)

\* What RecordStore promises: no update overwrites what another one wrote, but when
\* getById hid from it that the record was there.
Store == INSTANCE RecordStore WITH
  Ids <- Roots,
  pending <- [c \in Calls |-> IF call[c].step \in {"lock", "put"}
                              THEN <<call[c].root, call[c].patch>> ELSE Nothing],
  blind <- {c \in Calls : call[c].step = "put" /\ call[c].blind}
Implements == Store!Spec

\* An update that overlaps no other one and is not cut short leaves the index of
\* incomplete items right, whatever state it found it in.
LoneUpdateFixesIndex ==
  \A r \in Roots : Busy(r) = {} /\ r \notin disturbed /\ record[r] # {}
                     => (r \in incompletes <=> IsItemIncomplete(record[r]))

\* As long as nothing fails, a root whose updates have returned is found through an index
\* exactly when its record has the field of that index.
IndexedIsStored ==
  faults = 0 /\ crashes = 0 =>
    \A r \in Roots, ix \in Indexes :
      Busy(r) = {} => (r \in index[ix] <=> KeyField[ix] \in record[r])

\* An update returns, after errors of the store and of those before it in the queue too.
UpdateReturns == \A c \in Calls : call[c].step # "idle" ~> call[c].step = "idle"
=============================================================================
