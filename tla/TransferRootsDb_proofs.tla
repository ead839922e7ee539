----------------------- MODULE TransferRootsDb_proofs -----------------------
(***************************************************************************)
(* TransferRootsDb loses no update and leaves its indexes right, for every *)
(* number of roots and overlapping updates.  The invariant has a part for  *)
(* the mutex (who is about to put is first in the queue, and has read what *)
(* is stored), one for updates that overlap no other, and one for the      *)
(* entries that overlapping updates have still to make.                    *)
(***************************************************************************)
EXTENDS TransferRootsDb, SequenceTheorems, TLAPS

Waiting == {"lock", "put"}

\* Nobody is twice in the queue.
QueueInv == \A i, j \in 1 .. Len(queue) : queue[i] = queue[j] => i = j

\* Who is about to put holds the mutex, and has read what is stored.
HolderInv ==
  \A c \in Calls :
    /\ call[c].step = "put" =>
         /\ queue # <<>> /\ queue[1] = c
         /\ call[c].value = IF call[c].blind THEN {} ELSE record[call[c].root]
    /\ call[c].blind => call[c].step = "put"

\* What an update that overlaps no other knows at each of its steps.
LoneCall(t, rec, inc) ==
  /\ t.step = "exists" => t.value = rec
  /\ t.step = "mark" => IsItemIncomplete(rec)
  /\ t.step = "unmark" => ~IsItemIncomplete(rec)
  /\ t.step = "end" => (inc <=> IsItemIncomplete(rec))

LoneInv ==
  \A c \in Calls :
    /\ call[c].step # "idle" /\ call[c].root \notin disturbed =>
         /\ \A d \in Calls : call[d].step # "idle" /\ call[d].root = call[c].root => d = c
         /\ LoneCall(call[c], record[call[c].root], call[c].root \in incompletes)
    /\ call[c].step = "idle" => call[c].inserts = {}

\* A field is stored, or about to be; a root is in an index, or about to be.
StoredBy(c, r, ix) ==
  call[c].step \in Waiting /\ call[c].root = r /\ KeyField[ix] \in call[c].patch
IndexedBy(c, r, ix) ==
  call[c].step # "idle" /\ call[c].root = r /\ ix \in call[c].inserts
Stored(r, ix) == KeyField[ix] \in record[r] \/ \E c \in Calls : StoredBy(c, r, ix)
Indexed(r, ix) == r \in index[ix] \/ \E c \in Calls : IndexedBy(c, r, ix)

NoFault == faults = 0 /\ crashes = 0

EntriesInv ==
  NoFault => /\ \A c \in Calls : ~call[c].blind
             /\ \A r \in Roots, ix \in Indexes : Stored(r, ix) <=> Indexed(r, ix)

DbInv == TypeOK /\ QueueInv /\ HolderInv /\ LoneInv /\ LoneUpdateFixesIndex /\ EntriesInv

-----------------------------------------------------------------------------
(* Sequences and calls. *)

LEMMA ElementsIn ==
  ASSUME NEW S, NEW T, NEW q \in Seq(S), \A i \in 1 .. Len(q) : q[i] \in T
  PROVE  q \in Seq(T)
<1>1. q \in [1 .. Len(q) -> S] /\ Len(q) \in Nat  BY LenProperties
<1>2. q \in [1 .. Len(q) -> T]  BY <1>1
<1> QED  BY <1>1, <1>2, SeqDef

LEMMA IdleCallType == IdleCall \in Call /\ IdleCall.step = "idle" /\ ~IdleCall.blind
                      /\ IdleCall.inserts = {} /\ IdleCall.patch = {}
<1>1. (CHOOSE r \in Roots : TRUE) \in Roots  BY RootsAssumption
<1> QED  BY <1>1 DEF IdleCall, Call

LEMMA InitHolds == Init => DbInv
<1> SUFFICES ASSUME Init PROVE DbInv  OBVIOUS
<1>1. \A c \in Calls : call[c] = IdleCall  BY DEF Init
<1>2. TypeOK
  <2>1. call \in [Calls -> Call]  BY IdleCallType DEF Init
  <2>2. queue \in Seq({c \in Calls : call[c].step \in {"lock", "put"}})
    BY EmptySeq DEF Init
  <2>3. record \in [Roots -> SUBSET Fields] /\ index \in [Indexes -> SUBSET Roots]
        /\ incompletes \subseteq Roots /\ disturbed \subseteq Roots
        /\ faults \in Nat /\ crashes \in Nat
    BY DEF Init
  <2> QED  BY <2>1, <2>2, <2>3 DEF TypeOK
<1>3. QueueInv  BY DEF Init, QueueInv
<1>4. HolderInv /\ LoneInv  BY <1>1, IdleCallType DEF HolderInv, LoneInv
<1>5. LoneUpdateFixesIndex  BY DEF Init, LoneUpdateFixesIndex
<1>6. EntriesInv
  BY <1>1, IdleCallType
     DEF Init, EntriesInv, Waiting, Stored, Indexed, StoredBy, IndexedBy
<1> QED  BY <1>2, <1>3, <1>4, <1>5, <1>6 DEF DbInv

-----------------------------------------------------------------------------
(* What the steps make of the call that takes them. *)

\* Only the call of c changes.
Only(c) == /\ call' \in [Calls -> Call]
           /\ \A d \in Calls \ {c} : call'[d] = call[d]

Steps == {"idle", "lock", "put", "reread", "exists", "mark", "unmark", "end"}

LEMMA GoesEffect ==
  ASSUME TypeOK, NEW c \in Calls, NEW step \in Steps, NEW value,
         value \subseteq Fields, Goes(c, step, value)
  PROVE  /\ Only(c)
         /\ call'[c].step = step /\ call'[c].root = call[c].root /\ call'[c].patch = {}
         /\ call'[c].value = value /\ call'[c].blind = FALSE
         /\ call'[c].inserts = call[c].inserts
<1> DEFINE new == [call[c] EXCEPT !.step = step, !.patch = {}, !.value = value,
                                  !.blind = FALSE]
<1>1. call[c] \in Call /\ {} \subseteq Fields  BY DEF TypeOK
<1>2. /\ new.step = step /\ new.root = call[c].root /\ new.patch = {}
      /\ new.value = value /\ new.blind = FALSE /\ new.inserts = call[c].inserts
      /\ new \in Call
  BY <1>1 DEF Call, Steps
<1>3. call' = [call EXCEPT ![c] = new]  BY <1>1 DEF Goes, TypeOK, Call
<1> HIDE DEF new
<1> QED  BY <1>2, <1>3 DEF TypeOK, Only

\* What it has read is not needed any more.
LEMMA ForgetsEffect ==
  ASSUME TypeOK, NEW c \in Calls, NEW step \in Steps, Goes(c, step, {})
  PROVE  /\ Only(c)
         /\ call'[c].step = step /\ call'[c].root = call[c].root /\ call'[c].patch = {}
         /\ call'[c].blind = FALSE /\ call'[c].inserts = call[c].inserts
<1> DEFINE value == {}
<1>1. value \subseteq Fields /\ Goes(c, step, value)  OBVIOUS
<1> HIDE DEF value
<1> QED  BY <1>1, GoesEffect

LEMMA UpdateEffect ==
  ASSUME TypeOK, NEW c \in Calls, NEW r \in Roots, NEW patch \in Patches, Update(c, r, patch)
  PROVE  /\ Only(c)
         /\ call'[c].step = "lock" /\ call'[c].root = r /\ call'[c].patch = patch
         /\ call'[c].blind = FALSE
         /\ call'[c].inserts = {ix \in Indexes : KeyField[ix] \in patch}
<1> DEFINE new == [IdleCall EXCEPT !.step = "lock", !.root = r, !.patch = patch,
                     !.inserts = {ix \in Indexes : KeyField[ix] \in patch}]
<1>1. /\ new.step = "lock" /\ new.root = r /\ new.patch = patch
      /\ new.blind = FALSE /\ new.inserts = {ix \in Indexes : KeyField[ix] \in patch}
      /\ new \in Call
  BY IdleCallType, PatchesAssumption DEF Call, IdleCall
<1>2. call' = [call EXCEPT ![c] = new]  BY DEF Update
<1> HIDE DEF new
<1> QED  BY <1>1, <1>2 DEF TypeOK, Only

LEMMA InsertEffect ==
  ASSUME TypeOK, NEW c \in Calls, NEW ix \in Indexes, InsertItem(c, ix)
  PROVE  /\ Only(c)
         /\ call'[c].step = call[c].step /\ call'[c].root = call[c].root
         /\ call'[c].patch = call[c].patch /\ call'[c].value = call[c].value
         /\ call'[c].blind = call[c].blind /\ call'[c].inserts = call[c].inserts \ {ix}
  BY DEF TypeOK, InsertItem, Only, Call

LEMMA GetEffect ==
  ASSUME TypeOK, NEW c \in Calls, GetUpdateData(c)
  PROVE  /\ Only(c)
         /\ call'[c].step = "put" /\ call'[c].root = call[c].root
         /\ call'[c].patch = call[c].patch /\ call'[c].inserts = call[c].inserts
         /\ ~call[c].blind =>
              call'[c].value = IF call'[c].blind THEN {} ELSE record[call[c].root]
         /\ (faults' = faults /\ call'[c].blind = call[c].blind) \/ faults' = faults + 1
  BY DEF TypeOK, GetUpdateData, Fault, Only, Call

LEMMA ReturnEffect ==
  ASSUME TypeOK, NEW c \in Calls, Return(c)
  PROVE  Only(c) /\ call'[c] = IdleCall
  BY IdleCallType DEF TypeOK, Return, Only

LEMMA UpsertEffect ==
  ASSUME TypeOK, NEW c \in Calls, UpsertIncomplete(c)
  PROVE  /\ Only(c)
         /\ call'[c].step = "end" /\ call'[c].root = call[c].root
         /\ call'[c].patch = call[c].patch /\ call'[c].value = call[c].value
         /\ call'[c].blind = call[c].blind /\ call'[c].inserts = call[c].inserts
  BY DEF TypeOK, UpsertIncomplete, Only, Call

-----------------------------------------------------------------------------
(* Types and the mutex. *)

MutexInv == TypeOK /\ QueueInv /\ HolderInv

\* A call that does not leave the queue.
LEMMA MutexOneCall ==
  ASSUME MutexInv, NEW c \in Calls, Only(c), UNCHANGED <<queue, record>>,
         index' \in [Indexes -> SUBSET Roots], incompletes' \subseteq Roots,
         disturbed' \subseteq Roots, faults' \in Nat, crashes' \in Nat,
         call[c].step \in Waiting => call'[c].step \in Waiting,
         call'[c].step = "put" =>
           /\ queue # <<>> /\ queue[1] = c
           /\ call'[c].value = IF call'[c].blind THEN {} ELSE record[call'[c].root],
         call'[c].blind => call'[c].step = "put"
  PROVE  MutexInv'
<1>1. queue' \in Seq({d \in Calls : call'[d].step \in {"lock", "put"}})
  <2> DEFINE S == {d \in Calls : call[d].step \in {"lock", "put"}}
             T == {d \in Calls : call'[d].step \in {"lock", "put"}}
  <2>1. S \subseteq T  BY DEF Only, Waiting
  <2>2. queue \in Seq(S)  BY DEF MutexInv, TypeOK
  <2>3. \A i \in 1 .. Len(queue) : queue[i] \in T  BY <2>1, <2>2, ElementOfSeq
  <2> HIDE DEF S, T
  <2>4. queue \in Seq(T)  BY <2>2, <2>3, ElementsIn
  <2> QED  BY <2>4 DEF T
<1>2. TypeOK'  BY <1>1 DEF MutexInv, TypeOK, Only
<1>3. QueueInv'  BY DEF MutexInv, QueueInv
<1>4. HolderInv'  BY DEF MutexInv, HolderInv, Only
<1> QED  BY <1>2, <1>3, <1>4 DEF MutexInv

LEMMA FaultTypes ==
  ASSUME TypeOK, NEW c \in Calls, NEW f, Fault(f, c)
  PROVE  faults' \in Nat /\ disturbed' \subseteq Roots /\ faults' = faults + 1
         /\ call[c].root \in disturbed' /\ disturbed \subseteq disturbed'
         /\ disturbed' = disturbed \cup {call[c].root}
  BY DEF TypeOK, Fault, Call

LEMMA MutexUpdate ==
  ASSUME MutexInv, NEW c \in Calls, NEW r \in Roots, NEW patch \in Patches,
         Update(c, r, patch)
  PROVE  MutexInv'
<1> DEFINE S == {d \in Calls : call[d].step \in {"lock", "put"}}
           T == {d \in Calls : call'[d].step \in {"lock", "put"}}
<1>0. TypeOK  BY DEF MutexInv
<1>1. /\ Only(c) /\ call'[c].step = "lock" /\ ~call'[c].blind  BY <1>0, UpdateEffect
<1>2. queue \in Seq(S) /\ queue \in Seq(Calls)  BY <1>0, ElementsIn, ElementOfSeq DEF TypeOK
<1>3. /\ queue' = Append(queue, c) /\ call[c].step = "idle"
      /\ UNCHANGED <<record, index, incompletes, faults, crashes>>
      /\ disturbed' \subseteq Roots
  BY <1>0 DEF Update, TypeOK
<1>4. /\ queue' \in Seq(Calls) /\ queue' # <<>> /\ Len(queue') = Len(queue) + 1
      /\ \A i \in 1 .. Len(queue) : queue'[i] = queue[i]
      /\ queue'[Len(queue) + 1] = c /\ Len(queue) \in Nat
  BY <1>2, <1>3, AppendProperties, LenProperties
<1>5. \A i \in 1 .. Len(queue) : queue[i] \in S  BY <1>2, ElementOfSeq
<1>6. S \subseteq T /\ c \in T /\ c \notin S  BY <1>1, <1>3 DEF Only
<1> HIDE DEF S, T
<1>7. \A i \in 1 .. Len(queue') : queue'[i] \in T  BY <1>4, <1>5, <1>6
<1>8. queue' \in Seq(T)  BY <1>4, <1>7, ElementsIn
<1>9. TypeOK'  BY <1>0, <1>1, <1>3, <1>8 DEF TypeOK, Only, T
<1>10. QueueInv'
  <2> SUFFICES ASSUME NEW i \in 1 .. Len(queue'), NEW j \in 1 .. Len(queue'),
                      queue'[i] = queue'[j]
               PROVE  i = j
    BY DEF QueueInv
  <2>1. \A k \in 1 .. Len(queue) : queue[k] # c  BY <1>5, <1>6
  <2> QED  BY <1>4, <2>1 DEF MutexInv, QueueInv
<1>11. HolderInv'
  <2>0. \A d \in Calls : call'[d].blind => call'[d].step = "put"
    BY <1>1 DEF MutexInv, HolderInv, Only
  <2> SUFFICES ASSUME NEW d \in Calls, call'[d].step = "put"
               PROVE  /\ queue' # <<>> /\ queue'[1] = d
                      /\ call'[d].value =
                           IF call'[d].blind THEN {} ELSE record[call'[d].root]
    BY <1>3, <2>0 DEF HolderInv
  <2>1. d # c /\ call'[d] = call[d]  BY <1>1 DEF Only
  <2>2. queue # <<>> /\ queue[1] = d
        /\ call[d].value = IF call[d].blind THEN {} ELSE record[call[d].root]
    BY <2>1 DEF MutexInv, HolderInv
  <2>3. Len(queue) >= 1  BY <1>2, <1>4, <2>2, EmptySeq
  <2> QED  BY <1>4, <2>1, <2>2, <2>3
<1> QED  BY <1>9, <1>10, <1>11 DEF MutexInv

LEMMA MutexPut == ASSUME MutexInv, NEW c \in Calls, Put(c) PROVE MutexInv'
<1> DEFINE S == {d \in Calls : call[d].step \in {"lock", "put"}}
           T == {d \in Calls : call'[d].step \in {"lock", "put"}}
<1>0. TypeOK  BY DEF MutexInv
<1>1. Only(c) /\ call'[c].step \notin {"lock", "put"} /\ ~call'[c].blind
  <2>1. {"reread", "end"} \subseteq Steps  BY DEF Steps
  <2> QED  BY <1>0, <2>1, ForgetsEffect DEF Put
<1>2. queue \in Seq(S) /\ queue # <<>> /\ queue[1] = c
  BY <1>0 DEF TypeOK, Put, MutexInv, HolderInv
<1>3. queue' = Tail(queue)  BY DEF Put
<1>4. /\ queue' \in Seq(S) /\ Len(queue') = Len(queue) - 1
      /\ \A i \in 1 .. Len(queue') : queue'[i] = queue[i + 1]
      /\ Len(queue) \in Nat
  BY <1>2, <1>3, HeadTailProperties, LenProperties
<1>5. \A i \in 1 .. Len(queue') : queue'[i] # c
  <2>1. Len(queue) >= 1  BY <1>2, <1>4, EmptySeq
  <2> QED  BY <1>2, <1>4, <2>1 DEF MutexInv, QueueInv
<1>6. \A i \in 1 .. Len(queue') : queue'[i] \in T
  <2>1. \A i \in 1 .. Len(queue') : queue'[i] \in S  BY <1>4, ElementOfSeq
  <2> QED  BY <1>1, <1>5, <2>1 DEF Only
<1> HIDE DEF S, T
<1>7. queue' \in Seq({d \in Calls : call'[d].step \in {"lock", "put"}})
  <2>1. queue' \in Seq(T)  BY <1>4, <1>6, ElementsIn
  <2> QED  BY <2>1 DEF T
<1>8. /\ record' \in [Roots -> SUBSET Fields] /\ faults' \in Nat /\ disturbed' \subseteq Roots
      /\ UNCHANGED <<index, incompletes, crashes>>
  <2>1. call[c].value \cup call[c].patch \subseteq Fields  BY <1>0 DEF TypeOK, Call
  <2>2. UNCHANGED <<index, incompletes, crashes>>  BY DEF Put
  <2>3. faults' \in Nat /\ disturbed' \subseteq Roots  BY <1>0, FaultTypes DEF Put, TypeOK
  <2>4. record' \in [Roots -> SUBSET Fields]  BY <1>0, <2>1 DEF Put, TypeOK
  <2> QED  BY <2>2, <2>3, <2>4
<1>9. TypeOK'
  <2>1. call' \in [Calls -> Call]  BY <1>1 DEF Only
  <2>2. crashes' \in Nat /\ index' \in [Indexes -> SUBSET Roots] /\ incompletes' \subseteq Roots
    BY <1>0, <1>8 DEF TypeOK
  <2> QED  BY <1>7, <1>8, <2>1, <2>2 DEF TypeOK
<1>10. QueueInv'
  <2> SUFFICES ASSUME NEW i \in 1 .. Len(queue'), NEW j \in 1 .. Len(queue'),
                      queue'[i] = queue'[j]
               PROVE  i = j
    BY DEF QueueInv
  <2>1. /\ i + 1 \in 1 .. Len(queue) /\ j + 1 \in 1 .. Len(queue)
        /\ queue[i + 1] = queue[j + 1]
    BY <1>4
  <2>2. i + 1 = j + 1  BY <2>1 DEF MutexInv, QueueInv
  <2> QED  BY <1>4, <2>2
<1>11. HolderInv'  BY <1>1, <1>2 DEF MutexInv, HolderInv, Only
<1> QED  BY <1>9, <1>10, <1>11 DEF MutexInv

\* Steps that are taken without the mutex.
LEMMA LeavesMutex ==
  ASSUME TypeOK, NEW c \in Calls,
         Reread(c) \/ Exists(c) \/ UpsertIncomplete(c) \/ Return(c)
  PROVE  /\ Only(c) /\ call'[c].step \notin {"lock", "put"}
         /\ call'[c].blind => call[c].blind
<1>1. CASE Reread(c)
  <2>1. record[call[c].root] \in SUBSET Fields  BY DEF TypeOK, Call
  <2>2. "exists" \in Steps /\ "end" \in Steps  BY DEF Steps
  <2>3. CASE Goes(c, "exists", record[call[c].root])
    <3> DEFINE value == record[call[c].root]
    <3>1. value \subseteq Fields /\ Goes(c, "exists", value)  BY <2>1, <2>3
    <3> HIDE DEF value
    <3> QED  BY <2>2, <3>1, GoesEffect
  <2>4. CASE Goes(c, "end", {})  BY <2>2, <2>4, ForgetsEffect
  <2> QED  BY <1>1, <2>3, <2>4 DEF Reread
<1>2. CASE Exists(c)
  <2>1. PICK exists \in BOOLEAN :
          Goes(c, Decision(IsItemIncomplete(call[c].value), exists), {})
    BY <1>2 DEF Exists
  <2>2. \A b \in BOOLEAN : Decision(b, exists) \in {"mark", "unmark", "end"}  BY DEF Decision
  <2>3. Decision(IsItemIncomplete(call[c].value), exists) \in {"mark", "unmark", "end"}
    BY <2>2 DEF IsItemIncomplete
  <2>4. {"mark", "unmark", "end"} \subseteq Steps  BY DEF Steps
  <2> QED  BY <2>1, <2>3, <2>4, ForgetsEffect
<1>3. CASE UpsertIncomplete(c)  BY <1>3, UpsertEffect
<1>4. CASE Return(c)  BY <1>4, ReturnEffect, IdleCallType
<1> QED  BY <1>1, <1>2, <1>3, <1>4

LEMMA MutexStep ==
  ASSUME MutexInv, NEW c \in Calls, Step(c) PROVE MutexInv'
<1>0. TypeOK  BY DEF MutexInv
<1>1. CASE Put(c)  BY <1>1, MutexPut
<1>2. CASE GetUpdateData(c)
  <2>1. Only(c) /\ call'[c].step = "put" /\ call'[c].root = call[c].root
        /\ call'[c].value = IF call'[c].blind THEN {} ELSE record[call[c].root]
    BY <1>0, <1>2, GetEffect DEF MutexInv, HolderInv, GetUpdateData
  <2>2. /\ UNCHANGED <<queue, record, index, incompletes, crashes>>
        /\ queue # <<>> /\ Head(queue) = c
    BY <1>2 DEF GetUpdateData
  <2>3. faults' \in Nat /\ disturbed' \subseteq Roots
    <3>1. UNCHANGED <<faults, disturbed>> \/ Fault("read", c)  BY <1>2 DEF GetUpdateData
    <3> QED  BY <1>0, <3>1, FaultTypes DEF TypeOK
  <2>4. Head(queue) = queue[1]  OBVIOUS
  <2> QED  BY <1>0, <2>1, <2>2, <2>3, <2>4, MutexOneCall DEF TypeOK, Waiting
<1>3. CASE Reread(c) \/ Exists(c) \/ UpsertIncomplete(c) \/ Return(c)
  <2>1. Only(c) /\ call'[c].step \notin {"lock", "put"} /\ (call'[c].blind => call[c].blind)
    BY <1>0, <1>3, LeavesMutex
  <2>2. call[c].step \notin {"lock", "put"} /\ UNCHANGED <<queue, record, index, crashes>>
    BY <1>3 DEF Reread, Exists, UpsertIncomplete, Return
  <2>3. ~call[c].blind  BY <2>2 DEF MutexInv, HolderInv
  <2>4. incompletes' \subseteq Roots
    BY <1>0, <1>3 DEF Reread, Exists, UpsertIncomplete, Return, TypeOK, Call
  <2>5. UNCHANGED <<faults, disturbed>> \/ Fault("read", c)
    BY <1>3 DEF Reread, Exists, UpsertIncomplete, Return
  <2>6. faults' \in Nat /\ disturbed' \subseteq Roots
    BY <1>0, <2>5, FaultTypes DEF TypeOK
  <2> QED  BY <1>0, <2>1, <2>2, <2>3, <2>4, <2>6, MutexOneCall DEF TypeOK, Waiting
<1>4. ASSUME NEW ix \in Indexes, InsertItem(c, ix) PROVE MutexInv'
  <2>1. /\ Only(c) /\ call'[c].step = call[c].step /\ call'[c].root = call[c].root
        /\ call'[c].blind = call[c].blind /\ call'[c].value = call[c].value
    BY <1>0, <1>4, InsertEffect
  <2>2. /\ UNCHANGED <<queue, record, incompletes, disturbed, faults, crashes>>
        /\ index' \in [Indexes -> SUBSET Roots]
    BY <1>0, <1>4 DEF InsertItem, TypeOK, Call
  <2>3. /\ call[c].step = "put" =>
             /\ queue # <<>> /\ queue[1] = c
             /\ call[c].value = IF call[c].blind THEN {} ELSE record[call[c].root]
        /\ call[c].blind => call[c].step = "put"
    BY DEF MutexInv, HolderInv
  <2> QED  BY <1>0, <2>1, <2>2, <2>3, MutexOneCall DEF TypeOK, Waiting
<1> QED  BY <1>1, <1>2, <1>3, <1>4 DEF Step

LEMMA MutexCrash == ASSUME MutexInv, Crash PROVE MutexInv'
<1>1. call' \in [Calls -> Call] /\ \A c \in Calls : call'[c] = IdleCall
  BY IdleCallType DEF Crash
<1>2. /\ queue' = <<>> /\ UNCHANGED <<record, index, incompletes, faults>>
      /\ crashes' \in Nat /\ disturbed' \subseteq Roots
  BY DEF Crash, MutexInv, TypeOK
<1>3. queue' \in Seq({d \in Calls : call'[d].step \in {"lock", "put"}})
  BY <1>2, EmptySeq
<1>4. TypeOK'  BY <1>1, <1>2, <1>3 DEF MutexInv, TypeOK
<1>5. QueueInv'  BY <1>2 DEF QueueInv
<1>6. HolderInv'  BY <1>1, IdleCallType DEF HolderInv
<1> QED  BY <1>4, <1>5, <1>6 DEF MutexInv

LEMMA MutexNext == ASSUME MutexInv, [Next]_vars PROVE MutexInv'
<1>1. CASE UNCHANGED vars  BY <1>1 DEF vars, MutexInv, TypeOK, QueueInv, HolderInv
<1>2. CASE Next  BY <1>2, MutexCrash, MutexStep, MutexUpdate DEF Next
<1> QED  BY <1>1, <1>2

LEMMA MutexAlways == Spec => []MutexInv
<1>1. Init => MutexInv  BY InitHolds DEF DbInv, MutexInv
<1> QED  BY <1>1, MutexNext, PTL DEF Spec

\* The state of the db is well-formed, and only updates that have yet to put are in the
\* queue of the mutex.
THEOREM TypeCorrect == Spec => []TypeOK
<1>1. MutexInv => TypeOK  BY DEF MutexInv
<1> QED  BY <1>1, MutexAlways, PTL

-----------------------------------------------------------------------------
(* The refinement. *)

Pending == [c \in Calls |-> IF call[c].step \in {"lock", "put"}
                            THEN <<call[c].root, call[c].patch>> ELSE Nothing]
Blind == {c \in Calls : call[c].step = "put" /\ call[c].blind}

\* A step of c that the abstract store does not see.
LEMMA Unseen ==
  ASSUME NEW c \in Calls, Only(c), record' = record, Pending'[c] = Pending[c],
         c \in Blind' <=> c \in Blind
  PROVE  Pending' = Pending /\ Blind' = Blind
<1>1. \A d \in Calls : Pending'[d] = Pending[d]  BY DEF Only, Pending
<1>2. Pending' = Pending  BY <1>1 DEF Pending
<1>3. Blind' = Blind  BY DEF Only, Blind
<1> QED  BY <1>2, <1>3

LEMMA IsPending ==
  ASSUME TypeOK, NEW c \in Calls, call[c].step \in {"lock", "put"}
  PROVE  Pending[c] = <<call[c].root, call[c].patch>> /\ Pending[c] # Nothing
<1>1. <<call[c].root, call[c].patch>> \in Roots \X SUBSET Fields  BY DEF TypeOK, Call
<1> QED  BY <1>1, NothingAssumption DEF Pending

LEMMA RefinesUpdate ==
  ASSUME MutexInv, NEW c \in Calls, NEW r \in Roots, NEW patch \in Patches,
         Update(c, r, patch)
  PROVE  Store!Ask(c, r, patch)
<1>0. TypeOK  BY DEF MutexInv
<1>1. Only(c) /\ call'[c].step = "lock" /\ call'[c].root = r /\ call'[c].patch = patch
  BY <1>0, UpdateEffect
<1>2. call[c].step = "idle" /\ record' = record  BY DEF Update
<1>3. Pending[c] = Nothing  BY <1>2 DEF Pending
<1>4. Pending' = [Pending EXCEPT ![c] = <<r, patch>>]
  <2>1. \A d \in Calls : Pending'[d] = IF d = c THEN <<r, patch>> ELSE Pending[d]
    BY <1>1 DEF Only, Pending
  <2> QED  BY <2>1 DEF Pending
<1>5. Blind' = Blind  BY <1>1, <1>2 DEF Only, Blind
<1> QED  BY <1>2, <1>3, <1>4, <1>5 DEF Store!Ask, Pending, Blind

LEMMA RefinesGet ==
  ASSUME MutexInv, NEW c \in Calls, GetUpdateData(c)
  PROVE  Store!Misread(c) \/ UNCHANGED <<record, Pending, Blind>>
<1>0. TypeOK /\ call[c].step = "lock" /\ record' = record  BY DEF MutexInv, GetUpdateData
<1>1. /\ Only(c) /\ call'[c].step = "put" /\ call'[c].root = call[c].root
      /\ call'[c].patch = call[c].patch
  BY <1>0, GetEffect
<1>2. Pending[c] = <<call[c].root, call[c].patch>> /\ Pending[c] # Nothing
  BY <1>0, IsPending
<1>3. Pending' = Pending
  <2>1. \A d \in Calls : Pending'[d] = Pending[d]  BY <1>0, <1>1 DEF Only, Pending
  <2> QED  BY <2>1 DEF Pending
<1>4. Blind' = Blind \/ Blind' = Blind \cup {c}  BY <1>0, <1>1 DEF Only, Blind
<1> QED  BY <1>0, <1>2, <1>3, <1>4 DEF Store!Misread, Pending, Blind

LEMMA RefinesPut ==
  ASSUME MutexInv, NEW c \in Calls, Put(c)
  PROVE  Store!Write(c) \/ Store!Drop({c})
<1>0. TypeOK /\ call[c].step = "put"  BY DEF MutexInv, Put
<1>1. Only(c) /\ call'[c].step \notin {"lock", "put"} /\ ~call'[c].blind
  <2>1. {"reread", "end"} \subseteq Steps  BY DEF Steps
  <2> QED  BY <1>0, <2>1, ForgetsEffect DEF Put
<1>2. Pending[c] = <<call[c].root, call[c].patch>> /\ Pending[c] # Nothing
  BY <1>0, IsPending
<1>3. /\ Pending' = [d \in Calls |-> IF d \in {c} THEN Nothing ELSE Pending[d]]
      /\ Pending' = [Pending EXCEPT ![c] = Nothing]
  <2>1. \A d \in Calls : Pending'[d] = IF d = c THEN Nothing ELSE Pending[d]
    BY <1>1 DEF Only, Pending
  <2> QED  BY <2>1 DEF Pending
<1>4. Blind' = Blind \ {c}  BY <1>1 DEF Only, Blind
<1>5. CASE record' = [record EXCEPT ![call[c].root] = call[c].value \cup call[c].patch]
  <2>1. call[c].root \in Roots /\ record \in [Roots -> SUBSET Fields]
    BY <1>0 DEF TypeOK, Call
  <2>2. call[c].value \cup call[c].patch =
          IF c \in Blind THEN call[c].patch ELSE record[call[c].root] \cup call[c].patch
    BY <1>0 DEF MutexInv, HolderInv, Blind
  <2>3. Pending[c][1] = call[c].root /\ Pending[c][2] = call[c].patch  BY <1>2
  <2>4. record' = [record EXCEPT ![Pending[c][1]] =
                     IF c \in Blind THEN Pending[c][2] ELSE @ \cup Pending[c][2]]
    BY <1>5, <2>1, <2>2, <2>3
  <2> QED  BY <1>2, <1>3, <1>4, <2>4 DEF Store!Write, Pending, Blind
<1>6. CASE record' = record
  BY <1>3, <1>4, <1>6 DEF Store!Drop, Pending, Blind
<1> QED  BY <1>5, <1>6 DEF Put

LEMMA RefinesCrash == ASSUME MutexInv, Crash PROVE Store!Drop(Calls)
<1>1. \A c \in Calls : call'[c].step = "idle"  BY IdleCallType DEF Crash
<1>2. Pending' = [c \in Calls |-> IF c \in Calls THEN Nothing ELSE Pending[c]]
  BY <1>1 DEF Pending
<1>3. Blind' = Blind \ Calls  BY <1>1 DEF Blind
<1>4. record' = record  BY DEF Crash
<1> QED  BY <1>2, <1>3, <1>4 DEF Store!Drop, Pending, Blind

\* The other steps.
LEMMA RefinesRest ==
  ASSUME MutexInv, NEW c \in Calls, Step(c), ~GetUpdateData(c), ~Put(c)
  PROVE  UNCHANGED <<record, Pending, Blind>>
<1>0. TypeOK  BY DEF MutexInv
<1>1. CASE \E ix \in Indexes : InsertItem(c, ix)
  <2>1. PICK ix \in Indexes : InsertItem(c, ix)  BY <1>1
  <2>2. /\ Only(c) /\ call'[c].step = call[c].step /\ call'[c].root = call[c].root
        /\ call'[c].patch = call[c].patch /\ call'[c].blind = call[c].blind
    BY <1>0, <2>1, InsertEffect
  <2>3. record' = record  BY <2>1 DEF InsertItem
  <2> QED  BY <2>2, <2>3, Unseen DEF Pending, Blind
<1>2. CASE Reread(c) \/ Exists(c) \/ UpsertIncomplete(c) \/ Return(c)
  <2>1. call[c].step \notin {"lock", "put"} /\ record' = record
    BY <1>2 DEF Reread, Exists, UpsertIncomplete, Return
  <2>2. Only(c) /\ call'[c].step \notin {"lock", "put"}
    BY <1>0, <1>2, LeavesMutex
  <2> QED  BY <2>1, <2>2, Unseen DEF Pending, Blind
<1> QED  BY <1>1, <1>2 DEF Step

\* The db implements RecordStore: an update takes effect at one instant, on top of what
\* was written before, unless the record was hidden from it.
THEOREM Refinement == Spec => Implements
<1>1. Init => Store!Init
  <2> SUFFICES ASSUME Init PROVE Store!Init  OBVIOUS
  <2>1. \A c \in Calls : call[c].step = "idle"  BY IdleCallType DEF Init
  <2> QED  BY <2>1 DEF Init, Store!Init
<1>2. MutexInv /\ [Next]_vars => [Store!Next]_(Store!vars)
  <2> SUFFICES ASSUME MutexInv, [Next]_vars PROVE [Store!Next]_(Store!vars)  OBVIOUS
  <2>1. CASE UNCHANGED vars  BY <2>1 DEF vars, Store!vars
  <2>2. CASE Crash  BY <2>2, RefinesCrash DEF Store!Next
  <2>3. ASSUME NEW c \in Calls, NEW r \in Roots, NEW patch \in Patches,
               Update(c, r, patch)
        PROVE  Store!Next
    BY <2>3, RefinesUpdate DEF Store!Next
  <2>4. ASSUME NEW c \in Calls, Step(c) PROVE [Store!Next]_(Store!vars)
    <3>1. CASE GetUpdateData(c)
      BY <3>1, RefinesGet DEF Store!Next, Store!vars, Pending, Blind
    <3>2. CASE Put(c)
      <4>1. {c} \in SUBSET Calls  OBVIOUS
      <4> QED  BY <3>2, <4>1, RefinesPut DEF Store!Next
    <3>3. CASE ~GetUpdateData(c) /\ ~Put(c)
      BY <2>4, <3>3, RefinesRest DEF Store!vars, Pending, Blind
    <3> QED  BY <3>1, <3>2, <3>3
  <2> QED  BY <2>1, <2>2, <2>3, <2>4 DEF Next
<1> QED  BY <1>1, <1>2, MutexAlways, PTL DEF Spec, Implements, Store!Spec

-----------------------------------------------------------------------------
(* No field is ever lost. *)

\* No read has failed so far, or none can.
ReadsAnswer == faults = 0 \/ "read" \notin Faults

\* A record is hidden from an update only by a read that failed.
SeesInv == ReadsAnswer => \A c \in Calls : ~call[c].blind

\* Who answers a failed read is no longer among the reads that answer.
LEMMA SeesKept ==
  ASSUME MutexInv, SeesInv, NEW c \in Calls, Step(c)
  PROVE  SeesInv'
<1>0. TypeOK  BY DEF MutexInv
<1>1. ReadsAnswer' => ReadsAnswer
  <2>1. faults' = faults \/ \E f : Fault(f, c)
    BY DEF Step, GetUpdateData, Put, Reread, Exists, UpsertIncomplete, Return, InsertItem
  <2>2. faults \in Nat /\ (faults' = faults \/ faults' = faults + 1)
    BY <1>0, <2>1 DEF Fault, TypeOK
  <2> QED  BY <2>2 DEF ReadsAnswer
<1>2. ASSUME Only(c), ReadsAnswer', ~call'[c].blind PROVE \A d \in Calls : ~call'[d].blind
  BY <1>1, <1>2 DEF Only, SeesInv
<1>3. CASE GetUpdateData(c)
  <2>1. Only(c)  BY <1>0, <1>3, GetEffect
  <2>2. ASSUME ReadsAnswer' PROVE ~call'[c].blind
    <3>1. ~call[c].blind  BY <1>1, <2>2 DEF SeesInv
    <3>2. ~Fault("read", c)
      BY <1>0, <2>2 DEF Fault, ReadsAnswer, TypeOK
    <3>3. call' = [call EXCEPT ![c].step = "put", ![c].value = record[call[c].root]]
      BY <1>3, <3>2 DEF GetUpdateData
    <3> QED  BY <1>0, <3>1, <3>3 DEF TypeOK, Call
  <2> QED  BY <1>2, <2>1, <2>2 DEF SeesInv
<1>4. CASE Put(c)
  <2>1. {"reread", "end"} \subseteq Steps  BY DEF Steps
  <2>2. Only(c) /\ ~call'[c].blind  BY <1>0, <1>4, <2>1, ForgetsEffect DEF Put
  <2> QED  BY <1>2, <2>2 DEF SeesInv
<1>5. CASE ~GetUpdateData(c) /\ ~Put(c)
  <2>1. Only(c) /\ (call'[c].blind => call[c].blind)
    BY <1>0, <1>5, LeavesMutex, InsertEffect DEF Step
  <2> QED  BY <1>1, <1>2, <2>1 DEF SeesInv
<1> QED  BY <1>3, <1>4, <1>5

LEMMA SeesNext == ASSUME MutexInv, SeesInv, [Next]_vars PROVE SeesInv'
<1>0. TypeOK  BY DEF MutexInv
<1>1. CASE UNCHANGED vars  BY <1>1 DEF vars, SeesInv, ReadsAnswer
<1>2. CASE Crash  BY <1>2, IdleCallType DEF Crash, SeesInv
<1>3. ASSUME NEW c \in Calls, NEW r \in Roots, NEW patch \in Patches, Update(c, r, patch)
      PROVE  SeesInv'
  <2>1. Only(c) /\ ~call'[c].blind  BY <1>0, <1>3, UpdateEffect
  <2>2. faults' = faults  BY <1>3 DEF Update
  <2> QED  BY <2>1, <2>2 DEF Only, SeesInv, ReadsAnswer
<1> QED  BY <1>1, <1>2, <1>3, SeesKept DEF Next

\* However the updates of the watchers overlap, are cut short by a crash or fail to write,
\* a record never loses a field: not even for the time between two steps of an update.  It
\* takes a read that failed, which getById takes for a record that is missing.
THEOREM FieldsStay ==
  Spec => [][ReadsAnswer => \A r \in Roots : record[r] \subseteq record'[r]]_vars
<1>1. MutexInv /\ SeesInv /\ [Next]_vars =>
        [ReadsAnswer => \A r \in Roots : record[r] \subseteq record'[r]]_vars
  <2> SUFFICES ASSUME MutexInv, SeesInv, Next, ReadsAnswer, NEW r \in Roots
               PROVE  record[r] \subseteq record'[r]
    OBVIOUS
  <2>1. ASSUME NEW c \in Calls, Put(c) PROVE record[r] \subseteq record'[r]
    <3>1. call[c].value = record[call[c].root]
      BY <2>1 DEF Put, MutexInv, HolderInv, SeesInv
    <3> QED  BY <2>1, <3>1 DEF Put, MutexInv, TypeOK, Call
  <2>2. CASE \A c \in Calls : ~Put(c)
    BY <2>2 DEF Next, Step, Crash, Update, GetUpdateData, Reread, Exists, UpsertIncomplete,
                Return, InsertItem
  <2> QED  BY <2>1, <2>2
<1>2. Init => SeesInv  BY IdleCallType DEF Init, SeesInv
<1> QED  BY <1>1, <1>2, MutexAlways, SeesNext, PTL DEF Spec

-----------------------------------------------------------------------------
(* An update that overlaps no other. *)

LoneParts == TypeOK /\ LoneInv /\ LoneUpdateFixesIndex

\* A step of an update under way.
LEMMA LoneOneCall ==
  ASSUME LoneParts, NEW c \in Calls, Only(c), call[c].step # "idle",
         call'[c].step # "idle", call'[c].root = call[c].root, disturbed \subseteq disturbed',
         \A r \in Roots \ {call[c].root} :
            record'[r] = record[r] /\ (r \in incompletes' <=> r \in incompletes),
         call[c].root \notin disturbed' =>
           LoneCall(call'[c], record'[call[c].root], call[c].root \in incompletes')
  PROVE  LoneInv' /\ LoneUpdateFixesIndex'
<1>1. \A r \in Roots : Busy(r)' = Busy(r)  BY DEF Only, Busy
<1>2. c \in Busy(call[c].root) /\ \A d \in Calls : call[d].root \in Roots
  BY DEF Busy, LoneParts, TypeOK, Call
<1>3. LoneInv'
  <2> DEFINE Alone(d) == \A e \in Calls :
                           call'[e].step # "idle" /\ call'[e].root = call'[d].root => e = d
             Knows(d) == LoneCall(call'[d], record'[call'[d].root],
                                  call'[d].root \in incompletes')
  <2>0. \A d \in Calls : call'[d].step = "idle" => call'[d].inserts = {}
    BY <1>2 DEF LoneParts, LoneInv, Only
  <2> SUFFICES ASSUME NEW d \in Calls, call'[d].step # "idle", call'[d].root \notin disturbed'
               PROVE  Alone(d) /\ Knows(d)
    BY <2>0 DEF LoneInv
  <2>1. CASE d = c
    <3>1. call[c].root \notin disturbed  BY <2>1
    <3>2. Alone(c)  BY <3>1 DEF LoneParts, LoneInv, Only
    <3>3. Knows(c)  BY <2>1
    <3> QED  BY <2>1, <3>2, <3>3
  <2>2. CASE d # c
    <3>1. call'[d] = call[d] /\ call[d].root \notin disturbed  BY <2>2 DEF Only
    <3>2. /\ \A e \in Calls : call[e].step # "idle" /\ call[e].root = call[d].root => e = d
          /\ LoneCall(call[d], record[call[d].root], call[d].root \in incompletes)
      BY <3>1 DEF LoneParts, LoneInv
    <3>3. call[d].root # call[c].root  BY <2>2, <3>2
    <3>4. Alone(d)  BY <3>1, <3>2 DEF Only
    <3>5. Knows(d)  BY <1>2, <3>1, <3>2, <3>3
    <3> QED  BY <3>4, <3>5
  <2> QED  BY <2>1, <2>2
<1>4. LoneUpdateFixesIndex'
  BY <1>1, <1>2 DEF LoneParts, LoneUpdateFixesIndex
<1> QED  BY <1>3, <1>4

LEMMA LoneUpdate ==
  ASSUME LoneParts, NEW c \in Calls, NEW r \in Roots, NEW patch \in Patches,
         Update(c, r, patch)
  PROVE  LoneInv' /\ LoneUpdateFixesIndex'
<1>0. TypeOK  BY DEF LoneParts
<1>1. Only(c) /\ call'[c].step = "lock" /\ call'[c].root = r  BY <1>0, UpdateEffect
<1>2. /\ call[c].step = "idle" /\ record' = record /\ incompletes' = incompletes
      /\ disturbed' = IF Busy(r) = {} THEN disturbed \ {r} ELSE disturbed \cup {r}
  BY DEF Update
<1>3. \A q \in Roots : Busy(q)' = IF q = r THEN Busy(r) \cup {c} ELSE Busy(q)
  BY <1>1, <1>2 DEF Only, Busy
<1>4. LoneInv'
  <2> DEFINE Alone(d) == \A e \in Calls :
                           call'[e].step # "idle" /\ call'[e].root = call'[d].root => e = d
             Knows(d) == LoneCall(call'[d], record'[call'[d].root],
                                  call'[d].root \in incompletes')
  <2>0. \A d \in Calls : call'[d].step = "idle" => call'[d].inserts = {}
    BY <1>1 DEF LoneParts, LoneInv, Only
  <2> SUFFICES ASSUME NEW d \in Calls, call'[d].step # "idle", call'[d].root \notin disturbed'
               PROVE  Alone(d) /\ Knows(d)
    BY <2>0 DEF LoneInv
  <2>1. CASE d = c
    <3>1. Busy(r) = {}  BY <1>1, <1>2, <2>1
    <3>2. \A e \in Calls \ {c} : call'[e] = call[e]  BY <1>1 DEF Only
    <3>3. Alone(d)  BY <1>1, <2>1, <3>1, <3>2 DEF Busy
    <3>4. Knows(d)  BY <1>1, <2>1 DEF LoneCall
    <3> QED  BY <3>3, <3>4
  <2>2. CASE d # c
    <3>1. call'[d] = call[d]  BY <1>1, <2>2 DEF Only
    <3>2. call[d].root # r  BY <1>2, <3>1 DEF Busy
    <3>3. call[d].root \notin disturbed  BY <1>2, <3>1, <3>2
    <3>4. /\ \A e \in Calls : call[e].step # "idle" /\ call[e].root = call[d].root => e = d
          /\ LoneCall(call[d], record[call[d].root], call[d].root \in incompletes)
      BY <3>1, <3>3 DEF LoneParts, LoneInv
    <3>5. Alone(d)  BY <1>1, <3>1, <3>2, <3>4 DEF Only
    <3>6. Knows(d)  BY <1>2, <3>1, <3>4
    <3> QED  BY <3>5, <3>6
  <2> QED  BY <2>1, <2>2
<1>5. LoneUpdateFixesIndex'
  BY <1>2, <1>3 DEF LoneParts, LoneUpdateFixesIndex
<1> QED  BY <1>4, <1>5

LEMMA LoneReturn ==
  ASSUME LoneParts, NEW c \in Calls, Return(c)
  PROVE  LoneInv' /\ LoneUpdateFixesIndex'
<1>0. TypeOK  BY DEF LoneParts
<1>1. Only(c) /\ call'[c].step = "idle"  BY <1>0, ReturnEffect, IdleCallType
<1>6. call'[c].inserts = {}  BY <1>0, ReturnEffect, IdleCallType
<1>2. call[c].step = "end" /\ UNCHANGED <<record, incompletes, disturbed>>  BY DEF Return
<1>3. \A r \in Roots : Busy(r)' = Busy(r) \ {c}  BY <1>1 DEF Only, Busy
<1>4. LoneInv'
  <2> DEFINE Alone(d) == \A e \in Calls :
                           call'[e].step # "idle" /\ call'[e].root = call'[d].root => e = d
             Knows(d) == LoneCall(call'[d], record'[call'[d].root],
                                  call'[d].root \in incompletes')
  <2>0. \A d \in Calls : call'[d].step = "idle" => call'[d].inserts = {}
    BY <1>1, <1>6 DEF LoneParts, LoneInv, Only
  <2> SUFFICES ASSUME NEW d \in Calls, call'[d].step # "idle", call'[d].root \notin disturbed'
               PROVE  Alone(d) /\ Knows(d)
    BY <2>0 DEF LoneInv
  <2>1. d # c /\ call'[d] = call[d]  BY <1>1 DEF Only
  <2>2. /\ \A e \in Calls : call[e].step # "idle" /\ call[e].root = call[d].root => e = d
        /\ LoneCall(call[d], record[call[d].root], call[d].root \in incompletes)
    BY <1>2, <2>1 DEF LoneParts, LoneInv
  <2>3. Alone(d)  BY <1>1, <2>1, <2>2 DEF Only
  <2>4. Knows(d)  BY <1>2, <2>1, <2>2
  <2> QED  BY <2>3, <2>4
<1>5. LoneUpdateFixesIndex'
  <2> SUFFICES ASSUME NEW r \in Roots, Busy(r)' = {}, r \notin disturbed, record[r] # {}
               PROVE  r \in incompletes <=> IsItemIncomplete(record[r])
    BY <1>2 DEF LoneUpdateFixesIndex
  <2>1. CASE call[c].root = r
    BY <1>2, <2>1 DEF LoneParts, LoneInv, LoneCall
  <2>2. CASE call[c].root # r
    <3>1. Busy(r) = {}  BY <1>3, <2>2 DEF Busy
    <3> QED  BY <3>1 DEF LoneParts, LoneUpdateFixesIndex
  <2> QED  BY <2>1, <2>2
<1> QED  BY <1>4, <1>5

LEMMA LoneCrash == ASSUME LoneParts, Crash PROVE LoneInv' /\ LoneUpdateFixesIndex'
<1>1. \A c \in Calls : call'[c].step = "idle"  BY IdleCallType DEF Crash
<1>2. LoneInv'
  <2>1. \A c \in Calls : call'[c].inserts = {}  BY IdleCallType DEF Crash
  <2> QED  BY <1>1, <2>1 DEF LoneInv
<1>3. \A r \in Roots : r \notin disturbed' => Busy(r) = {} /\ r \notin disturbed
  BY DEF Crash
<1>4. LoneUpdateFixesIndex'
  BY <1>3 DEF LoneParts, LoneUpdateFixesIndex, Crash
<1> QED  BY <1>2, <1>4

LEMMA LoneStep ==
  ASSUME LoneParts, NEW c \in Calls, Step(c) PROVE LoneInv' /\ LoneUpdateFixesIndex'
<1>0. TypeOK /\ call[c].root \in Roots  BY DEF LoneParts, TypeOK, Call
<1>1. CASE Return(c)  BY <1>1, LoneReturn
<1>2. CASE GetUpdateData(c)
  <2>1. /\ Only(c) /\ call'[c].step = "put" /\ call'[c].root = call[c].root
    BY <1>0, <1>2, GetEffect
  <2>2. disturbed \subseteq disturbed' /\ UNCHANGED <<record, incompletes>>
        /\ call[c].step = "lock"
    BY <1>2 DEF GetUpdateData, Fault
  <2>3. LoneCall(call'[c], record'[call[c].root], call[c].root \in incompletes')
    BY <2>1 DEF LoneCall
  <2> QED  BY <2>1, <2>2, <2>3, LoneOneCall
<1>3. CASE Put(c)
  <2>1. "reread" \in Steps /\ "end" \in Steps  BY DEF Steps
  <2>2. /\ disturbed \subseteq disturbed' /\ incompletes' = incompletes
        /\ call[c].step = "put"
        /\ \/ Goes(c, "reread", {})
           \/ Goes(c, "end", {}) /\ call[c].root \in disturbed'
    BY <1>3 DEF Put, Fault
  <2>3. \A r \in Roots \ {call[c].root} : record'[r] = record[r]
    BY <1>0, <1>3 DEF Put, TypeOK
  <2>4. CASE Goes(c, "reread", {})
    <3>1. Only(c) /\ call'[c].step = "reread" /\ call'[c].root = call[c].root
      BY <1>0, <2>1, <2>4, ForgetsEffect
    <3>2. LoneCall(call'[c], record'[call[c].root], call[c].root \in incompletes')
      BY <3>1 DEF LoneCall
    <3> QED  BY <2>2, <2>3, <3>1, <3>2, LoneOneCall
  <2>5. CASE Goes(c, "end", {}) /\ call[c].root \in disturbed'
    <3>1. Only(c) /\ call'[c].step = "end" /\ call'[c].root = call[c].root
      BY <1>0, <2>1, <2>5, ForgetsEffect
    <3> QED  BY <2>2, <2>3, <2>5, <3>1, LoneOneCall
  <2> QED  BY <2>2, <2>4, <2>5
<1>4. CASE Reread(c)
  <2> DEFINE value == record[call[c].root]
  <2>0. value \subseteq Fields /\ "exists" \in Steps /\ "end" \in Steps
    BY <1>0 DEF TypeOK, Steps
  <2>1. /\ disturbed \subseteq disturbed' /\ UNCHANGED <<record, incompletes>>
        /\ call[c].step = "reread"
        /\ \/ Goes(c, "exists", value)
           \/ Goes(c, "end", {}) /\ call[c].root \in disturbed'
    BY <1>4 DEF Reread, Fault
  <2>2. record'[call[c].root] = value  BY <2>1
  <2> HIDE DEF value
  <2>3. CASE Goes(c, "exists", value)
    <3>1. Only(c) /\ call'[c].step = "exists" /\ call'[c].root = call[c].root
          /\ call'[c].value = value
      BY <1>0, <2>0, <2>3, GoesEffect
    <3>2. LoneCall(call'[c], record'[call[c].root], call[c].root \in incompletes')
      BY <2>2, <3>1 DEF LoneCall
    <3> QED  BY <2>1, <3>1, <3>2, LoneOneCall
  <2>4. CASE Goes(c, "end", {}) /\ call[c].root \in disturbed'
    <3>1. Only(c) /\ call'[c].step = "end" /\ call'[c].root = call[c].root
      BY <1>0, <2>0, <2>4, ForgetsEffect
    <3> QED  BY <2>1, <2>4, <3>1, LoneOneCall
  <2> QED  BY <2>1, <2>3, <2>4
<1>5. CASE Exists(c)
  <2> DEFINE incomplete == IsItemIncomplete(call[c].value)
  <2>1. PICK exists \in BOOLEAN :
          /\ Goes(c, Decision(incomplete, exists), {})
          /\ call[c].root \in disturbed' \/ exists = (call[c].root \in incompletes)
    BY <1>5 DEF Exists, Fault
  <2>2. incomplete \in BOOLEAN  BY DEF IsItemIncomplete
  <2>3. call[c].step = "exists" /\ disturbed \subseteq disturbed'
        /\ UNCHANGED <<record, incompletes>>
    BY <1>5 DEF Exists, Fault
  <2>4. call[c].root \notin disturbed' => incomplete = IsItemIncomplete(record[call[c].root])
    BY <2>3 DEF LoneParts, LoneInv, LoneCall
  <2> HIDE DEF incomplete
  <2> DEFINE step == Decision(incomplete, exists)
  <2>5. step \in {"mark", "unmark", "end"} /\ {"mark", "unmark", "end"} \subseteq Steps
        /\ (step = "mark" => incomplete) /\ (step = "unmark" => ~incomplete)
        /\ (step = "end" => exists = incomplete)
    BY <2>1, <2>2 DEF Decision, Steps
  <2>6. Goes(c, step, {})  BY <2>1
  <2> HIDE DEF step
  <2>7. Only(c) /\ call'[c].step = step /\ call'[c].root = call[c].root
    BY <1>0, <2>5, <2>6, ForgetsEffect
  <2>8. call[c].root \notin disturbed' =>
          LoneCall(call'[c], record'[call[c].root], call[c].root \in incompletes')
    BY <2>1, <2>2, <2>3, <2>4, <2>5, <2>7 DEF LoneCall
  <2>9. call[c].step # "idle" /\ call'[c].step # "idle"  BY <2>3, <2>5, <2>7
  <2> QED  BY <2>3, <2>7, <2>8, <2>9, LoneOneCall
<1>6. CASE UpsertIncomplete(c)
  <2>1. Only(c) /\ call'[c].step = "end" /\ call'[c].root = call[c].root
    BY <1>0, <1>6, UpsertEffect
  <2>2. call[c].root \notin disturbed =>
          LoneCall(call[c], record[call[c].root], call[c].root \in incompletes)
    BY <1>6 DEF LoneParts, LoneInv, UpsertIncomplete
  <2>3. UNCHANGED <<record, disturbed>>
        /\ \A r \in Roots \ {call[c].root} : r \in incompletes' <=> r \in incompletes
    BY <1>6 DEF UpsertIncomplete
  <2>4. call[c].root \notin disturbed' =>
          LoneCall(call'[c], record'[call[c].root], call[c].root \in incompletes')
    BY <1>6, <2>1, <2>2, <2>3 DEF UpsertIncomplete, LoneCall
  <2>5. call[c].step # "idle" /\ call'[c].step # "idle"  BY <1>6, <2>1 DEF UpsertIncomplete
  <2> QED  BY <2>1, <2>3, <2>4, <2>5, LoneOneCall
<1>7. ASSUME NEW ix \in Indexes, InsertItem(c, ix)
      PROVE  LoneInv' /\ LoneUpdateFixesIndex'
  <2>0. call[c].step # "idle"  BY <1>7 DEF InsertItem, LoneParts, LoneInv
  <2>1. /\ Only(c) /\ call'[c].step = call[c].step /\ call'[c].root = call[c].root
        /\ call'[c].value = call[c].value
    BY <1>0, <1>7, InsertEffect
  <2>2. UNCHANGED <<record, incompletes, disturbed>>  BY <1>7 DEF InsertItem
  <2>3. call[c].root \notin disturbed' =>
          LoneCall(call'[c], record'[call[c].root], call[c].root \in incompletes')
    BY <2>0, <2>1, <2>2 DEF LoneParts, LoneInv, LoneCall
  <2> QED  BY <2>0, <2>1, <2>2, <2>3, LoneOneCall
<1> QED  BY <1>1, <1>2, <1>3, <1>4, <1>5, <1>6, <1>7 DEF Step

LEMMA LoneNext ==
  ASSUME MutexInv, LoneInv, LoneUpdateFixesIndex, [Next]_vars
  PROVE  LoneInv' /\ LoneUpdateFixesIndex'
<1>0. LoneParts  BY DEF LoneParts, MutexInv
<1>1. CASE UNCHANGED vars
  BY <1>1 DEF vars, LoneInv, LoneUpdateFixesIndex, Busy
<1>2. CASE Next  BY <1>0, <1>2, LoneCrash, LoneStep, LoneUpdate DEF Next
<1> QED  BY <1>1, <1>2

\* An update that overlaps no other one and is not cut short leaves the index of incomplete
\* items right.
THEOREM LoneUpdate_FixesIndex == Spec => []LoneUpdateFixesIndex
<1> DEFINE Inv == MutexInv /\ LoneInv /\ LoneUpdateFixesIndex
<1>1. Init => Inv  BY InitHolds DEF DbInv, MutexInv
<1>2. Inv /\ [Next]_vars => Inv'  BY MutexNext, LoneNext
<1>3. Inv => LoneUpdateFixesIndex  OBVIOUS
<1> HIDE DEF Inv
<1> QED  BY <1>1, <1>2, <1>3, PTL DEF Spec

-----------------------------------------------------------------------------
(* The indexes that are only inserted into. *)

LEMMA FaultsStay == ASSUME TypeOK, [Next]_vars, NoFault' PROVE NoFault /\ ~Crash
<1>1. faults \in Nat /\ crashes \in Nat  BY DEF TypeOK
<1>2. \A c \in Calls : Step(c) => /\ crashes' = crashes
                                  /\ faults' = faults \/ faults' = faults + 1
  BY DEF Step, GetUpdateData, Put, Reread, Exists, UpsertIncomplete, Return, InsertItem, Fault
<1>3. \A c \in Calls, r \in Roots, patch \in Patches :
        Update(c, r, patch) => UNCHANGED <<faults, crashes>>
  BY DEF Update
<1>4. Crash => crashes' = crashes + 1 /\ faults' = faults  BY DEF Crash
<1> QED  BY <1>1, <1>2, <1>3, <1>4 DEF Next, vars, NoFault

EntriesParts == MutexInv /\ EntriesInv /\ NoFault

\* What a step of c does to the fields and entries of the other calls.
LEMMA OthersEntries ==
  ASSUME NEW c \in Calls, Only(c), NEW r \in Roots, NEW ix \in Indexes
  PROVE  /\ (\E d \in Calls : StoredBy(d, r, ix)') <=>
              StoredBy(c, r, ix)' \/ \E d \in Calls \ {c} : StoredBy(d, r, ix)
         /\ (\E d \in Calls : IndexedBy(d, r, ix)') <=>
              IndexedBy(c, r, ix)' \/ \E d \in Calls \ {c} : IndexedBy(d, r, ix)
  BY DEF Only, StoredBy, IndexedBy

LEMMA EntriesUpdate ==
  ASSUME EntriesParts, NEW c \in Calls, NEW r \in Roots, NEW patch \in Patches,
         Update(c, r, patch)
  PROVE  EntriesInv'
<1>0. TypeOK  BY DEF EntriesParts, MutexInv
<1>1. /\ Only(c) /\ call'[c].step = "lock" /\ call'[c].root = r /\ call'[c].patch = patch
      /\ call'[c].blind = FALSE /\ call'[c].inserts = {ix \in Indexes : KeyField[ix] \in patch}
  BY <1>0, UpdateEffect
<1>2. call[c].step = "idle" /\ UNCHANGED <<record, index>>  BY DEF Update
<1>3. \A d \in Calls : ~call'[d].blind  BY <1>1 DEF Only, EntriesParts, EntriesInv
<1>4. ASSUME NEW q \in Roots, NEW ix \in Indexes PROVE Stored(q, ix)' <=> Indexed(q, ix)'
  <2>1. ~StoredBy(c, q, ix) /\ ~IndexedBy(c, q, ix)
    BY <1>2 DEF StoredBy, IndexedBy, Waiting
  <2>2. StoredBy(c, q, ix)' <=> IndexedBy(c, q, ix)'
    BY <1>1 DEF StoredBy, IndexedBy, Waiting
  <2>3. Stored(q, ix) <=> Indexed(q, ix)  BY DEF EntriesParts, EntriesInv
  <2> QED  BY <1>1, <1>2, <2>1, <2>2, <2>3, OthersEntries DEF Stored, Indexed
<1> QED  BY <1>3, <1>4 DEF EntriesInv

LEMMA KeepsEntries ==
  ASSUME TypeOK, NEW c \in Calls, Reread(c) \/ Exists(c) \/ UpsertIncomplete(c)
  PROVE  call'[c].root = call[c].root /\ call'[c].inserts = call[c].inserts
         /\ call'[c].step # "idle"
<1>1. ASSUME NEW step, NEW value, step # "idle", Goes(c, step, value)
      PROVE  call'[c].root = call[c].root /\ call'[c].inserts = call[c].inserts
             /\ call'[c].step # "idle"
  BY <1>1 DEF TypeOK, Goes, Call
<1>2. CASE Reread(c)  BY <1>1, <1>2 DEF Reread
<1>3. CASE Exists(c)
  <2>1. \A a, b \in BOOLEAN : Decision(a, b) # "idle"  BY DEF Decision
  <2>2. IsItemIncomplete(call[c].value) \in BOOLEAN  BY DEF IsItemIncomplete
  <2>3. PICK exists \in BOOLEAN :
          Goes(c, Decision(IsItemIncomplete(call[c].value), exists), {})
    BY <1>3 DEF Exists
  <2> QED  BY <1>1, <2>1, <2>2, <2>3
<1>4. CASE UpsertIncomplete(c)  BY <1>4, UpsertEffect
<1> QED  BY <1>2, <1>3, <1>4

\* Steps that neither store a field nor insert an entry.
LEMMA EntriesQuiet ==
  ASSUME TypeOK, NEW c \in Calls, Step(c), ~Put(c), ~\E ix \in Indexes : InsertItem(c, ix),
         faults' = 0, faults = 0, ~call[c].blind
  PROVE  /\ Only(c) /\ ~call'[c].blind /\ UNCHANGED <<record, index>>
         /\ \A q \in Roots, ix \in Indexes :
               /\ StoredBy(c, q, ix)' <=> StoredBy(c, q, ix)
               /\ IndexedBy(c, q, ix)' <=> IndexedBy(c, q, ix)
<1>1. CASE GetUpdateData(c)
  <2>1. /\ Only(c) /\ call'[c].step = "put" /\ call'[c].root = call[c].root
        /\ call'[c].patch = call[c].patch /\ call'[c].inserts = call[c].inserts
        /\ call'[c].blind = call[c].blind
    BY <1>1, GetEffect
  <2>2. UNCHANGED <<record, index>> /\ call[c].step = "lock"  BY <1>1 DEF GetUpdateData
  <2> QED  BY <2>1, <2>2 DEF StoredBy, IndexedBy, Waiting
<1>2. CASE Reread(c) \/ Exists(c) \/ UpsertIncomplete(c)
  <2>1. /\ Only(c) /\ call'[c].step \notin {"lock", "put"}
        /\ ~call'[c].blind
    BY <1>2, LeavesMutex
  <2>2. /\ UNCHANGED <<record, index>> /\ call[c].step \notin {"lock", "put", "idle"}
    BY <1>2 DEF Reread, Exists, UpsertIncomplete
  <2>3. call'[c].root = call[c].root /\ call'[c].inserts = call[c].inserts
        /\ call'[c].step # "idle"
    BY <1>2, KeepsEntries
  <2> QED  BY <2>1, <2>2, <2>3 DEF StoredBy, IndexedBy, Waiting
<1>3. CASE Return(c)
  <2>1. Only(c) /\ call'[c] = IdleCall  BY <1>3, ReturnEffect
  <2>2. UNCHANGED <<record, index>> /\ call[c].step = "end" /\ call[c].inserts = {}
    BY <1>3 DEF Return
  <2> QED  BY <2>1, <2>2, IdleCallType DEF StoredBy, IndexedBy, Waiting
<1> QED  BY <1>1, <1>2, <1>3 DEF Step

LEMMA EntriesStep ==
  ASSUME EntriesParts, LoneInv, NEW c \in Calls, Step(c), NoFault' PROVE EntriesInv'
<1>0. TypeOK /\ c \in Calls  BY DEF EntriesParts, MutexInv
<1>1. \A q \in Roots, ix \in Indexes : Stored(q, ix) <=> Indexed(q, ix)
  BY DEF EntriesParts, EntriesInv
<1>2. faults = 0 /\ faults' = 0 /\ ~call[c].blind
  BY DEF EntriesParts, EntriesInv, NoFault
<1> DEFINE Same == \A q \in Roots, ix \in Indexes :
             /\ Stored(q, ix)' <=> Stored(q, ix)
             /\ Indexed(q, ix)' <=> Indexed(q, ix)
<1>3. ASSUME Only(c), ~call'[c].blind, Same PROVE EntriesInv'
  <2>1. \A d \in Calls : ~call'[d].blind  BY <1>3 DEF Only, EntriesParts, EntriesInv
  <2>2. \A q \in Roots, ix \in Indexes : Stored(q, ix)' <=> Indexed(q, ix)'  BY <1>1, <1>3
  <2> QED  BY <2>1, <2>2 DEF EntriesInv
<1>4. CASE \E ix \in Indexes : InsertItem(c, ix)
  <2>1. PICK new \in Indexes : InsertItem(c, new)  BY <1>4
  <2>2. /\ Only(c) /\ call'[c].step = call[c].step /\ call'[c].root = call[c].root
        /\ call'[c].patch = call[c].patch /\ call'[c].blind = call[c].blind
        /\ call'[c].inserts = call[c].inserts \ {new}
    BY <1>0, <2>1, InsertEffect
  <2>3. /\ record' = record /\ new \in call[c].inserts /\ call[c].step # "idle"
        /\ index' = [index EXCEPT ![new] = @ \cup {call[c].root}]
    BY <2>1 DEF InsertItem, LoneInv
  <2>4. ASSUME NEW q \in Roots, NEW ix \in Indexes
        PROVE  (Stored(q, ix)' <=> Stored(q, ix)) /\ (Indexed(q, ix)' <=> Indexed(q, ix))
    <3>1. StoredBy(c, q, ix)' <=> StoredBy(c, q, ix)  BY <2>2 DEF StoredBy
    <3>2. q \in index'[ix] \/ IndexedBy(c, q, ix)' <=> q \in index[ix] \/ IndexedBy(c, q, ix)
      BY <1>0, <2>2, <2>3 DEF IndexedBy, TypeOK
    <3> QED  BY <2>2, <2>3, <3>1, <3>2, OthersEntries DEF Stored, Indexed
  <2> QED  BY <1>2, <1>3, <2>2, <2>4
<1>5. CASE Put(c)
  <2>1. /\ Goes(c, "reread", {}) /\ index' = index /\ call[c].step = "put"
        /\ record' = [record EXCEPT ![call[c].root] = call[c].value \cup call[c].patch]
    BY <1>2, <1>5 DEF Put, Fault
  <2>2. "reread" \in Steps  BY DEF Steps
  <2>3. /\ Only(c) /\ call'[c].step = "reread" /\ call'[c].root = call[c].root
        /\ call'[c].patch = {} /\ call'[c].blind = FALSE
        /\ call'[c].inserts = call[c].inserts
    BY <1>0, <2>1, <2>2, ForgetsEffect
  <2>4. call[c].value = record[call[c].root]
    BY <1>2, <2>1 DEF EntriesParts, MutexInv, HolderInv
  <2>5. ASSUME NEW q \in Roots, NEW ix \in Indexes
        PROVE  (Stored(q, ix)' <=> Stored(q, ix)) /\ (Indexed(q, ix)' <=> Indexed(q, ix))
    <3>1. KeyField[ix] \in record'[q] \/ StoredBy(c, q, ix)' <=>
            KeyField[ix] \in record[q] \/ StoredBy(c, q, ix)
      BY <1>0, <2>1, <2>3, <2>4 DEF StoredBy, Waiting, TypeOK
    <3>2. IndexedBy(c, q, ix)' <=> IndexedBy(c, q, ix)  BY <2>1, <2>3 DEF IndexedBy
    <3> QED  BY <2>1, <2>3, <3>1, <3>2, OthersEntries DEF Stored, Indexed
  <2> QED  BY <1>3, <2>3, <2>5
<1>6. CASE ~Put(c) /\ ~\E ix \in Indexes : InsertItem(c, ix)
  <2>1. /\ Only(c) /\ ~call'[c].blind /\ UNCHANGED <<record, index>>
        /\ \A q \in Roots, ix \in Indexes :
              /\ StoredBy(c, q, ix)' <=> StoredBy(c, q, ix)
              /\ IndexedBy(c, q, ix)' <=> IndexedBy(c, q, ix)
    BY <1>0, <1>2, <1>6, EntriesQuiet
  <2>2. Same  BY <2>1, OthersEntries DEF Stored, Indexed
  <2> QED  BY <1>3, <2>1, <2>2
<1> QED  BY <1>4, <1>5, <1>6

LEMMA EntriesNext ==
  ASSUME MutexInv, LoneInv, EntriesInv, [Next]_vars PROVE EntriesInv'
<1> SUFFICES ASSUME NoFault' PROVE EntriesInv'  BY DEF EntriesInv
<1>1. NoFault /\ ~Crash  BY FaultsStay DEF MutexInv
<1>2. EntriesParts  BY <1>1 DEF EntriesParts
<1>3. CASE UNCHANGED vars
  BY <1>3 DEF vars, EntriesInv, Stored, Indexed, StoredBy, IndexedBy, NoFault
<1>4. CASE Next  BY <1>1, <1>2, <1>4, EntriesStep, EntriesUpdate DEF Next
<1> QED  BY <1>3, <1>4

\* As long as nothing fails, the indexes that are only inserted into agree with the records
\* once the updates of a root have returned.
THEOREM Indexed_IsStored == Spec => []IndexedIsStored
<1> DEFINE Inv == MutexInv /\ LoneInv /\ LoneUpdateFixesIndex /\ EntriesInv
<1>1. Init => Inv  BY InitHolds DEF DbInv, MutexInv
<1>2. Inv /\ [Next]_vars => Inv'  BY MutexNext, LoneNext, EntriesNext
<1>3. Inv => IndexedIsStored
  BY DEF IndexedIsStored, EntriesInv, NoFault, Stored, Indexed, StoredBy, IndexedBy, Busy,
         Waiting
<1> HIDE DEF Inv
<1> QED  BY <1>1, <1>2, <1>3, PTL DEF Spec
=============================================================================
