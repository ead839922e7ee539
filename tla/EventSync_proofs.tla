-------------------------- MODULE EventSync_proofs --------------------------
(***************************************************************************)
(* EventSync skips no event and implements EventDelivery, for every number *)
(* of rounds, kinds and blocks and whatever fails.  The invariant says of  *)
(* every call of mapEventsBatch what it has read so far: the blocks above  *)
(* the current batch, and those below the block it will end at.            *)
(* A second one orders the calls of a round: settle events come last.      *)
(* A third one says what is in the db as long as nothing fails.            *)
(***************************************************************************)
EXTENDS EventSync, TLAPS

\* A watermark, given the last final block and the blocks that were read.
GoodMark(w, hd, read) ==
  w = 0 \/ (w \in Deployed .. hd /\ Deployed .. w \subseteq read)

\* A call of mapEventsBatch; c: its round uses the watermarks.
GoodTask(t, c, hd, read) ==
  /\ t.step \in {"waiting", "state", "head"} /\ ~c => CustomStart # 0
  /\ t.step = "head" => GoodMark(t.from, hd, read)
  /\ t.step = "fetch" =>
       /\ Deployed <= t.earliest /\ t.earliest <= t.start /\ t.start <= t.end
       /\ t.end <= t.latest /\ t.latest <= hd
       /\ c => Deployed .. t.earliest - 1 \subseteq read
       /\ t.end + 1 .. t.latest \subseteq read
  /\ t.step = "store" => t.latest # 0 /\ GoodMark(t.latest, hd, read)

MarksInv == \A k \in Keys : GoodMark(synced[k], head, started[k])
TasksInv == \A r \in Rounds, k \in Keys :
              GoodTask(task[r][k], cached[r], head, started[k])
SyncInv == TypeOK /\ MarksInv /\ TasksInv

-----------------------------------------------------------------------------
(* What was read stays read, and the chain only grows. *)

LEMMA MarkStays ==
  ASSUME NEW w \in Nat, NEW hd \in Nat, NEW hd2 \in Nat, hd <= hd2,
         NEW read, NEW read2, read \subseteq read2, GoodMark(w, hd, read)
  PROVE  GoodMark(w, hd2, read2)
  BY BlocksAssumption DEF GoodMark

LEMMA TaskStays ==
  ASSUME NEW t \in Task, NEW c \in BOOLEAN, NEW hd \in Nat, NEW hd2 \in Nat, hd <= hd2,
         NEW read, NEW read2, read \subseteq read2, GoodTask(t, c, hd, read)
  PROVE  GoodTask(t, c, hd2, read2)
<1>1. t.from \in Nat /\ t.latest \in Nat /\ t.start \in Nat /\ t.end \in Nat /\ t.earliest \in Nat
  BY DEF Task
<1>2. t.step = "head" => GoodMark(t.from, hd2, read2)
  BY <1>1, MarkStays DEF GoodTask
<1>3. t.step = "store" => t.latest # 0 /\ GoodMark(t.latest, hd2, read2)
  BY <1>1, MarkStays DEF GoodTask
<1>4. t.step = "fetch" =>
        /\ Deployed <= t.earliest /\ t.earliest <= t.start /\ t.start <= t.end
        /\ t.end <= t.latest /\ t.latest <= hd2
        /\ c => Deployed .. t.earliest - 1 \subseteq read2
        /\ t.end + 1 .. t.latest \subseteq read2
  BY <1>1, BlocksAssumption DEF GoodTask
<1> QED  BY <1>2, <1>3, <1>4 DEF GoodTask

\* A call that reads nothing yet, or no more.
LEMMA AtIsGood ==
  ASSUME NEW step \in {"none", "done", "failed"}, NEW c, NEW hd, NEW read
  PROVE  At(step) \in Task /\ GoodTask(At(step), c, hd, read)
  BY DEF At, Task, GoodTask

LEMMA StateIsGood ==
  ASSUME NEW step \in {"waiting", "state"}, NEW c, NEW hd, NEW read, c \/ CustomStart # 0
  PROVE  At(step) \in Task /\ GoodTask(At(step), c, hd, read)
  BY DEF At, Task, GoodTask

\* A step that leaves the calls, the watermarks and what was read alone.
LEMMA NothingRead ==
  ASSUME SyncInv, UNCHANGED <<synced, task, cached, started>>,
         head' \in Nat, head <= head', TypeOK'
  PROVE  SyncInv'
<1>1. MarksInv'
  <2> SUFFICES ASSUME NEW k \in Keys PROVE GoodMark(synced[k], head', started[k])
    BY DEF MarksInv
  <2>1. GoodMark(synced[k], head, started[k])  BY DEF SyncInv, MarksInv
  <2> QED  BY <2>1, MarkStays DEF SyncInv, TypeOK
<1>2. TasksInv'
  <2> SUFFICES ASSUME NEW r \in Rounds, NEW k \in Keys
               PROVE  GoodTask(task[r][k], cached[r], head', started[k])
    BY DEF TasksInv
  <2>1. GoodTask(task[r][k], cached[r], head, started[k])  BY DEF SyncInv, TasksInv
  <2> QED  BY <2>1, TaskStays DEF SyncInv, TypeOK
<1> QED  BY <1>1, <1>2 DEF SyncInv

\* A step of one call that reads nothing and leaves the watermarks alone.
LEMMA OneCall ==
  ASSUME SyncInv, NEW r \in Rounds, NEW k \in Keys, NEW t \in Task, Becomes(r, k, t),
         GoodTask(t, cached[r], head, started[k]),
         UNCHANGED <<head, synced, cached, handlers, current, initialSyncCompleted, started,
                     handled, crashes>>,
         faults' \in Nat
  PROVE  SyncInv'
<1>1. task' = [task EXCEPT ![r][k] = t]  BY DEF Becomes
<1>2. TypeOK'  BY <1>1 DEF SyncInv, TypeOK
<1>3. MarksInv'  BY DEF SyncInv, MarksInv
<1>4. TasksInv'
  <2> SUFFICES ASSUME NEW q \in Rounds, NEW j \in Keys
               PROVE  GoodTask(task'[q][j], cached[q], head, started[j])
    BY DEF TasksInv
  <2>1. CASE q = r /\ j = k  BY <1>1, <2>1 DEF SyncInv, TypeOK
  <2>2. CASE ~(q = r /\ j = k)
    <3>1. task'[q][j] = task[q][j]  BY <1>1, <2>2 DEF SyncInv, TypeOK
    <3> QED  BY <3>1 DEF SyncInv, TasksInv
  <2> QED  BY <2>1, <2>2
<1> QED  BY <1>2, <1>3, <1>4 DEF SyncInv

-----------------------------------------------------------------------------
(* The traversal. *)

\* Where a traversal begins and ends.
LEMMA RangeIsGood ==
  ASSUME SyncInv, NEW r \in Rounds, NEW k \in Keys, task[r][k].step = "head",
         NEW h \in Nat, InitialHead <= h, h <= head
  PROVE  /\ Range(r, task[r][k], h) \in Task
         /\ GoodTask(Range(r, task[r][k], h), cached[r], head, started[k])
<1> DEFINE t == task[r][k]
           first == IF cached[r] THEN Deployed ELSE CustomStart
           end == IF t.from = 0 THEN h ELSE Greater(h, t.from)
           earliest == IF t.from = 0 THEN first ELSE t.from
           start == IF end - earliest <= BatchBlocks THEN earliest ELSE end - BatchBlocks
           new == Range(r, t, h)
<1>1. t \in Task /\ head \in Nat  BY DEF SyncInv, TypeOK
<1>2. GoodMark(t.from, head, started[k]) /\ (~cached[r] => CustomStart # 0)
  BY DEF SyncInv, TasksInv, GoodTask
<1>3. t.from \in Nat  BY <1>1 DEF Task
<1>4. /\ end \in Nat /\ earliest \in Nat /\ Deployed <= earliest
      /\ earliest <= end /\ end <= head
  BY <1>1, <1>2, <1>3, BlocksAssumption DEF GoodMark, Greater
<1>5. start \in Nat /\ earliest <= start /\ start <= end  BY <1>4, BlocksAssumption
<1>6. cached[r] => Deployed .. earliest - 1 \subseteq started[k]
  <2>1. CASE t.from = 0  BY <2>1, BlocksAssumption
  <2>2. CASE t.from # 0  BY <2>2, <1>2, <1>3, BlocksAssumption DEF GoodMark
  <2> QED  BY <2>1, <2>2
<1>7. new = [t EXCEPT !.step = "fetch", !.end = end, !.earliest = earliest, !.latest = end,
                      !.start = start]
  BY DEF Range
<1>8. /\ new \in Task /\ new.step = "fetch" /\ new.end = end /\ new.earliest = earliest
      /\ new.latest = end /\ new.start = start
  BY <1>1, <1>4, <1>5, <1>7 DEF Task
<1>9. end + 1 .. end \subseteq started[k]  BY <1>4
<1> QED  BY <1>4, <1>5, <1>6, <1>8, <1>9 DEF GoodTask

\* A batch of blocks and the one before it.
LEMMA FetchKeeps ==
  ASSUME SyncInv, NEW r \in Rounds, NEW k \in Keys, Fetch(r, k)
  PROVE  SyncInv'
<1> DEFINE t == task[r][k]
           batch == t.start .. t.end
           new == IF t.start # t.earliest THEN NextBatch(t)
                  ELSE [t EXCEPT !.step = IF cached[r] THEN "store" ELSE "await"]
<1>0. /\ t.step = "fetch" /\ task' = [task EXCEPT ![r][k] = new]
      /\ handlers' = handlers \cup ({r} \X {k} \X batch)
      /\ started' = [started EXCEPT ![k] = @ \cup batch]
      /\ UNCHANGED <<head, synced, cached, current, initialSyncCompleted, handled, faults,
                     crashes>>
  BY DEF Fetch, Becomes
<1>1. t \in Task /\ head \in Nat /\ cached[r] \in BOOLEAN  BY DEF SyncInv, TypeOK
<1>2. /\ t.start \in Nat /\ t.end \in Nat /\ t.earliest \in Nat /\ t.latest \in Nat
  BY <1>1 DEF Task
<1>3. /\ Deployed <= t.earliest /\ t.earliest <= t.start /\ t.start <= t.end
      /\ t.end <= t.latest /\ t.latest <= head
      /\ cached[r] => Deployed .. t.earliest - 1 \subseteq started[k]
      /\ t.end + 1 .. t.latest \subseteq started[k]
  BY <1>0 DEF SyncInv, TasksInv, GoodTask
<1>4. batch \subseteq Deployed .. head  BY <1>1, <1>2, <1>3, BlocksAssumption
<1>5. started'[k] = started[k] \cup batch /\ \A j \in Keys : started[j] \subseteq started'[j]
  BY <1>0 DEF SyncInv, TypeOK
<1>6. new \in Task /\ GoodTask(new, cached[r], head, started'[k])
  <2>1. CASE t.start # t.earliest
    <3> DEFINE start == Greater(t.start - 1 - BatchBlocks, t.earliest)
    <3>1. /\ start \in Nat /\ t.start - 1 \in Nat /\ t.earliest <= start
          /\ start <= t.start - 1
      BY <1>2, <1>3, <2>1, BlocksAssumption DEF Greater
    <3>2. new = [t EXCEPT !.end = t.start - 1, !.start = start]  BY <2>1 DEF NextBatch
    <3>3. /\ new \in Task /\ new.step = "fetch" /\ new.start = start /\ new.end = t.start - 1
          /\ new.earliest = t.earliest /\ new.latest = t.latest
      BY <1>0, <1>1, <3>1, <3>2 DEF Task
    <3>4. t.start - 1 + 1 .. t.latest \subseteq started'[k]  BY <1>2, <1>3, <1>5
    <3>5. cached[r] => Deployed .. t.earliest - 1 \subseteq started'[k]  BY <1>3, <1>5
    <3> HIDE DEF start, new
    <3>6. t.start - 1 <= t.latest  BY <1>2, <1>3
    <3> QED  BY <1>3, <3>1, <3>3, <3>4, <3>5, <3>6 DEF GoodTask
  <2>2. CASE t.start = t.earliest /\ cached[r]
    <3>1. new \in Task /\ new.step = "store" /\ new.latest = t.latest
      BY <1>1, <2>2 DEF Task
    <3>2. Deployed .. t.latest \subseteq started'[k]
      BY <1>2, <1>3, <1>5, <2>2, BlocksAssumption
    <3>3. t.latest \in Deployed .. head  BY <1>1, <1>2, <1>3, BlocksAssumption
    <3> HIDE DEF new
    <3> QED  BY <3>1, <3>2, <3>3, BlocksAssumption DEF GoodTask, GoodMark
  <2>3. CASE t.start = t.earliest /\ ~cached[r]
    <3>1. new \in Task /\ new.step = "await"  BY <1>1, <2>3 DEF Task
    <3> QED  BY <3>1 DEF GoodTask
  <2> QED  BY <2>1, <2>2, <2>3
<1> HIDE DEF new
<1>7. TypeOK'
  <2>1. task' \in [Rounds -> [Keys -> Task]]  BY <1>0, <1>6 DEF SyncInv, TypeOK
  <2>2. started' \in [Keys -> SUBSET (Deployed .. head')]
    BY <1>0, <1>4 DEF SyncInv, TypeOK
  <2>3. handlers' \subseteq Rounds \X Keys \X (Deployed .. head')
    BY <1>0, <1>4 DEF SyncInv, TypeOK
  <2> QED  BY <1>0, <2>1, <2>2, <2>3 DEF SyncInv, TypeOK
<1>8. MarksInv'
  <2> SUFFICES ASSUME NEW j \in Keys PROVE GoodMark(synced[j], head, started'[j])
    BY <1>0 DEF MarksInv
  <2>1. GoodMark(synced[j], head, started[j]) /\ synced[j] \in Nat
    BY DEF SyncInv, MarksInv, TypeOK
  <2> QED  BY <2>1, <1>1, <1>5, MarkStays
<1>9. TasksInv'
  <2> SUFFICES ASSUME NEW q \in Rounds, NEW j \in Keys
               PROVE  GoodTask(task'[q][j], cached[q], head, started'[j])
    BY <1>0 DEF TasksInv
  <2>1. CASE q = r /\ j = k  BY <1>0, <1>6, <2>1 DEF SyncInv, TypeOK
  <2>2. CASE ~(q = r /\ j = k)
    <3>1. task'[q][j] = task[q][j] /\ task[q][j] \in Task /\ cached[q] \in BOOLEAN
      BY <1>0, <2>2 DEF SyncInv, TypeOK
    <3>2. GoodTask(task[q][j], cached[q], head, started[j])  BY DEF SyncInv, TasksInv
    <3> QED  BY <1>1, <1>5, <3>1, <3>2, TaskStays
  <2> QED  BY <2>1, <2>2
<1> QED  BY <1>7, <1>8, <1>9 DEF SyncInv

LEMMA StoreKeeps ==
  ASSUME SyncInv, NEW r \in Rounds, NEW k \in Keys, StoreSynced(r, k)
  PROVE  SyncInv' /\ Deployed .. task[r][k].latest \subseteq started[k]
                  /\ task[r][k].latest \in Deployed .. head
<1> DEFINE t == task[r][k]
           new == [t EXCEPT !.step = "await"]
<1>0. /\ t.step = "store" /\ task' = [task EXCEPT ![r][k] = new]
      /\ synced' = [synced EXCEPT ![k] = t.latest]
      /\ UNCHANGED <<head, cached, handlers, current, initialSyncCompleted, started, handled,
                     faults, crashes>>
  BY DEF StoreSynced, Becomes
<1>1. t \in Task /\ head \in Nat  BY DEF SyncInv, TypeOK
<1>2. t.latest # 0 /\ GoodMark(t.latest, head, started[k])
  BY <1>0 DEF SyncInv, TasksInv, GoodTask
<1>3. new \in Task /\ new.step = "await" /\ t.latest \in Nat  BY <1>1 DEF Task
<1> HIDE DEF new
<1>4. TypeOK'  BY <1>0, <1>3 DEF SyncInv, TypeOK
<1>5. MarksInv'  BY <1>0, <1>2 DEF SyncInv, MarksInv, TypeOK
<1>6. TasksInv'
  <2> SUFFICES ASSUME NEW q \in Rounds, NEW j \in Keys
               PROVE  GoodTask(task'[q][j], cached[q], head, started[j])
    BY <1>0 DEF TasksInv
  <2>1. CASE q = r /\ j = k
    <3>1. task'[q][j].step = "await"  BY <1>0, <1>3, <2>1 DEF SyncInv, TypeOK
    <3> QED  BY <3>1 DEF GoodTask
  <2>2. CASE ~(q = r /\ j = k)
    <3>1. task'[q][j] = task[q][j]  BY <1>0, <2>2 DEF SyncInv, TypeOK
    <3> QED  BY <3>1 DEF SyncInv, TasksInv
  <2> QED  BY <2>1, <2>2
<1> QED  BY <1>2, <1>4, <1>5, <1>6 DEF SyncInv, GoodMark

-----------------------------------------------------------------------------
(* Every step. *)

LEMMA InitHolds == ASSUME Init PROVE SyncInv
<1>1. TypeOK
  <2>1. At("none") \in Task  BY DEF At, Task
  <2>2. task \in [Rounds -> [Keys -> Task]]  BY <2>1 DEF Init
  <2>3. /\ head \in Nat /\ head >= InitialHead /\ synced \in [Keys -> Nat]
        /\ cached \in [Rounds -> BOOLEAN] /\ handlers = {} /\ current = None
        /\ initialSyncCompleted = FALSE /\ faults = 0 /\ crashes = 0
    BY BlocksAssumption DEF Init
  <2>4. /\ started \in [Keys -> SUBSET (Deployed .. head)]
        /\ handled \in [Keys -> SUBSET (Deployed .. head)]
    BY DEF Init
  <2> QED  BY <2>2, <2>3, <2>4 DEF TypeOK
<1>2. MarksInv  BY DEF Init, MarksInv, GoodMark
<1>3. TasksInv  BY AtIsGood DEF Init, TasksInv
<1> QED  BY <1>1, <1>2, <1>3 DEF SyncInv

\* Steps that call or end calls, and read nothing.
LEMMA RoundKeeps ==
  ASSUME SyncInv, NEW r \in Rounds, Round(r)
  PROVE  SyncInv' /\ UNCHANGED <<head, synced, started>>
<1>1. CASE StartRound(r)
  <2> DEFINE c == initialSyncCompleted \/ CustomStart = 0
             calls == [k \in Keys |-> At(IF k \in Settle THEN "waiting" ELSE "state")]
  <2>1. /\ task' = [task EXCEPT ![r] = calls] /\ cached' = [cached EXCEPT ![r] = c]
        /\ current' = r
        /\ UNCHANGED <<head, synced, handlers, initialSyncCompleted, started, handled,
                       faults, crashes>>
    BY <1>1 DEF StartRound
  <2>2. \A k \in Keys : calls[k] \in Task /\ GoodTask(calls[k], c, head, started[k])
    BY StateIsGood
  <2>3. c \in BOOLEAN  OBVIOUS
  <2> HIDE DEF c
  <2>4. calls \in [Keys -> Task]  BY <2>2
  <2> HIDE DEF calls
  <2>5. TypeOK'  BY <2>1, <2>3, <2>4 DEF SyncInv, TypeOK
  <2>6. MarksInv'  BY <2>1 DEF SyncInv, MarksInv
  <2>7. TasksInv'
    <3> SUFFICES ASSUME NEW q \in Rounds, NEW k \in Keys
                 PROVE  GoodTask(task'[q][k], cached'[q], head, started[k])
      BY <2>1 DEF TasksInv
    <3>1. CASE q = r  BY <2>1, <2>2, <3>1 DEF SyncInv, TypeOK
    <3>2. CASE q # r
      <4>1. task'[q] = task[q] /\ cached'[q] = cached[q]  BY <2>1, <3>2 DEF SyncInv, TypeOK
      <4> QED  BY <4>1 DEF SyncInv, TasksInv
    <3> QED  BY <3>1, <3>2
  <2> QED  BY <2>1, <2>5, <2>6, <2>7 DEF SyncInv
<1>2. CASE StartSettle(r)
  <2> DEFINE calls == [k \in Keys |-> IF k \in Settle THEN At("state") ELSE task[r][k]]
  <2>1. /\ task' = [task EXCEPT ![r] = calls]
        /\ UNCHANGED <<head, synced, cached, handlers, current, initialSyncCompleted,
                       started, handled, faults, crashes>>
    BY <1>2 DEF StartSettle, SyncInv, TypeOK
  <2>2. cached[r] \/ CustomStart # 0
    <3>1. PICK k \in Keys : task[r][k].step = "waiting"  BY <1>2 DEF StartSettle, Keys
    <3>2. GoodTask(task[r][k], cached[r], head, started[k])  BY DEF SyncInv, TasksInv
    <3> QED  BY <3>1, <3>2 DEF GoodTask
  <2>3. \A k \in Keys : calls[k] \in Task /\ GoodTask(calls[k], cached[r], head, started[k])
    BY <2>2, StateIsGood DEF SyncInv, TypeOK, TasksInv
  <2>4. calls \in [Keys -> Task]  BY <2>3
  <2> HIDE DEF calls
  <2>5. TypeOK'  BY <2>1, <2>4 DEF SyncInv, TypeOK
  <2>6. MarksInv'  BY <2>1 DEF SyncInv, MarksInv
  <2>7. TasksInv'
    <3> SUFFICES ASSUME NEW q \in Rounds, NEW k \in Keys
                 PROVE  GoodTask(task'[q][k], cached[q], head, started[k])
      BY <2>1 DEF TasksInv
    <3>1. CASE q = r  BY <2>1, <2>3, <3>1 DEF SyncInv, TypeOK
    <3>2. CASE q # r
      <4>1. task'[q] = task[q]  BY <2>1, <3>2 DEF SyncInv, TypeOK
      <4> QED  BY <4>1 DEF SyncInv, TasksInv
    <3> QED  BY <3>1, <3>2
  <2> QED  BY <2>1, <2>5, <2>6, <2>7 DEF SyncInv
<1>3. CASE EndRound(r)
  <2>1. TypeOK'  BY <1>3 DEF EndRound, SyncInv, TypeOK
  <2> QED  BY <1>3, <2>1 DEF EndRound, SyncInv, MarksInv, TasksInv
<1>4. CASE FailRound(r)
  <2>1. TypeOK'  BY <1>4 DEF FailRound, Fault, SyncInv, TypeOK
  <2> QED  BY <1>4, <2>1 DEF FailRound, SyncInv, MarksInv, TasksInv
<1> QED  BY <1>1, <1>2, <1>3, <1>4 DEF Round

\* A step of one call.
LEMMA CallKeeps ==
  ASSUME SyncInv, NEW r \in Rounds, NEW k \in Keys, Call(r, k)
  PROVE  SyncInv'
<1>0. task[r][k] \in Task /\ cached[r] \in BOOLEAN /\ head \in Nat /\ faults \in Nat
      /\ GoodTask(task[r][k], cached[r], head, started[k])
  BY DEF SyncInv, TypeOK, TasksInv
<1>1. CASE ReadState(r, k)
  <2> DEFINE from == IF cached[r] THEN synced[k] ELSE 0
             new == [task[r][k] EXCEPT !.step = "head", !.from = from]
  <2>1. from \in Nat /\ GoodMark(from, head, started[k])
    BY DEF SyncInv, TypeOK, MarksInv, GoodMark
  <2>2. new \in Task /\ new.step = "head" /\ new.from = from  BY <1>0, <2>1 DEF Task
  <2>3. ~cached[r] => CustomStart # 0  BY <1>0, <1>1 DEF ReadState, GoodTask
  <2>4. Becomes(r, k, new)  BY <1>1 DEF ReadState
  <2> HIDE DEF new
  <2>5. GoodTask(new, cached[r], head, started[k])  BY <2>1, <2>2, <2>3 DEF GoodTask
  <2> QED  BY <1>0, <1>1, <2>2, <2>4, <2>5, OneCall DEF ReadState
<1>2. CASE ReadHead(r, k)
  <2>1. PICK h \in Nat : InitialHead <= h /\ h <= head
                         /\ Becomes(r, k, Range(r, task[r][k], h))
    BY <1>2, BlocksAssumption DEF ReadHead, SyncInv, TypeOK
  <2>2. task[r][k].step = "head" /\ faults' \in Nat  BY <1>0, <1>2 DEF ReadHead, Fault
  <2>3. /\ Range(r, task[r][k], h) \in Task
        /\ GoodTask(Range(r, task[r][k], h), cached[r], head, started[k])
    BY <2>1, <2>2, RangeIsGood
  <2> QED  BY <1>2, <2>1, <2>2, <2>3, OneCall DEF ReadHead
<1>3. CASE Fetch(r, k)  BY <1>3, FetchKeeps
<1>4. CASE StoreSynced(r, k)  BY <1>4, StoreKeeps
<1>5. CASE Await(r, k)
  <2>1. CASE Becomes(r, k, At("failed"))
    BY <1>0, <1>5, <2>1, AtIsGood, OneCall DEF Await
  <2>2. CASE Becomes(r, k, At("done"))
    BY <1>0, <1>5, <2>2, AtIsGood, OneCall DEF Await
  <2> QED  BY <1>5, <2>1, <2>2 DEF Await
<1>6. ASSUME NEW b \in Deployed .. head, Handle(r, k, b)  PROVE SyncInv'
  <2>1. TypeOK'  BY <1>6 DEF Handle, SyncInv, TypeOK
  <2> QED  BY <1>6, <2>1 DEF Handle, SyncInv, MarksInv, TasksInv
<1> QED  BY <1>1, <1>2, <1>3, <1>4, <1>5, <1>6 DEF Call

\* A handler that fails only marks its call.
LEMMA HandlerFailsKeeps ==
  ASSUME SyncInv, NEW r \in Rounds, NEW k \in Keys, NEW b \in Deployed .. head,
         HandlerFails(r, k, b)
  PROVE  SyncInv' /\ UNCHANGED <<head, synced, started>>
<1> DEFINE t == task[r][k]
           new == [t EXCEPT !.thrown = TRUE]
<1>0. /\ t \in Task /\ faults' \in Nat /\ handlers' \subseteq handlers
      /\ UNCHANGED <<head, synced, cached, current, initialSyncCompleted, started, handled,
                     crashes>>
  BY DEF HandlerFails, Fault, SyncInv, TypeOK
<1>1. new \in Task /\ new.step = t.step /\ new.from = t.from /\ new.start = t.start
      /\ new.end = t.end /\ new.earliest = t.earliest /\ new.latest = t.latest
  BY <1>0 DEF Task
<1>2. GoodTask(new, cached[r], head, started[k])
  <2>1. GoodTask(t, cached[r], head, started[k])  BY DEF SyncInv, TasksInv
  <2> HIDE DEF new
  <2> QED  BY <1>1, <2>1 DEF GoodTask
<1>3. task' = task \/ task' = [task EXCEPT ![r][k] = new]  BY DEF HandlerFails
<1> HIDE DEF new
<1>4. TypeOK'  BY <1>0, <1>1, <1>3 DEF SyncInv, TypeOK
<1>5. MarksInv'  BY <1>0 DEF SyncInv, MarksInv
<1>6. TasksInv'
  <2> SUFFICES ASSUME NEW q \in Rounds, NEW j \in Keys
               PROVE  GoodTask(task'[q][j], cached[q], head, started[j])
    BY <1>0 DEF TasksInv
  <2>1. task'[q][j] = task[q][j] \/ (q = r /\ j = k /\ task'[q][j] = new)
    BY <1>3 DEF SyncInv, TypeOK
  <2> QED  BY <1>2, <2>1 DEF SyncInv, TasksInv
<1> QED  BY <1>0, <1>4, <1>5, <1>6 DEF SyncInv

LEMMA RequestFailsKeeps ==
  ASSUME SyncInv, NEW r \in Rounds, NEW k \in Keys, RequestFails(r, k)
  PROVE  SyncInv'
<1>1. faults' \in Nat  BY DEF RequestFails, Fault, SyncInv, TypeOK
<1> QED  BY <1>1, AtIsGood, OneCall DEF RequestFails

LEMMA FinalizeKeeps == ASSUME SyncInv, Finalize PROVE SyncInv'
<1>1. TypeOK'
  <2>1. head \in Nat /\ head' = head + 1 /\ Deployed .. head \subseteq Deployed .. head'
    BY BlocksAssumption DEF Finalize, SyncInv, TypeOK
  <2> QED  BY <2>1, BlocksAssumption DEF Finalize, SyncInv, TypeOK
<1> QED  BY <1>1, NothingRead DEF Finalize, SyncInv, TypeOK

LEMMA CrashKeeps == ASSUME SyncInv, Crash PROVE SyncInv'
<1> DEFINE calls == [r \in Rounds |-> [k \in Keys |-> At("none")]]
<1>0. \A r \in Rounds, k \in Keys : calls[r][k] = At("none")  OBVIOUS
<1>1. task' = calls /\ calls \in [Rounds -> [Keys -> Task]]  BY AtIsGood DEF Crash
<1> HIDE DEF calls
<1>2. TypeOK'
  <2>1. cached' \in [Rounds -> BOOLEAN] /\ handlers' = {} /\ current' = None
        /\ initialSyncCompleted' = FALSE /\ crashes' = crashes + 1
        /\ UNCHANGED <<head, synced, started, handled, faults>>
    BY DEF Crash
  <2>2. crashes' \in Nat  BY <2>1 DEF SyncInv, TypeOK
  <2>3. handlers' \subseteq Rounds \X Keys \X (Deployed .. head')  BY <2>1
  <2>4. head' \in Nat /\ head' >= InitialHead /\ synced' \in [Keys -> Nat]
        /\ started' \in [Keys -> SUBSET (Deployed .. head')]
        /\ handled' \in [Keys -> SUBSET (Deployed .. head')] /\ faults' \in Nat
    BY <2>1 DEF SyncInv, TypeOK
  <2>5. task' \in [Rounds -> [Keys -> Task]]  BY <1>1
  <2> QED  BY <2>1, <2>2, <2>3, <2>4, <2>5 DEF TypeOK
<1>3. MarksInv'  BY DEF Crash, SyncInv, MarksInv
<1>4. TasksInv'  BY <1>0, <1>1, AtIsGood DEF TasksInv
<1> QED  BY <1>2, <1>3, <1>4 DEF SyncInv

LEMMA NextKeeps == ASSUME SyncInv, [Next]_vars PROVE SyncInv'
<1>1. CASE UNCHANGED vars
  BY <1>1 DEF vars, SyncInv, TypeOK, MarksInv, TasksInv
<1>2. CASE Next
  BY <1>2, FinalizeKeeps, CrashKeeps, RoundKeeps, CallKeeps, RequestFailsKeeps,
     HandlerFailsKeeps DEF Next
<1> QED  BY <1>1, <1>2

LEMMA Invariance == Spec => []SyncInv
<1>1. Init => SyncInv  BY InitHolds
<1>2. SyncInv /\ [Next]_vars => SyncInv'  BY NextKeeps
<1> QED  BY <1>1, <1>2, PTL DEF Spec

\* The state of the sync is well-formed; no call is given a block the bridge does not have.
THEOREM TypeCorrect == Spec => []TypeOK
<1>1. SyncInv => TypeOK  BY DEF SyncInv
<1> QED  BY <1>1, Invariance, PTL

\* Whatever fails and however rounds overlap, the watermark of a kind never passes an
\* event that was not given to its handler.
THEOREM NothingIsSkipped == Spec => []SyncedIsStarted
<1>1. SyncInv => SyncedIsStarted
  <2> SUFFICES ASSUME SyncInv, NEW k \in Keys
               PROVE  Deployed .. synced[k] \subseteq started[k]
    BY DEF SyncedIsStarted
  <2>1. GoodMark(synced[k], head, started[k])  BY DEF SyncInv, MarksInv
  <2> QED  BY <2>1, BlocksAssumption DEF GoodMark
<1> QED  BY <1>1, Invariance, PTL

-----------------------------------------------------------------------------
(* The settle events wait.  Why: a call has handlers only from its first   *)
(* batch until they are awaited, and the calls of the kinds in Settle      *)
(* start when those of the kinds in Prior have resolved.                   *)

Working == {"fetch", "store", "await", "failed"}

SettleWaits ==
  \A r \in Rounds : \A k \in Settle, p \in Prior :
    task[r][k].step \notin {"none", "waiting"} => task[r][p].step = "done"

HandlersInv == \A h \in handlers : task[h[1]][h[2]].step \in Working

\* The kinds in Settle are called together.
SettleTogether ==
  \A r \in Rounds : \A j, k \in Settle :
    task[r][j].step = "waiting" => task[r][k].step = "waiting"

OrderInv == SettleWaits /\ SettleTogether /\ HandlersInv

\* A step of one call that has started and is not done.
LEMMA OneCallOrders ==
  ASSUME SyncInv, OrderInv, NEW r \in Rounds, NEW k \in Keys, NEW t, Becomes(r, k, t),
         task[r][k].step \notin {"none", "waiting", "done"},
         t.step \notin {"none", "waiting"},
         \A h \in handlers' : \/ h \in handlers /\ (h[1] # r \/ h[2] # k)
                              \/ h[1] = r /\ h[2] = k /\ t.step \in Working
  PROVE  OrderInv'
<1>1. /\ task'[r][k] = t
      /\ \A q \in Rounds, j \in Keys : ~(q = r /\ j = k) => task'[q][j] = task[q][j]
  BY DEF Becomes, SyncInv, TypeOK
<1>2. SettleWaits'
  <2> SUFFICES ASSUME NEW q \in Rounds, NEW j \in Settle, NEW p \in Prior,
                      task'[q][j].step \notin {"none", "waiting"}
               PROVE  task'[q][p].step = "done"
    BY DEF SettleWaits
  <2>1. j \in Keys /\ p \in Keys /\ p # j  BY KindsAssumption DEF Keys
  <2>2. task[q][j].step \notin {"none", "waiting"}  BY <1>1, <2>1
  <2>3. task[q][p].step = "done"  BY <2>2 DEF OrderInv, SettleWaits
  <2>4. ~(q = r /\ p = k)  BY <2>3
  <2> QED  BY <1>1, <2>1, <2>3, <2>4
<1>3. HandlersInv'
  <2> SUFFICES ASSUME NEW h \in handlers' PROVE task'[h[1]][h[2]].step \in Working
    BY DEF HandlersInv
  <2>1. CASE h[1] = r /\ h[2] = k  BY <1>1, <2>1
  <2>2. CASE h \in handlers /\ (h[1] # r \/ h[2] # k)
    <3>1. h[1] \in Rounds /\ h[2] \in Keys  BY <2>2 DEF SyncInv, TypeOK
    <3>2. task'[h[1]][h[2]] = task[h[1]][h[2]]  BY <1>1, <2>2, <3>1
    <3> QED  BY <2>2, <3>2 DEF OrderInv, HandlersInv
  <2> QED  BY <2>1, <2>2
<1>4. SettleTogether'
  <2> SUFFICES ASSUME NEW q \in Rounds, NEW i \in Settle, NEW j \in Settle,
                      task'[q][i].step = "waiting"
               PROVE  task'[q][j].step = "waiting"
    BY DEF SettleTogether
  <2>1. i \in Keys /\ j \in Keys  BY DEF Keys
  <2>2. task[q][i].step = "waiting"  BY <1>1, <2>1
  <2>3. task[q][j].step = "waiting"  BY <2>2 DEF OrderInv, SettleTogether
  <2> QED  BY <1>1, <2>1, <2>3
<1> QED  BY <1>2, <1>3, <1>4 DEF OrderInv

\* A step that starts no handler and leaves the step of every call.
LEMMA NothingOrdered ==
  ASSUME OrderInv, handlers' \subseteq handlers, SyncInv,
         \A q \in Rounds, j \in Keys : task'[q][j].step = task[q][j].step
  PROVE  OrderInv'
<1>1. SettleWaits'  BY DEF OrderInv, SettleWaits, Keys
<1>2. HandlersInv'
  <2> SUFFICES ASSUME NEW h \in handlers' PROVE task'[h[1]][h[2]].step \in Working
    BY DEF HandlersInv
  <2>1. h \in handlers /\ h[1] \in Rounds /\ h[2] \in Keys  BY DEF SyncInv, TypeOK
  <2> QED  BY <2>1 DEF OrderInv, HandlersInv
<1>3. SettleTogether'  BY DEF OrderInv, SettleTogether, Keys
<1> QED  BY <1>1, <1>2, <1>3 DEF OrderInv

LEMMA RoundOrders ==
  ASSUME SyncInv, OrderInv, NEW r \in Rounds, Round(r)
  PROVE  OrderInv'
<1>1. CASE StartRound(r)
  <2> DEFINE calls == [k \in Keys |-> At(IF k \in Settle THEN "waiting" ELSE "state")]
  <2>1. /\ task'[r] = calls /\ handlers' = handlers
        /\ \A q \in Rounds : q # r => task'[q] = task[q]
    BY <1>1 DEF StartRound, SyncInv, TypeOK
  <2>2. \A k \in Settle : calls[k].step = "waiting"  BY DEF At, Keys
  <2>3. \A h \in handlers : h[1] # r  BY <1>1 DEF StartRound, IsOver
  <2> HIDE DEF calls
  <2>4. SettleWaits'
    <3> SUFFICES ASSUME NEW q \in Rounds, NEW j \in Settle, NEW p \in Prior,
                        task'[q][j].step \notin {"none", "waiting"}
                 PROVE  task'[q][p].step = "done"
      BY DEF SettleWaits
    <3>1. q # r  BY <2>1, <2>2
    <3> QED  BY <2>1, <3>1 DEF OrderInv, SettleWaits
  <2>5. HandlersInv'
    <3> SUFFICES ASSUME NEW h \in handlers' PROVE task'[h[1]][h[2]].step \in Working
      BY DEF HandlersInv
    <3>1. h \in handlers /\ h[1] \in Rounds /\ h[1] # r
      BY <2>1, <2>3 DEF SyncInv, TypeOK
    <3> QED  BY <2>1, <3>1 DEF OrderInv, HandlersInv
  <2>6. SettleTogether'
    <3> SUFFICES ASSUME NEW q \in Rounds, NEW i \in Settle, NEW j \in Settle,
                        task'[q][i].step = "waiting"
                 PROVE  task'[q][j].step = "waiting"
      BY DEF SettleTogether
    <3>1. CASE q = r  BY <2>1, <2>2, <3>1
    <3>2. CASE q # r  BY <2>1, <3>2 DEF OrderInv, SettleTogether
    <3> QED  BY <3>1, <3>2
  <2> QED  BY <2>4, <2>5, <2>6 DEF OrderInv
<1>2. CASE StartSettle(r)
  <2> DEFINE calls == [k \in Keys |-> IF k \in Settle THEN At("state") ELSE task[r][k]]
  <2>1. /\ task'[r] = calls /\ handlers' = handlers
        /\ \A q \in Rounds : q # r => task'[q] = task[q]
    BY <1>2 DEF StartSettle, SyncInv, TypeOK
  <2>2. \A k \in Keys : k \notin Settle => calls[k] = task[r][k]  OBVIOUS
  <2>3. \A p \in Prior : calls[p].step = "done"
    BY <1>2, <2>2, KindsAssumption DEF StartSettle, Keys
  <2>4. \A k \in Settle : calls[k].step = "state"  BY DEF At, Keys
  <2>5. PICK w \in Settle : task[r][w].step = "waiting"  BY <1>2 DEF StartSettle
  <2> HIDE DEF calls
  <2>6. SettleWaits'
    <3> SUFFICES ASSUME NEW q \in Rounds, NEW j \in Settle, NEW p \in Prior,
                        task'[q][j].step \notin {"none", "waiting"}
                 PROVE  task'[q][p].step = "done"
      BY DEF SettleWaits
    <3>1. CASE q = r  BY <2>1, <2>3, <3>1
    <3>2. CASE q # r  BY <2>1, <3>2 DEF OrderInv, SettleWaits
    <3> QED  BY <3>1, <3>2
  <2>7. HandlersInv'
    <3> SUFFICES ASSUME NEW h \in handlers' PROVE task'[h[1]][h[2]].step \in Working
      BY DEF HandlersInv
    <3>1. h \in handlers /\ h[1] \in Rounds /\ h[2] \in Keys
          /\ task[h[1]][h[2]].step \in Working
      BY <2>1 DEF SyncInv, TypeOK, OrderInv, HandlersInv
    <3>2. h[1] = r => h[2] \notin Settle
      BY <2>5, <3>1 DEF OrderInv, SettleTogether, Working
    <3> QED  BY <2>1, <2>2, <3>1, <3>2
  <2>8. SettleTogether'
    <3> SUFFICES ASSUME NEW q \in Rounds, NEW i \in Settle, NEW j \in Settle,
                        task'[q][i].step = "waiting"
                 PROVE  task'[q][j].step = "waiting"
      BY DEF SettleTogether
    <3>1. CASE q = r  BY <2>1, <2>4, <3>1
    <3>2. CASE q # r  BY <2>1, <3>2 DEF OrderInv, SettleTogether
    <3> QED  BY <3>1, <3>2
  <2> QED  BY <2>6, <2>7, <2>8 DEF OrderInv
<1>3. CASE EndRound(r)  BY <1>3, NothingOrdered DEF EndRound
<1>4. CASE FailRound(r)  BY <1>4, NothingOrdered DEF FailRound
<1> QED  BY <1>1, <1>2, <1>3, <1>4 DEF Round

LEMMA CallOrders ==
  ASSUME SyncInv, OrderInv, NEW r \in Rounds, NEW k \in Keys, Call(r, k)
  PROVE  OrderInv'
<1>0. task[r][k] \in Task  BY DEF SyncInv, TypeOK
<1>1. \A h \in handlers : h[1] = r /\ h[2] = k => task[r][k].step \in Working
  BY DEF OrderInv, HandlersInv
<1>2. CASE ReadState(r, k)
  <2> DEFINE new == [task[r][k] EXCEPT !.step = "head",
                       !.from = IF cached[r] THEN synced[k] ELSE 0]
  <2>1. Becomes(r, k, new) /\ task[r][k].step = "state" /\ handlers' = handlers
    BY <1>2 DEF ReadState
  <2>2. new.step = "head"  BY <1>0 DEF Task
  <2> HIDE DEF new
  <2> QED  BY <1>1, <2>1, <2>2, OneCallOrders DEF Working
<1>3. CASE ReadHead(r, k)
  <2>1. PICK h : Becomes(r, k, Range(r, task[r][k], h))  BY <1>3 DEF ReadHead
  <2>2. task[r][k].step = "head" /\ handlers' = handlers  BY <1>3 DEF ReadHead
  <2>3. Range(r, task[r][k], h).step = "fetch"  BY <1>0 DEF Range, Task
  <2> QED  BY <1>1, <2>1, <2>2, <2>3, OneCallOrders DEF Working
<1>4. CASE Fetch(r, k)
  <2> DEFINE t == task[r][k]
             new == IF t.start # t.earliest THEN NextBatch(t)
                    ELSE [t EXCEPT !.step = IF cached[r] THEN "store" ELSE "await"]
  <2>1. /\ Becomes(r, k, new) /\ t.step = "fetch"
        /\ handlers' = handlers \cup ({r} \X {k} \X (t.start .. t.end))
    BY <1>4 DEF Fetch
  <2>2. new.step \in {"fetch", "store", "await"}  BY <1>0, <2>1 DEF NextBatch, Task
  <2>3. \A h \in handlers' : h \in handlers \/ (h[1] = r /\ h[2] = k)  BY <2>1
  <2> HIDE DEF new
  <2> QED  BY <2>1, <2>2, <2>3, OneCallOrders DEF Working
<1>5. CASE StoreSynced(r, k)
  <2> DEFINE new == [task[r][k] EXCEPT !.step = "await"]
  <2>1. Becomes(r, k, new) /\ task[r][k].step = "store" /\ handlers' = handlers
    BY <1>5 DEF StoreSynced
  <2>2. new.step = "await"  BY <1>0 DEF Task
  <2> HIDE DEF new
  <2> QED  BY <2>1, <2>2, OneCallOrders DEF Working
<1>6. CASE Await(r, k)
  <2>1. task[r][k].step = "await" /\ handlers' = handlers  BY <1>6 DEF Await
  <2>2. CASE Becomes(r, k, At("failed"))
    BY <2>1, <2>2, OneCallOrders DEF At, Working
  <2>3. CASE /\ Becomes(r, k, At("done"))
             /\ \A h \in handlers : h[1] # r \/ h[2] # k
    BY <2>1, <2>3, OneCallOrders DEF At
  <2> QED  BY <1>6, <2>2, <2>3 DEF Await
<1>7. ASSUME NEW b \in Deployed .. head, Handle(r, k, b)  PROVE OrderInv'
  BY <1>7, NothingOrdered DEF Handle
<1> QED  BY <1>2, <1>3, <1>4, <1>5, <1>6, <1>7 DEF Call

LEMMA HandlerFailsOrders ==
  ASSUME SyncInv, OrderInv, NEW r \in Rounds, NEW k \in Keys, NEW b \in Deployed .. head,
         HandlerFails(r, k, b)
  PROVE  OrderInv'
<1> DEFINE new == [task[r][k] EXCEPT !.thrown = TRUE]
<1>1. handlers' \subseteq handlers /\ (task' = task \/ task' = [task EXCEPT ![r][k] = new])
  BY DEF HandlerFails
<1>2. new.step = task[r][k].step  BY DEF SyncInv, TypeOK, Task
<1> HIDE DEF new
<1>3. \A q \in Rounds, j \in Keys : task'[q][j].step = task[q][j].step
  BY <1>1, <1>2 DEF SyncInv, TypeOK
<1> QED  BY <1>1, <1>3, NothingOrdered

LEMMA RequestFailsOrders ==
  ASSUME SyncInv, OrderInv, NEW r \in Rounds, NEW k \in Keys, RequestFails(r, k)
  PROVE  OrderInv'
<1>1. task[r][k].step \in {"head", "fetch", "store"} /\ handlers' = handlers
      /\ Becomes(r, k, At("failed"))
  BY DEF RequestFails
<1> QED  BY <1>1, OneCallOrders DEF At, Working

LEMMA NextOrders == ASSUME SyncInv, OrderInv, [Next]_vars PROVE OrderInv'
<1>1. CASE UNCHANGED vars  BY <1>1, NothingOrdered DEF vars
<1>2. CASE Finalize  BY <1>2, NothingOrdered DEF Finalize
<1>3. CASE Crash
  <2>1. handlers' = {} /\ \A r \in Rounds, k \in Keys : task'[r][k].step = "none"
    BY <1>3 DEF Crash, At
  <2> QED  BY <2>1 DEF OrderInv, SettleWaits, SettleTogether, HandlersInv, Keys
<1> QED  BY <1>1, <1>2, <1>3, RoundOrders, CallOrders, RequestFailsOrders,
            HandlerFailsOrders DEF Next

LEMMA OrderIsKept == Spec => []OrderInv
<1>1. Init => OrderInv
  BY DEF Init, OrderInv, SettleWaits, SettleTogether, HandlersInv, Keys, At
<1>2. SyncInv /\ OrderInv /\ [Next]_vars => OrderInv'  BY NextOrders
<1> QED  BY <1>1, <1>2, Invariance, PTL DEF Spec

-----------------------------------------------------------------------------
(* What was read is stored.  Why: until something fails one round follows  *)
(* the other, and an event that was read is in the db or with a handler.   *)

Calm == faults = 0 /\ crashes = 0

NoneFailed == \A r \in Rounds, k \in Keys :
                task[r][k].step # "failed" /\ ~task[r][k].thrown

OneRound == \A r \in Rounds : \A k \in Keys :
              r # current => task[r][k].step \in {"none", "done"}

NoneLost == \A k \in Keys : \A b \in started[k] :
              b \in handled[k] \/ \E r \in Rounds : <<r, k, b>> \in handlers

CalmInv == Calm => NoneFailed /\ OneRound /\ NoneLost

\* A step of one call of the round under way.
LEMMA OneCallCalm ==
  ASSUME SyncInv, NoneFailed, OneRound, NEW r \in Rounds, NEW k \in Keys, NEW t \in Task,
         Becomes(r, k, t), t.step # "failed", ~t.thrown,
         task[r][k].step \notin {"none", "done"}, UNCHANGED current
  PROVE  NoneFailed' /\ OneRound'
<1>1. /\ task'[r][k] = t
      /\ \A q \in Rounds, j \in Keys : ~(q = r /\ j = k) => task'[q][j] = task[q][j]
  BY DEF Becomes, SyncInv, TypeOK
<1>2. NoneFailed'  BY <1>1 DEF NoneFailed
<1>3. r = current  BY DEF OneRound
<1>4. OneRound'  BY <1>1, <1>3 DEF OneRound
<1> QED  BY <1>2, <1>4

LEMMA RoundCalm ==
  ASSUME SyncInv, Calm, NoneFailed, OneRound, NoneLost, NEW r \in Rounds, Round(r), Calm'
  PROVE  NoneFailed' /\ OneRound' /\ NoneLost'
<1>1. NoneLost'
  BY DEF Round, StartRound, StartSettle, EndRound, FailRound, NoneLost
<1>2. CASE StartRound(r)
  <2> DEFINE calls == [k \in Keys |-> At(IF k \in Settle THEN "waiting" ELSE "state")]
  <2>1. /\ task'[r] = calls /\ current = None /\ current' = r
        /\ \A q \in Rounds : q # r => task'[q] = task[q]
    BY <1>2 DEF StartRound, SyncInv, TypeOK
  <2>2. \A k \in Keys : calls[k].step # "failed" /\ ~calls[k].thrown  BY DEF At
  <2> HIDE DEF calls
  <2>3. NoneFailed'
    <3> SUFFICES ASSUME NEW q \in Rounds, NEW k \in Keys
                 PROVE  task'[q][k].step # "failed" /\ ~task'[q][k].thrown
      BY DEF NoneFailed
    <3> QED  BY <2>1, <2>2 DEF NoneFailed
  <2>4. OneRound'
    <3> SUFFICES ASSUME NEW q \in Rounds, NEW k \in Keys, q # r
                 PROVE  task'[q][k].step \in {"none", "done"}
      BY <2>1 DEF OneRound
    <3>1. q # current  BY <2>1, KindsAssumption
    <3> QED  BY <2>1, <3>1 DEF OneRound
  <2> QED  BY <1>1, <2>3, <2>4
<1>3. CASE StartSettle(r)
  <2> DEFINE calls == [k \in Keys |-> IF k \in Settle THEN At("state") ELSE task[r][k]]
  <2>1. /\ task'[r] = calls /\ UNCHANGED current
        /\ \A q \in Rounds : q # r => task'[q] = task[q]
    BY <1>3 DEF StartSettle, SyncInv, TypeOK
  <2>2. \A k \in Keys : calls[k].step # "failed" /\ ~calls[k].thrown
    BY DEF At, NoneFailed
  <2>3. r = current
    <3>1. PICK w \in Settle : task[r][w].step = "waiting"  BY <1>3 DEF StartSettle
    <3> QED  BY <3>1 DEF OneRound, Keys
  <2> HIDE DEF calls
  <2>4. NoneFailed'
    <3> SUFFICES ASSUME NEW q \in Rounds, NEW k \in Keys
                 PROVE  task'[q][k].step # "failed" /\ ~task'[q][k].thrown
      BY DEF NoneFailed
    <3> QED  BY <2>1, <2>2 DEF NoneFailed
  <2>5. OneRound'  BY <2>1, <2>3 DEF OneRound
  <2> QED  BY <1>1, <2>4, <2>5
<1>4. CASE EndRound(r)
  <2>1. /\ current = r /\ UNCHANGED task
        /\ \A k \in Keys : task[r][k].step = "done"
    BY <1>4 DEF EndRound
  <2> QED  BY <1>1, <2>1 DEF NoneFailed, OneRound
<1>5. CASE FailRound(r)
  BY <1>5 DEF FailRound, Fault, NoneFailed, Calm
<1> QED  BY <1>2, <1>3, <1>4, <1>5 DEF Round

\* Handlers, and what is handled, are left alone.
LEMMA NothingStarted ==
  ASSUME NoneLost, UNCHANGED <<handlers, started, handled>> PROVE NoneLost'
BY DEF NoneLost

LEMMA CallCalm ==
  ASSUME SyncInv, Calm, NoneFailed, OneRound, NoneLost, NEW r \in Rounds, NEW k \in Keys,
         Call(r, k), Calm'
  PROVE  NoneFailed' /\ OneRound' /\ NoneLost'
<1> DEFINE t == task[r][k]
<1>0. t \in Task /\ t.step # "failed" /\ ~t.thrown /\ synced[k] \in Nat /\ head \in Nat
  BY DEF SyncInv, TypeOK, NoneFailed
<1>1. CASE ReadState(r, k)
  <2> DEFINE new == [t EXCEPT !.step = "head", !.from = IF cached[r] THEN synced[k] ELSE 0]
  <2>1. Becomes(r, k, new) /\ t.step = "state"
        /\ UNCHANGED <<current, handlers, started, handled>>
    BY <1>1 DEF ReadState
  <2>2. new \in Task /\ new.step = "head" /\ ~new.thrown  BY <1>0 DEF Task
  <2> HIDE DEF new
  <2>3. NoneLost'  BY <2>1, NothingStarted
  <2> QED  BY <2>1, <2>2, <2>3, OneCallCalm
<1>2. CASE ReadHead(r, k)
  <2>1. t.step = "head" /\ UNCHANGED <<current, handlers, started, handled>>
    BY <1>2 DEF ReadHead
  <2>2. Becomes(r, k, Range(r, t, head))
    BY <1>2 DEF ReadHead, Fault, Calm
  <2>3. Range(r, t, head) \in Task
    BY <2>1, RangeIsGood DEF SyncInv, TypeOK
  <2>4. Range(r, t, head).step = "fetch" /\ ~Range(r, t, head).thrown
    BY <1>0 DEF Range, Task
  <2>5. NoneLost'  BY <2>1, NothingStarted
  <2> QED  BY <2>1, <2>2, <2>3, <2>4, <2>5, OneCallCalm
<1>3. CASE Fetch(r, k)
  <2> DEFINE new == IF t.start # t.earliest THEN NextBatch(t)
                    ELSE [t EXCEPT !.step = IF cached[r] THEN "store" ELSE "await"]
             batch == t.start .. t.end
  <2>1. /\ Becomes(r, k, new) /\ t.step = "fetch" /\ UNCHANGED <<current, handled>>
        /\ handlers' = handlers \cup ({r} \X {k} \X batch)
        /\ started' = [started EXCEPT ![k] = @ \cup batch]
    BY <1>3 DEF Fetch
  <2>2. new.step # "failed" /\ ~new.thrown  BY <1>0, <2>1 DEF NextBatch, Task
  <2>3. new \in Task
    <3>1. SyncInv'  BY <1>3, FetchKeeps
    <3>2. task'[r][k] = new  BY <2>1 DEF Becomes, SyncInv, TypeOK
    <3> QED  BY <3>1, <3>2 DEF SyncInv, TypeOK
  <2> HIDE DEF new, batch
  <2>4. NoneLost'
    <3> SUFFICES ASSUME NEW j \in Keys, NEW b \in started'[j]
                 PROVE  b \in handled[j] \/ \E q \in Rounds : <<q, j, b>> \in handlers'
      BY <2>1 DEF NoneLost
    <3>1. CASE b \in started[j]  BY <2>1, <3>1 DEF NoneLost
    <3>2. CASE b \notin started[j]
      <4>1. j = k /\ b \in batch  BY <2>1, <3>2 DEF SyncInv, TypeOK
      <4>2. <<r, j, b>> \in handlers'  BY <2>1, <4>1
      <4> QED  BY <4>2
    <3> QED  BY <3>1, <3>2
  <2> QED  BY <2>1, <2>2, <2>3, <2>4, OneCallCalm
<1>4. CASE StoreSynced(r, k)
  <2> DEFINE new == [t EXCEPT !.step = "await"]
  <2>1. Becomes(r, k, new) /\ t.step = "store"
        /\ UNCHANGED <<current, handlers, started, handled>>
    BY <1>4 DEF StoreSynced
  <2>2. new \in Task /\ new.step = "await" /\ ~new.thrown  BY <1>0 DEF Task
  <2> HIDE DEF new
  <2>3. NoneLost'  BY <2>1, NothingStarted
  <2> QED  BY <2>1, <2>2, <2>3, OneCallCalm
<1>5. CASE Await(r, k)
  <2>1. Becomes(r, k, At("done")) /\ t.step = "await"
        /\ UNCHANGED <<current, handlers, started, handled>>
    BY <1>0, <1>5 DEF Await
  <2>2. At("done") \in Task /\ At("done").step = "done" /\ ~At("done").thrown
    BY DEF At, Task
  <2>3. NoneLost'  BY <2>1, NothingStarted
  <2> QED  BY <2>1, <2>2, <2>3, OneCallCalm
<1>6. ASSUME NEW b \in Deployed .. head, Handle(r, k, b)
      PROVE  NoneFailed' /\ OneRound' /\ NoneLost'
  <2>1. /\ UNCHANGED <<task, current, started>>
        /\ handlers' = handlers \ {<<r, k, b>>}
        /\ handled' = [handled EXCEPT ![k] = @ \cup {b}]
    BY <1>6 DEF Handle
  <2>2. NoneLost'
    <3> SUFFICES ASSUME NEW j \in Keys, NEW c \in started[j]
                 PROVE  c \in handled'[j] \/ \E q \in Rounds : <<q, j, c>> \in handlers'
      BY <2>1 DEF NoneLost
    <3>1. CASE j = k /\ c = b  BY <2>1, <3>1 DEF SyncInv, TypeOK
    <3>2. CASE ~(j = k /\ c = b)
      <4>1. handled[j] \subseteq handled'[j]  BY <2>1 DEF SyncInv, TypeOK
      <4>2. \A q \in Rounds : <<q, j, c>> # <<r, k, b>>  BY <3>2
      <4> QED  BY <2>1, <4>1, <4>2 DEF NoneLost
    <3> QED  BY <3>1, <3>2
  <2>3. NoneFailed' /\ OneRound'  BY <2>1 DEF NoneFailed, OneRound
  <2> QED  BY <2>2, <2>3
<1> QED  BY <1>1, <1>2, <1>3, <1>4, <1>5, <1>6 DEF Call

LEMMA NextCalm == ASSUME SyncInv, CalmInv, [Next]_vars PROVE CalmInv'
<1>0. faults \in Nat /\ crashes \in Nat  BY DEF SyncInv, TypeOK
<1> SUFFICES ASSUME Calm' PROVE NoneFailed' /\ OneRound' /\ NoneLost'
  BY DEF CalmInv
<1>1. CASE UNCHANGED vars
  BY <1>1 DEF vars, CalmInv, Calm, NoneFailed, OneRound, NoneLost
<1>2. CASE Finalize
  BY <1>2 DEF Finalize, CalmInv, Calm, NoneFailed, OneRound, NoneLost
<1>3. CASE Crash  BY <1>0, <1>3 DEF Crash, Calm
<1>4. ASSUME NEW r \in Rounds, Round(r) PROVE NoneFailed' /\ OneRound' /\ NoneLost'
  <2>1. Calm
    BY <1>0, <1>4 DEF Round, StartRound, StartSettle, EndRound, FailRound, Fault, Calm
  <2> QED  BY <1>4, <2>1, RoundCalm DEF CalmInv
<1>5. ASSUME NEW r \in Rounds, NEW k \in Keys, Call(r, k)
      PROVE  NoneFailed' /\ OneRound' /\ NoneLost'
  <2>1. faults' \in {faults, faults + 1} /\ crashes' = crashes
    <3>1. CASE ReadHead(r, k)  BY <3>1 DEF ReadHead, Fault
    <3>2. CASE ReadState(r, k) \/ Fetch(r, k) \/ StoreSynced(r, k) \/ Await(r, k)
      BY <3>2 DEF ReadState, Fetch, StoreSynced, Await
    <3>3. CASE \E b \in Deployed .. head : Handle(r, k, b)  BY <3>3 DEF Handle
    <3> QED  BY <1>5, <3>1, <3>2, <3>3 DEF Call
  <2>2. Calm  BY <1>0, <2>1 DEF Calm
  <2> QED  BY <1>5, <2>2, CallCalm DEF CalmInv
<1>6. ASSUME NEW r \in Rounds, NEW k \in Keys,
             \/ RequestFails(r, k)
             \/ \E b \in Deployed .. head : HandlerFails(r, k, b)
      PROVE  FALSE
  <2>1. faults' = faults + 1
    <3>1. CASE RequestFails(r, k)  BY <3>1 DEF RequestFails, Fault
    <3>2. CASE \E b \in Deployed .. head : HandlerFails(r, k, b)
      BY <3>2 DEF HandlerFails, Fault
    <3> QED  BY <1>6, <3>1, <3>2
  <2> QED  BY <1>0, <2>1 DEF Calm
<1> QED  BY <1>1, <1>2, <1>3, <1>4, <1>5, <1>6 DEF Next

LEMMA CalmIsKept == Spec => []CalmInv
<1>1. Init => CalmInv
  BY DEF Init, CalmInv, NoneFailed, OneRound, NoneLost, At
<1>2. SyncInv /\ CalmInv /\ [Next]_vars => CalmInv'  BY NextCalm
<1> QED  BY <1>1, <1>2, Invariance, PTL DEF Spec

\* However rounds overlap and calls fail, no handler of a settle event runs while one of its
\* round still works on an event the settle event needs; and unless something failed, or the
\* process was started again, all that was read of those events is in the db.
THEOREM SettleWaitsForPrior == Spec => []SettleFollowsPrior
<1>1. SyncInv /\ OrderInv /\ CalmInv => SettleFollowsPrior
  <2> SUFFICES ASSUME SyncInv, OrderInv, CalmInv, NEW h \in handlers, h[2] \in Settle
               PROVE  /\ \A g \in handlers : g[1] = h[1] => g[2] \notin Prior
                      /\ Calm => \A k \in Prior : started[k] \subseteq handled[k]
    BY DEF SettleFollowsPrior, Calm
  <2>1. h[1] \in Rounds /\ task[h[1]][h[2]].step \in Working
    BY DEF SyncInv, TypeOK, OrderInv, HandlersInv
  <2>2. \A k \in Prior : task[h[1]][k].step = "done"
    BY <2>1 DEF OrderInv, SettleWaits, Working
  <2>3. ASSUME NEW g \in handlers, g[1] = h[1], g[2] \in Prior PROVE FALSE
    <3>1. task[g[1]][g[2]].step \in Working  BY DEF OrderInv, HandlersInv
    <3> QED  BY <2>2, <2>3, <3>1 DEF Working
  <2>4. ASSUME Calm, NEW k \in Prior, NEW b \in started[k] PROVE b \in handled[k]
    <3>1. h[1] = current
      BY <2>1, <2>4 DEF CalmInv, OneRound, Working, Keys
    <3>2. ASSUME NEW q \in Rounds, <<q, k, b>> \in handlers PROVE FALSE
      <4>1. task[q][k].step \in Working  BY <3>2 DEF OrderInv, HandlersInv
      <4>2. q = current  BY <2>4, <4>1 DEF CalmInv, OneRound, Working, Keys
      <4> QED  BY <2>2, <3>1, <4>1, <4>2 DEF Working
    <3> QED  BY <2>4, <3>2 DEF CalmInv, NoneLost, Keys
  <2> QED  BY <2>3, <2>4
<1> QED  BY <1>1, Invariance, OrderIsKept, CalmIsKept, PTL

\* The watermark is stored before the handlers are awaited, but until something fails or
\* the process ends no event below it is lost: its handler is at work in the round under
\* way, and between two rounds all of them are in the db.
THEOREM NothingIsLost ==
  Spec => [](Calm => \A k \in Keys : \A b \in Deployed .. synced[k] :
                       b \in handled[k] \/ (current # None /\ <<current, k, b>> \in handlers))
<1>1. SyncInv /\ OrderInv /\ CalmInv /\ SyncedIsStarted =>
        (Calm => \A k \in Keys : \A b \in Deployed .. synced[k] :
                   b \in handled[k] \/ (current # None /\ <<current, k, b>> \in handlers))
  <2> SUFFICES ASSUME SyncInv, OrderInv, CalmInv, SyncedIsStarted, Calm, NEW k \in Keys,
                      NEW b \in Deployed .. synced[k], b \notin handled[k]
               PROVE  current # None /\ <<current, k, b>> \in handlers
    OBVIOUS
  <2>1. b \in started[k]  BY DEF SyncedIsStarted
  <2>2. PICK r \in Rounds : <<r, k, b>> \in handlers  BY <2>1 DEF CalmInv, NoneLost
  <2>3. task[r][k].step \in Working  BY <2>2 DEF OrderInv, HandlersInv
  <2>4. r = current  BY <2>3 DEF CalmInv, OneRound, Working
  <2> QED  BY <2>2, <2>4, KindsAssumption
<1> QED  BY <1>1, Invariance, NothingIsSkipped, OrderIsKept, CalmIsKept, PTL

-----------------------------------------------------------------------------
(* Until something fails no watermark goes back.  Why: the call that will  *)
(* store it is alone, and began at the one it read.                        *)

\* A call of a round that uses the watermarks, and the watermark of its kind.
Above(t, w) == /\ t.step = "head" => t.from = w
               /\ t.step \in {"fetch", "store"} => w <= t.latest

AboveInv == /\ \A r \in Rounds, k \in Keys : task[r][k].step = "store" => cached[r]
            /\ Calm => \A r \in Rounds, k \in Keys : cached[r] => Above(task[r][k], synced[k])

\* A step of one call that leaves the watermarks alone.
LEMMA OneCallAbove ==
  ASSUME SyncInv, AboveInv, NEW r \in Rounds, NEW k \in Keys, NEW t \in Task,
         Becomes(r, k, t), UNCHANGED <<synced, cached>>, Calm' => Calm,
         t.step = "store" => cached[r],
         Calm /\ cached[r] => Above(t, synced[k])
  PROVE  AboveInv'
<1>1. /\ task'[r][k] = t
      /\ \A q \in Rounds, j \in Keys : ~(q = r /\ j = k) => task'[q][j] = task[q][j]
  BY DEF Becomes, SyncInv, TypeOK
<1>2. ASSUME NEW q \in Rounds, NEW j \in Keys
      PROVE  /\ task'[q][j].step = "store" => cached'[q]
             /\ Calm' /\ cached'[q] => Above(task'[q][j], synced'[j])
  BY <1>1 DEF AboveInv
<1> QED  BY <1>2 DEF AboveInv

\* The others have ended or have not begun.
LEMMA CallsAbove ==
  ASSUME AboveInv, UNCHANGED synced, Calm' => Calm,
         \A r \in Rounds, k \in Keys :
            \/ task'[r][k].step \notin {"head", "fetch", "store"}
            \/ task'[r][k] = task[r][k] /\ cached'[r] = cached[r]
  PROVE  AboveInv'
BY DEF AboveInv, Above

LEMMA StoreAbove ==
  ASSUME SyncInv, CalmInv, AboveInv, NEW r \in Rounds, NEW k \in Keys, StoreSynced(r, k)
  PROVE  AboveInv' /\ (Calm => synced[k] <= synced'[k])
<1> DEFINE t == task[r][k]
           new == [t EXCEPT !.step = "await"]
<1>1. /\ Becomes(r, k, new) /\ t.step = "store" /\ UNCHANGED <<cached, faults, crashes>>
      /\ synced' = [synced EXCEPT ![k] = t.latest]
  BY DEF StoreSynced
<1>2. /\ task'[r][k] = new
      /\ \A q \in Rounds, j \in Keys : ~(q = r /\ j = k) => task'[q][j] = task[q][j]
      /\ new.step = "await"
      /\ synced'[k] = t.latest /\ \A j \in Keys : j # k => synced'[j] = synced[j]
  <2>1. t \in Task  BY DEF SyncInv, TypeOK
  <2>2. new.step = "await"  BY <2>1 DEF Task
  <2>3. synced'[k] = t.latest /\ \A j \in Keys : j # k => synced'[j] = synced[j]
    BY <1>1 DEF SyncInv, TypeOK
  <2> HIDE DEF new
  <2>4. /\ task'[r][k] = new
        /\ \A q \in Rounds, j \in Keys : ~(q = r /\ j = k) => task'[q][j] = task[q][j]
    BY <1>1 DEF Becomes, SyncInv, TypeOK
  <2> QED  BY <2>2, <2>3, <2>4
<1>3. Calm => synced[k] <= t.latest  BY <1>1 DEF AboveInv, Above
<1>4. ASSUME Calm, NEW q \in Rounds, q # r
      PROVE  task[q][k].step \in {"none", "done"}
  BY <1>1, <1>4 DEF CalmInv, OneRound
<1> HIDE DEF t, new
<1>5. ASSUME Calm', NEW q \in Rounds, NEW j \in Keys, cached'[q]
      PROVE  Above(task'[q][j], synced'[j])
  <2>0. Calm  BY <1>1, <1>5 DEF Calm
  <2>1. CASE q = r /\ j = k  BY <1>2, <2>1 DEF Above
  <2>2. CASE q # r /\ j = k  BY <1>2, <1>4, <2>0, <2>2 DEF Above
  <2>3. CASE j # k  BY <1>1, <1>2, <1>5, <2>0, <2>3 DEF AboveInv
  <2> QED  BY <2>1, <2>2, <2>3
<1>6. \A q \in Rounds, j \in Keys : task'[q][j].step = "store" => cached'[q]
  BY <1>1, <1>2 DEF AboveInv
<1> QED  BY <1>2, <1>3, <1>5, <1>6 DEF AboveInv

LEMMA CallAbove ==
  ASSUME SyncInv, CalmInv, AboveInv, NEW r \in Rounds, NEW k \in Keys, Call(r, k)
  PROVE  AboveInv'
<1> DEFINE t == task[r][k]
<1>0. t \in Task /\ synced[k] \in Nat /\ head \in Nat /\ faults \in Nat /\ crashes \in Nat
  BY DEF SyncInv, TypeOK
<1>1. CASE ReadState(r, k)
  <2> DEFINE new == [t EXCEPT !.step = "head", !.from = IF cached[r] THEN synced[k] ELSE 0]
  <2>1. Becomes(r, k, new) /\ UNCHANGED <<synced, cached, faults, crashes>>
    BY <1>1 DEF ReadState
  <2>2. new \in Task /\ new.step = "head" /\ (cached[r] => new.from = synced[k])
    BY <1>0 DEF Task
  <2> HIDE DEF new
  <2> QED  BY <2>1, <2>2, OneCallAbove DEF Above, Calm
<1>2. CASE ReadHead(r, k)
  <2>1. t.step = "head" /\ UNCHANGED <<synced, cached, crashes>>  BY <1>2 DEF ReadHead
  <2>2. PICK h \in InitialHead .. head :
          Becomes(r, k, Range(r, t, h)) /\ faults' \in {faults, faults + 1}
    BY <1>2, BlocksAssumption DEF ReadHead, Fault, SyncInv, TypeOK
  <2>3. h \in Nat  BY BlocksAssumption
  <2>4. Range(r, t, h) \in Task
    <3>1. InitialHead <= h /\ h <= head  BY <1>0, <2>2, BlocksAssumption
    <3> QED  BY <2>1, <2>3, <3>1, RangeIsGood
  <2>5. Range(r, t, h).step = "fetch" /\ t.from <= Range(r, t, h).latest
    BY <1>0, <2>3 DEF Range, Task, Greater
  <2>6. Calm /\ cached[r] => t.from = synced[k]  BY <2>1 DEF AboveInv, Above
  <2>7. Calm' => Calm  BY <1>0, <2>1, <2>2 DEF Calm
  <2> QED  BY <2>1, <2>2, <2>4, <2>5, <2>6, <2>7, OneCallAbove DEF Above
<1>3. CASE Fetch(r, k)
  <2> DEFINE new == IF t.start # t.earliest THEN NextBatch(t)
                    ELSE [t EXCEPT !.step = IF cached[r] THEN "store" ELSE "await"]
  <2>1. /\ Becomes(r, k, new) /\ t.step = "fetch"
        /\ UNCHANGED <<synced, cached, faults, crashes>>
    BY <1>3 DEF Fetch
  <2>2. new.step # "head" /\ new.latest = t.latest /\ (new.step = "store" => cached[r])
    BY <1>0, <2>1 DEF NextBatch, Task
  <2>3. new \in Task
    <3>1. SyncInv'  BY <1>3, FetchKeeps
    <3>2. task'[r][k] = new  BY <2>1 DEF Becomes, SyncInv, TypeOK
    <3> QED  BY <3>1, <3>2 DEF SyncInv, TypeOK
  <2>4. Calm /\ cached[r] => synced[k] <= t.latest  BY <2>1 DEF AboveInv, Above
  <2> HIDE DEF new
  <2> QED  BY <2>1, <2>2, <2>3, <2>4, OneCallAbove DEF Above, Calm
<1>4. CASE StoreSynced(r, k)  BY <1>4, StoreAbove
<1>5. CASE Await(r, k)
  <2>1. PICK step \in {"done", "failed"} : Becomes(r, k, At(step))
    BY <1>5 DEF Await
  <2>2. At(step) \in Task /\ At(step).step \in {"done", "failed"}  BY DEF At, Task
  <2>3. UNCHANGED <<synced, cached, faults, crashes>>  BY <1>5 DEF Await
  <2> QED  BY <2>1, <2>2, <2>3, OneCallAbove DEF Above, Calm
<1>6. CASE \E b \in Deployed .. head : Handle(r, k, b)
  BY <1>6, CallsAbove DEF Handle, Calm
<1> QED  BY <1>1, <1>2, <1>3, <1>4, <1>5, <1>6 DEF Call

LEMMA RoundAbove ==
  ASSUME SyncInv, AboveInv, NEW r \in Rounds, Round(r) PROVE AboveInv'
<1>0. faults \in Nat /\ crashes \in Nat  BY DEF SyncInv, TypeOK
<1>1. Calm' => Calm
  BY <1>0 DEF Round, StartRound, StartSettle, EndRound, FailRound, Fault, Calm
<1>2. CASE StartRound(r) \/ StartSettle(r)
  <2> DEFINE begun == {"waiting", "state"}
  <2>1. \A q \in Rounds, k \in Keys :
          \/ task'[q][k].step \in begun
          \/ task'[q][k] = task[q][k] /\ cached'[q] = cached[q]
    <3>1. CASE StartRound(r)
      BY <3>1 DEF StartRound, At, SyncInv, TypeOK
    <3>2. CASE StartSettle(r)
      BY <3>2 DEF StartSettle, At, SyncInv, TypeOK
    <3> QED  BY <1>2, <3>1, <3>2
  <2>2. UNCHANGED synced  BY <1>2 DEF StartRound, StartSettle
  <2> QED  BY <1>1, <2>1, <2>2, CallsAbove
<1>3. CASE EndRound(r) \/ FailRound(r)
  <2>1. UNCHANGED <<task, cached, synced>>  BY <1>3 DEF EndRound, FailRound
  <2> QED  BY <1>1, <2>1, CallsAbove
<1> QED  BY <1>2, <1>3 DEF Round

LEMMA NextAbove == ASSUME SyncInv, CalmInv, AboveInv, [Next]_vars PROVE AboveInv'
<1>0. faults \in Nat /\ crashes \in Nat  BY DEF SyncInv, TypeOK
<1>1. CASE UNCHANGED vars \/ Finalize
  <2>1. UNCHANGED <<task, cached, synced, faults, crashes>>
    BY <1>1 DEF vars, Finalize
  <2> QED  BY <2>1, CallsAbove DEF Calm
<1>2. CASE Crash
  <2>1. /\ \A r \in Rounds, k \in Keys : task'[r][k].step = "none"
        /\ UNCHANGED synced /\ ~Calm'
    BY <1>0, <1>2 DEF Crash, At, Calm
  <2> QED  BY <2>1, CallsAbove
<1>3. ASSUME NEW r \in Rounds, NEW k \in Keys, RequestFails(r, k) PROVE AboveInv'
  <2>1. Becomes(r, k, At("failed")) /\ UNCHANGED <<synced, cached>> /\ ~Calm'
    BY <1>0, <1>3 DEF RequestFails, Fault, Calm
  <2>2. At("failed") \in Task /\ At("failed").step = "failed"  BY DEF At, Task
  <2> QED  BY <2>1, <2>2, OneCallAbove DEF Above
<1>4. ASSUME NEW r \in Rounds, NEW k \in Keys, NEW b \in Deployed .. head,
             HandlerFails(r, k, b)
      PROVE  AboveInv'
  <2>1. UNCHANGED <<synced, cached>> /\ ~Calm'
    BY <1>0, <1>4 DEF HandlerFails, Fault, Calm
  <2>2. \A q \in Rounds, j \in Keys : task'[q][j].step = task[q][j].step
    <3>1. CASE UNCHANGED task  BY <3>1
    <3>2. CASE task' = [task EXCEPT ![r][k].thrown = TRUE]
      <4>1. task[r][k] \in Task  BY DEF SyncInv, TypeOK
      <4> QED  BY <3>2, <4>1 DEF SyncInv, TypeOK, Task
    <3> QED  BY <1>4, <3>1, <3>2 DEF HandlerFails
  <2> QED  BY <2>1, <2>2 DEF AboveInv
<1> QED  BY <1>1, <1>2, <1>3, <1>4, RoundAbove, CallAbove DEF Next

\* A round that failed leaves traversals behind that may store an older watermark after a
\* newer one.  Until something fails or the process ends no watermark goes back: a round
\* ends only when all its traversals have, and each one begins at the watermark or above.
THEOREM MarksAdvance ==
  Spec => [][Calm => \A k \in Keys : synced[k] <= synced'[k]]_vars
<1>1. Init => AboveInv  BY DEF Init, AboveInv, Above, At
<1>2. SyncInv /\ CalmInv /\ AboveInv /\ [Next]_vars => AboveInv'  BY NextAbove
<1>3. SyncInv /\ CalmInv /\ AboveInv /\ [Next]_vars =>
        [Calm => \A k \in Keys : synced[k] <= synced'[k]]_vars
  <2> SUFFICES ASSUME SyncInv, CalmInv, AboveInv, Next, Calm, NEW k \in Keys
               PROVE  synced[k] <= synced'[k]
    OBVIOUS
  <2>0. synced[k] \in Nat  BY DEF SyncInv, TypeOK
  <2>1. ASSUME NEW r \in Rounds, NEW j \in Keys, StoreSynced(r, j)
        PROVE  synced[k] <= synced'[k]
    <3>1. synced[j] <= synced'[j]  BY <2>1, StoreAbove
    <3>2. k # j => synced'[k] = synced[k]  BY <2>1 DEF StoreSynced, SyncInv, TypeOK
    <3> QED  BY <2>0, <3>1, <3>2
  <2>2. CASE UNCHANGED synced  BY <2>0, <2>2
  <2>3. UNCHANGED synced \/ \E r \in Rounds, j \in Keys : StoreSynced(r, j)
    <3>1. CASE Finalize \/ Crash  BY <3>1 DEF Finalize, Crash
    <3>2. ASSUME NEW r \in Rounds, Round(r) PROVE UNCHANGED synced
      BY <3>2 DEF Round, StartRound, StartSettle, EndRound, FailRound
    <3>3. ASSUME NEW r \in Rounds, NEW j \in Keys, Call(r, j), ~StoreSynced(r, j)
          PROVE  UNCHANGED synced
      BY <3>3 DEF Call, ReadState, ReadHead, Fetch, Await, Handle
    <3>4. ASSUME NEW r \in Rounds, NEW j \in Keys,
                 \/ RequestFails(r, j)
                 \/ \E b \in Deployed .. head : HandlerFails(r, j, b)
          PROVE  UNCHANGED synced
      BY <3>4 DEF RequestFails, HandlerFails
    <3> QED  BY <3>1, <3>2, <3>3, <3>4 DEF Next
  <2> QED  BY <2>1, <2>2, <2>3
<1> QED  BY <1>1, <1>2, <1>3, Invariance, CalmIsKept, PTL DEF Spec

-----------------------------------------------------------------------------
(* EventSync implements EventDelivery. *)

LEMMA InitRefines == ASSUME Init PROVE Delivery!Init
  BY BlocksAssumption DEF Init, Delivery!Init

LEMMA CallRefines ==
  ASSUME SyncInv, NEW r \in Rounds, NEW k \in Keys, Call(r, k)
  PROVE  [Delivery!Next]_Delivery!vars
<1>1. CASE Fetch(r, k)
  <2> DEFINE batch == task[r][k].start .. task[r][k].end
  <2>1. task[r][k] \in Task /\ head \in Nat /\ task[r][k].step = "fetch"
        /\ GoodTask(task[r][k], cached[r], head, started[k])
    BY <1>1 DEF Fetch, SyncInv, TypeOK, TasksInv
  <2>2. batch \in SUBSET (Deployed .. head)
    BY <2>1, BlocksAssumption DEF GoodTask, Task
  <2>3. Delivery!Deliver(k, batch)  BY <1>1 DEF Fetch, Delivery!Deliver
  <2> HIDE DEF batch
  <2> QED  BY <2>2, <2>3 DEF Delivery!Next
<1>2. CASE StoreSynced(r, k)
  <2>1. Delivery!MoveTo(k, task[r][k].latest) /\ task[r][k].latest \in Deployed .. head
    BY <1>2, StoreKeeps DEF StoreSynced, Delivery!MoveTo
  <2> QED  BY <2>1 DEF Delivery!Next
<1>3. CASE ~Fetch(r, k) /\ ~StoreSynced(r, k)
  <2>1. UNCHANGED <<head, synced, started>>
    BY <1>3 DEF Call, ReadState, ReadHead, Await, Handle
  <2> QED  BY <2>1 DEF Delivery!vars
<1> QED  BY <1>1, <1>2, <1>3

LEMMA NextRefines == ASSUME SyncInv, [Next]_vars PROVE [Delivery!Next]_Delivery!vars
<1>1. CASE UNCHANGED vars  BY <1>1 DEF vars, Delivery!vars
<1>2. CASE Finalize  BY <1>2 DEF Finalize, Delivery!Finalize, Delivery!Next
<1>3. CASE Crash  BY <1>3 DEF Crash, Delivery!vars
<1>4. ASSUME NEW r \in Rounds, Round(r) PROVE [Delivery!Next]_Delivery!vars
  BY <1>4, RoundKeeps DEF Delivery!vars
<1>5. ASSUME NEW r \in Rounds, NEW k \in Keys, Call(r, k)
      PROVE  [Delivery!Next]_Delivery!vars
  BY <1>5, CallRefines
<1>6. ASSUME NEW r \in Rounds, NEW k \in Keys, RequestFails(r, k)
      PROVE  [Delivery!Next]_Delivery!vars
  BY <1>6 DEF RequestFails, Delivery!vars
<1>7. ASSUME NEW r \in Rounds, NEW k \in Keys, NEW b \in Deployed .. head,
             HandlerFails(r, k, b)
      PROVE  [Delivery!Next]_Delivery!vars
  BY <1>7, HandlerFailsKeeps DEF Delivery!vars
<1> QED  BY <1>1, <1>2, <1>3, <1>4, <1>5, <1>6, <1>7 DEF Next

\* Batches that go backward, overlapping rounds, failures and restarts implement the
\* abstract delivery: a watermark moves only to a block that was reached without a gap.
THEOREM Refinement == Spec => Implements
<1>1. Init => Delivery!Init  BY InitRefines
<1>2. SyncInv /\ [Next]_vars => [Delivery!Next]_Delivery!vars  BY NextRefines
<1> QED  BY <1>1, <1>2, Invariance, PTL DEF Spec, Implements, Delivery!Spec
=============================================================================
