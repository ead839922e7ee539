------------------------------ MODULE EventSync ------------------------------
(***************************************************************************)
(* How the SyncWatcher of one chain reads the events of its bridge.        *)
(*                                                                         *)
(* pollSync runs one round after another.  A round asks for every kind of  *)
(* event with mapEventsBatch: eventsBatch goes back from the last final    *)
(* block to the watermark of the kind, a batch of blocks at a time, and    *)
(* starts a handler for each event; then it stores the watermark, and only *)
(* then the handlers are awaited.  The kinds in Settle are read when those *)
(* in Prior are done.  A round ends with the first error, but what it      *)
(* started goes on beside the next round.                                  *)
(*                                                                         *)
(* Every block has one event of each kind.  What a handler stores is left  *)
(* to the other modules: here a handler succeeds, logs its error and       *)
(* returns, or throws.                                                     *)
(***************************************************************************)
EXTENDS Integers, FiniteSets

CONSTANTS
  Prior,         \* WithdrawalBonded, Withdrew, TransferRootBonded, TransfersCommitted
  Free,          \* kinds that are read beside them
  Settle,        \* MultipleWithdrawalsSettled, WithdrawalBondSettled
  Rounds,        \* rounds that may be under way at a time
  None,          \* no round
  Deployed,      \* bridgeDeployedBlockNumber
  CustomStart,   \* block of syncFromDate, 0 when it is not given
  InitialHead,   \* the last final block when the program starts
  BatchBlocks,   \* sync.batchBlocks
  Faults,        \* what may go wrong, see AllFaults
  MaxBlock, MaxFaults, MaxCrashes   \* bounds of the environment

\* "lag": a provider answers with an older block; "rpc": it fails; "swallow": a handler
\* logs an error of the db and returns; "throw": a handler throws (a settle event whose
\* root is not known); "credit": the sync of the credit that ends a round fails.
AllFaults == {"lag", "rpc", "swallow", "throw", "credit"}

Keys == Prior \cup Free \cup Settle

ASSUME KindsAssumption ==
  /\ None \notin Rounds /\ Faults \subseteq AllFaults
  /\ Prior \cap Settle = {} /\ Free \cap Settle = {}
ASSUME BlocksAssumption ==
  /\ Deployed \in Nat \ {0}
  /\ CustomStart \in Nat /\ (CustomStart = 0 \/ CustomStart >= Deployed)
  /\ InitialHead \in Nat /\ InitialHead >= Deployed /\ InitialHead >= CustomStart
  /\ BatchBlocks \in Nat \ {0}
  /\ MaxBlock \in Nat /\ MaxFaults \in Nat /\ MaxCrashes \in Nat

VARIABLES
  head,                 \* the last final block
  synced,               \* syncState: latestBlockSynced of each kind, 0 when not set
  task,                 \* the calls of mapEventsBatch of each round
  cached,               \* whether a round uses the watermarks (useCacheKey)
  handlers,             \* handlers under way
  current,              \* the round that pollSync awaits
  initialSyncCompleted,
  started,              \* history: blocks whose event was given to a handler
  handled,              \* blocks whose event is in the db
  faults, crashes

vars == <<head, synced, task, cached, handlers, current, initialSyncCompleted,
          started, handled, faults, crashes>>

Blocks == Deployed .. MaxBlock

\* A call of mapEventsBatch.  "waiting": not called yet; "state": reads the watermark;
\* "head": asks for the last final block; "fetch": asks for the events of start .. end;
\* "store": stores the watermark; "await": waits for its handlers.
Task == [step : {"none", "waiting", "state", "head", "fetch", "store", "await",
                 "done", "failed"},
         from : Nat, start : Nat, end : Nat, earliest : Nat, latest : Nat,
         thrown : BOOLEAN]

At(step) == [step |-> step, from |-> 0, start |-> 0, end |-> 0, earliest |-> 0,
             latest |-> 0, thrown |-> FALSE]

Greater(a, b) == IF a > b THEN a ELSE b

TypeOK == /\ head \in Nat /\ head >= InitialHead
          /\ synced \in [Keys -> Nat]
          /\ task \in [Rounds -> [Keys -> Task]]
          /\ cached \in [Rounds -> BOOLEAN]
          /\ handlers \subseteq Rounds \X Keys \X (Deployed .. head)
          /\ current \in Rounds \cup {None}
          /\ initialSyncCompleted \in BOOLEAN
          /\ started \in [Keys -> SUBSET (Deployed .. head)]
          /\ handled \in [Keys -> SUBSET (Deployed .. head)]
          /\ faults \in Nat /\ crashes \in Nat

Init == /\ head = InitialHead
        /\ synced = [k \in Keys |-> 0]
        /\ task = [r \in Rounds |-> [k \in Keys |-> At("none")]]
        /\ cached = [r \in Rounds |-> FALSE]
        /\ handlers = {}
        /\ current = None
        /\ initialSyncCompleted = FALSE
        /\ started = [k \in Keys |-> {}]
        /\ handled = [k \in Keys |-> {}]
        /\ faults = 0 /\ crashes = 0

\* The chain goes on.
Finalize == /\ head < MaxBlock
            /\ head' = head + 1
            /\ UNCHANGED <<synced, task, cached, handlers, current, initialSyncCompleted,
                           started, handled, faults, crashes>>

Fault(f) == /\ f \in Faults /\ faults < MaxFaults
            /\ faults' = faults + 1

-----------------------------------------------------------------------------
(* A round: pollSync and syncHandler. *)

\* Nothing of the round is left, a settle kind that will never be called aside.
IsOver(r) ==
  /\ \A k \in Keys : task[r][k].step \in {"none", "waiting", "done", "failed"}
  /\ \A h \in handlers : h[1] # r
  /\ (\E k \in Settle : task[r][k].step = "waiting")
       => \E k \in Prior : task[r][k].step = "failed"

\* syncHandler: the kinds but those in Settle are asked for at once.
StartRound(r) ==
  /\ current = None /\ IsOver(r)
  /\ current' = r
  /\ cached' = [cached EXCEPT ![r] = initialSyncCompleted \/ CustomStart = 0]
  /\ task' = [task EXCEPT ![r] =
       [k \in Keys |-> At(IF k \in Settle THEN "waiting" ELSE "state")]]
  /\ UNCHANGED <<head, synced, handlers, initialSyncCompleted, started, handled,
                 faults, crashes>>

\* A slip: the Prior kinds are read, their handlers are not awaited.
StartSettleEarly(r) ==
  /\ \A k \in Prior : task[r][k].step \in {"await", "done"}
  /\ \E k \in Settle : task[r][k].step = "waiting"
  /\ task' = [task EXCEPT ![r] =
       [k \in Keys |-> IF k \in Settle THEN At("state") ELSE @[k]]]
  /\ UNCHANGED <<head, synced, cached, handlers, current, initialSyncCompleted,
                 started, handled, faults, crashes>>

\* Promise.all of the Prior kinds has resolved.
StartSettle(r) ==
  /\ \A k \in Prior : task[r][k].step = "done"
  /\ \E k \in Settle : task[r][k].step = "waiting"
  /\ task' = [task EXCEPT ![r] =
       [k \in Keys |-> IF k \in Settle THEN At("state") ELSE @[k]]]
  /\ UNCHANGED <<head, synced, cached, handlers, current, initialSyncCompleted,
                 started, handled, faults, crashes>>

\* The incomplete items and postSyncHandler follow; the first success counts.
EndRound(r) ==
  /\ current = r /\ \A k \in Keys : task[r][k].step = "done"
  /\ current' = None /\ initialSyncCompleted' = TRUE
  /\ UNCHANGED <<head, synced, task, cached, handlers, started, handled, faults, crashes>>

\* A slip: the error ends pollSync.
FailRoundForGood(r) ==
  /\ current = r
  /\ \E k \in Keys : task[r][k].step = "failed"
  /\ UNCHANGED vars

\* pollSync catches the error and starts over, without a pause.
FailRound(r) ==
  /\ current = r /\ current' = None
  /\ \/ \E k \in Keys : task[r][k].step = "failed" /\ UNCHANGED faults
     \/ (\A k \in Keys : task[r][k].step = "done") /\ Fault("credit")
  /\ UNCHANGED <<head, synced, task, cached, handlers, initialSyncCompleted, started,
                 handled, crashes>>

-----------------------------------------------------------------------------
(* A call of mapEventsBatch: eventsBatch and getBlockValues. *)

Becomes(r, k, t) == task' = [task EXCEPT ![r][k] = t]

ReadState(r, k) ==
  LET t == task[r][k] IN
  /\ t.step = "state"
  /\ Becomes(r, k, [t EXCEPT !.step = "head", !.from = IF cached[r] THEN synced[k] ELSE 0])
  /\ UNCHANGED <<head, synced, cached, handlers, current, initialSyncCompleted, started,
                 handled, faults, crashes>>

\* From the answer h on: down to the watermark, or to the first block of all.
Range(r, t, h) ==
  LET first    == IF cached[r] THEN Deployed ELSE CustomStart
      end      == IF t.from = 0 THEN h ELSE Greater(h, t.from)
      earliest == IF t.from = 0 THEN first ELSE t.from
  IN [t EXCEPT !.step = "fetch", !.end = end, !.earliest = earliest, !.latest = end,
               !.start = IF end - earliest <= BatchBlocks THEN earliest
                                                          ELSE end - BatchBlocks]

ReadHead(r, k) ==
  /\ task[r][k].step = "head"
  /\ \/ /\ Becomes(r, k, Range(r, task[r][k], head))
        /\ UNCHANGED faults
     \/ \E h \in InitialHead .. head - 1 :
          /\ Becomes(r, k, Range(r, task[r][k], h))
          /\ Fault("lag")
  /\ UNCHANGED <<head, synced, cached, handlers, current, initialSyncCompleted, started,
                 handled, crashes>>

\* The batch before, down to earliest; and two slips of it.
NextBatchUnclamped(t) == [t EXCEPT !.end = t.start - 1, !.start = t.start - 1 - BatchBlocks]
NextBatchSkipping(t) == [t EXCEPT !.end = t.start - 2,
                                  !.start = Greater(t.start - 2 - BatchBlocks, t.earliest)]
NextBatch(t) == [t EXCEPT !.end = t.start - 1,
                          !.start = Greater(t.start - 1 - BatchBlocks, t.earliest)]

\* The callback of a batch starts a handler per event.
Fetch(r, k) ==
  LET t == task[r][k] IN
  /\ t.step = "fetch"
  /\ handlers' = handlers \cup ({r} \X {k} \X (t.start .. t.end))
  /\ started' = [started EXCEPT ![k] = @ \cup (t.start .. t.end)]
  /\ Becomes(r, k, IF t.start # t.earliest THEN NextBatch(t)
                   ELSE [t EXCEPT !.step = IF cached[r] THEN "store" ELSE "await"])
  /\ UNCHANGED <<head, synced, cached, current, initialSyncCompleted, handled, faults,
                 crashes>>

\* A slip: the watermark is the last final block of now.
StoreHead(r, k) ==
  /\ task[r][k].step = "store"
  /\ synced' = [synced EXCEPT ![k] = head]
  /\ Becomes(r, k, [task[r][k] EXCEPT !.step = "await"])
  /\ UNCHANGED <<head, cached, handlers, current, initialSyncCompleted, started, handled,
                 faults, crashes>>

\* The watermark is the block the traversal began at, read before the first batch.
StoreSynced(r, k) ==
  LET t == task[r][k] IN
  /\ t.step = "store"
  /\ synced' = [synced EXCEPT ![k] = t.latest]
  /\ Becomes(r, k, [t EXCEPT !.step = "await"])
  /\ UNCHANGED <<head, cached, handlers, current, initialSyncCompleted, started, handled,
                 faults, crashes>>

\* Promise.all of the handlers.
Await(r, k) ==
  LET t == task[r][k] IN
  /\ t.step = "await"
  /\ \/ t.thrown /\ Becomes(r, k, At("failed"))
     \/ /\ ~t.thrown /\ \A h \in handlers : h[1] # r \/ h[2] # k
        /\ Becomes(r, k, At("done"))
  /\ UNCHANGED <<head, synced, cached, handlers, current, initialSyncCompleted, started,
                 handled, faults, crashes>>

\* A provider or the db fails in one of the awaits of eventsBatch.
RequestFails(r, k) ==
  /\ task[r][k].step \in {"head", "fetch", "store"}
  /\ Fault("rpc")
  /\ Becomes(r, k, At("failed"))
  /\ UNCHANGED <<head, synced, cached, handlers, current, initialSyncCompleted, started,
                 handled, crashes>>

-----------------------------------------------------------------------------
(* Handlers. *)

Handle(r, k, b) ==
  /\ <<r, k, b>> \in handlers
  /\ handlers' = handlers \ {<<r, k, b>>}
  /\ handled' = [handled EXCEPT ![k] = @ \cup {b}]
  /\ UNCHANGED <<head, synced, task, cached, current, initialSyncCompleted, started,
                 faults, crashes>>

\* The event is not stored; an error that is thrown rejects the promise of its call.
HandlerFails(r, k, b) ==
  /\ <<r, k, b>> \in handlers
  /\ handlers' = handlers \ {<<r, k, b>>}
  /\ \/ Fault("swallow") /\ UNCHANGED task
     \/ /\ Fault("throw")
        /\ task' = IF task[r][k].step \in {"fetch", "store", "await"}
                   THEN [task EXCEPT ![r][k].thrown = TRUE] ELSE task
  /\ UNCHANGED <<head, synced, cached, current, initialSyncCompleted, started, handled,
                 crashes>>

\* The process starts again: what is in the db stays.
Crash == /\ crashes < MaxCrashes
         /\ crashes' = crashes + 1
         /\ task' = [r \in Rounds |-> [k \in Keys |-> At("none")]]
         /\ cached' = [r \in Rounds |-> FALSE]
         /\ handlers' = {} /\ current' = None /\ initialSyncCompleted' = FALSE
         /\ UNCHANGED <<head, synced, started, handled, faults>>

Call(r, k) == \/ ReadState(r, k) \/ ReadHead(r, k) \/ Fetch(r, k) \/ StoreSynced(r, k)
              \/ Await(r, k)
              \/ \E b \in Deployed .. head : Handle(r, k, b)

Round(r) == StartRound(r) \/ StartSettle(r) \/ EndRound(r) \/ FailRound(r)

Next == \/ Finalize \/ Crash
        \/ \E r \in Rounds :
             \/ Round(r)
             \/ \E k \in Keys : \/ Call(r, k) \/ RequestFails(r, k)
                                \/ \E b \in Deployed .. head : HandlerFails(r, k, b)

Spec == Init /\ [][Next]_vars

\* The event loop goes on and requests are answered; faults are finite.
FairSpec == /\ Spec
            /\ WF_vars(\E r \in Rounds : Round(r) \/ \E k \in Keys : Call(r, k))

-----------------------------------------------------------------------------
(* Properties *)

\* The batches that go back from the last final block leave no gap: whatever fails, and
\* however many rounds overlap, each event up to the watermark was given to its handler.
SyncedIsStarted == \A k \in Keys : Deployed .. synced[k] \subseteq started[k]

\* What EventDelivery promises.
Delivery == INSTANCE EventDelivery WITH
  Keys <- Keys, Deployed <- Deployed, head <- head, synced <- synced, started <- started
Implements == Delivery!Spec

\* Once a block is final its events are given to their handlers, through failures of the
\* provider, of handlers and of the process.
EventIsStarted == \A k \in Keys : \A b \in Blocks : b <= head ~> b \in started[k]

\* Settle events need what the Prior events of the same range have stored: no handler of
\* theirs runs while one of the same round works on a Prior event.  Unless a fault or a
\* restart came between, everything that was read of the Prior kinds is in the db by then.
SettleFollowsPrior ==
  \A h \in handlers : h[2] \in Settle =>
    /\ \A g \in handlers : g[1] = h[1] => g[2] \notin Prior
    /\ faults = 0 /\ crashes = 0 => \A k \in Prior : started[k] \subseteq handled[k]
=============================================================================
