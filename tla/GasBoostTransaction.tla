------------------------ MODULE GasBoostTransaction ------------------------
(***************************************************************************)
(* GasBoostTransaction: one transaction with one nonce.  send() broadcasts *)
(* it and a poller boosts its fee until maxGasPriceReached, then           *)
(* rebroadcasts it until maxRebroadcastIndexReached.  A confirmed one is   *)
(* watched; when a reorg dropped it, it is reset and sent again.           *)
(*                                                                         *)
(* The broadcasts differ in nothing but their fee, so the fee stands for   *)
(* the hash: gasPrice of a type 0 transaction, maxPriorityFeePerGas of one *)
(* of type 2 (maxFeePerGas is bounded by the maximum wherever it is set).  *)
(* Only the latest inflight item is ever unboosted; it stands for the      *)
(* list.  A poll boosts or rebroadcasts at most once.  The chain, the      *)
(* nodes and the market are external.                                      *)
(***************************************************************************)
EXTENDS Integers

CONSTANTS
  Pollers,        \* runs of startPoller
  Caller,         \* whoever runs send(): the signer, later rebroadcastInitialTx
  None, Other,    \* no broadcast; a transaction of another program with this nonce
  MarketFees,     \* what the market may ask, at least minPriorityFeePerGas
  GivenFees,      \* fees a caller may pass in; zero stands for none
  Numerator, Denominator,  \* gasPriceMultiplier
  Cap,            \* maxGasPriceGwei (type 0), priorityFeePerGasCap (type 2)
  MaxFee,         \* what the account can pay (type 0), maxGasPriceGwei (type 2)
  MaxRetries,     \* maxRetries of _sendTransaction
  MaxRebroadcastIndex,
  Faults,         \* what may go wrong, see AllFaults
  MaxReorgs       \* bound of the environment

\* "serverError": a request fails; "lostResponse": the node took the transaction and
\* the request fails; "otherError": an error that is not tried again; "fatalError":
\* one that ends the poller; "reverts": the transaction is mined and fails;
\* "getTransaction": the lookup after the confirmation fails; "foreign": another
\* program takes the nonce; "drop": the nodes drop what is pending.
AllFaults == {"serverError", "lostResponse", "otherError", "fatalError", "reverts",
              "getTransaction", "foreign", "drop"}

Fees == 1 .. MaxFee

ASSUME ProcessesAssumption ==
  /\ Caller \notin Pollers
  /\ None \notin Int /\ Other \notin Int /\ None # Other
  /\ Faults \subseteq AllFaults
ASSUME FeesAssumption ==
  /\ MaxFee \in Nat /\ Cap \in Fees
  /\ MarketFees \subseteq Nat \ {0} /\ GivenFees \subseteq Nat
  /\ Numerator \in Nat /\ Denominator \in Nat \ {0}
  /\ MaxRetries \in Nat \ {0} /\ MaxRebroadcastIndex \in Nat /\ MaxReorgs \in Nat

VARIABLES
  pool,       \* broadcasts that may be mined
  mined,      \* the transaction of the chain that has this nonce
  reorgs,
  type, given,      \* the type of the transaction and the fee the caller gave
  gas,        \* the fee last used, zero if undefined
  latest, due,      \* the latest inflight item, and that timeTilBoostMs have passed
  maxGasPriceReached,
  rebroadcastIndex, maxRebroadcastIndexReached,
  started,    \* a poller has been started
  proc,       \* the pollers and the caller of send()
  waits,      \* broadcasts whose tx.wait() or getReceipt is pending
  confirmed,  \* the broadcast of the receipt: confirmations and txHash
  handling,   \* handleConfirmation awaits getTransaction
  watching,   \* watchForReorg runs
  waiter,     \* a caller of wait()
  highest,    \* history: the highest fee that was handed to a node
  retried,    \* history: _sendTransaction tried again
  broken      \* history: a poller ended with an error

chainVars == <<pool, mined, reorgs>>
callVars == <<type, given>>
itemVars == <<gas, latest, due, started, waits>>
limitVars == <<maxGasPriceReached, rebroadcastIndex, maxRebroadcastIndexReached>>
confirmVars == <<confirmed, handling, watching>>
historyVars == <<highest, retried, broken>>
vars == <<chainVars, callVars, itemVars, limitVars, proc, confirmVars, waiter,
          historyVars>>

-----------------------------------------------------------------------------
Procs == Pollers \cup {Caller}

\* fee and index are those of the request that is being made.
Proc == [step : {"off", "sleep", "fees", "boost", "send", "rebroadcast"}, fee : Nat,
         index : 1 .. MaxRetries]
Idle(step) == [step |-> step, fee |-> 0, index |-> 1]

At(p, step) == proc[p].step = step
Goto(p, k) == proc' = [proc EXCEPT ![p] = k]

Init ==
  /\ pool = {} /\ mined = None /\ reorgs = 0
  /\ type \in {0, 2}
  /\ given \in GivenFees
  /\ gas = given
  /\ latest = None /\ due = FALSE
  /\ maxGasPriceReached = FALSE
  /\ rebroadcastIndex = 0 /\ maxRebroadcastIndexReached = FALSE
  /\ started = FALSE
  /\ proc = [p \in Procs |-> Idle(IF p = Caller THEN "fees" ELSE "off")]
  /\ waits = {}
  /\ confirmed = None /\ handling = FALSE /\ watching = FALSE
  /\ waiter = "none"
  /\ highest = 0 /\ retried = FALSE /\ broken = FALSE

-----------------------------------------------------------------------------
(* The chain and the nodes (external). *)

Mine ==
  /\ mined = None
  /\ \/ mined' \in pool
     \/ "foreign" \in Faults /\ mined' = Other
  /\ UNCHANGED <<pool, reorgs, callVars, itemVars, limitVars, proc, confirmVars,
                 waiter, historyVars>>

\* The transaction of the dropped block may be pending again, or be lost.
Reorg ==
  /\ reorgs < MaxReorgs
  /\ mined # None
  /\ mined' = None
  /\ pool' \in {pool, pool \ {mined}}
  /\ reorgs' = reorgs + 1
  /\ UNCHANGED <<callVars, itemVars, limitVars, proc, confirmVars, waiter, historyVars>>

Drop ==
  /\ "drop" \in Faults
  /\ pool # {} /\ pool' = {}
  /\ UNCHANGED <<mined, reorgs, callVars, itemVars, limitVars, proc, confirmVars, waiter,
                 historyVars>>

\* A replacement has to pay a tenth more than what it replaces.
Underpriced(fee) == \E f \in pool : 10 * fee < 11 * f

Takes(fee) == mined = None /\ fee \in Fees /\ ~Underpriced(fee)

\* The same broadcast again is "already known", which counts like a fee too low.
FeeTooLow(fee) == mined = None /\ fee \in Fees /\ Underpriced(fee)

-----------------------------------------------------------------------------
(* Fees. *)

Min2(a, b) == IF a < b THEN a ELSE b
Max2(a, b) == IF a < b THEN b ELSE a

\* getBumpedGasPrice and getBumpedMaxPriorityFeePerGas with multiplier times index.
Bumped(market, index) ==
  LET prev == IF gas = 0 THEN market ELSE gas
  IN  Max2(market, (prev * Numerator * index) \div Denominator)

\* Mutant of BoostFee: the bid is compared with nothing.
UnlimitedBoostFee(market) == {Bumped(market, 1)}

\* What a boost may bid: too high a gasPrice is none, too high a priority fee is
\* clamped, and is none when the last one was clamped already.
BoostFee(market) ==
  LET bid == Bumped(market, 1)
  IN  IF bid <= Cap THEN {bid}
      ELSE IF type = 0 THEN {}
      ELSE IF gas = 0 THEN {bid}
      ELSE {Cap} \ {gas}

-----------------------------------------------------------------------------
(* Sending. *)

\* A listener that waits gets the first result, see Wait and HandleConfirmation.
IsWaiting == waiter \in {"waiting", "late", "unannounced"}
Tell(result) == waiter' = IF IsWaiting THEN result ELSE waiter

\* send() begins: the fees of the market, or those the transaction has, clamped.
SendFees ==
  /\ At(Caller, "fees")
  /\ \E market \in MarketFees :
       Goto(Caller, [step |-> "send", index |-> 1,
                     fee |-> Min2(Cap, IF gas # 0 THEN gas ELSE market)])
  /\ UNCHANGED <<chainVars, callVars, itemVars, limitVars, confirmVars, waiter,
                 historyVars>>

\* startPoller: a poller ends at its first look at confirmations and the index.
PollerStarts(p) ==
  IF confirmed # None \/ maxRebroadcastIndexReached THEN Idle("off") ELSE Idle("sleep")

\* The request of p succeeded: setGasProperties and track.
Track(p) ==
  LET done == IF p = Caller THEN Idle("off") ELSE Idle("sleep") IN
  /\ gas' = proc[p].fee
  /\ latest' = proc[p].fee
  /\ due' = FALSE
  /\ waits' = waits \cup {proc[p].fee}
  /\ started' = TRUE
  /\ \/ started /\ Goto(p, done)
     \/ /\ ~started
        /\ \E q \in Pollers \ {p} :
             /\ At(q, "off")
             /\ proc' = [proc EXCEPT ![p] = done, ![q] = PollerStarts(q)]

\* The error leaves _sendTransaction: a poller reports it, and goes on unless it is
\* NonceTooLow, EstimateGas or KmsSigner; send() throws.
SendThrows(p, ends) ==
  /\ Goto(p, Idle(IF p = Caller \/ ends THEN "off" ELSE "sleep"))
  /\ broken' = (broken \/ (p # Caller /\ ends))
  /\ IF p = Caller THEN UNCHANGED waiter ELSE Tell("rejected")
  /\ UNCHANGED <<itemVars, retried>>

\* Mutant of Retry: maxRetries is compared one too late.
RetryOnceMore(p) ==
  /\ proc[p].index <= MaxRetries
  /\ \E market \in MarketFees :
       Goto(p, [step |-> "send", index |-> proc[p].index + 1,
                fee |-> Bumped(market, proc[p].index + 1)])
  /\ retried' = TRUE
  /\ UNCHANGED <<itemVars, broken, waiter>>

\* The request is made again with a fee that is bumped once more and not clamped.
Retry(p) ==
  /\ proc[p].index < MaxRetries
  /\ \E market \in MarketFees :
       Goto(p, [step |-> "send", index |-> proc[p].index + 1,
                fee |-> Bumped(market, proc[p].index + 1)])
  /\ retried' = TRUE
  /\ UNCHANGED <<itemVars, broken, waiter>>

RetryOrThrow(p) ==
  \/ Retry(p)
  \/ proc[p].index = MaxRetries /\ SendThrows(p, FALSE)

\* The node answers a request of _sendTransaction.
Accepted(p) ==
  /\ Takes(proc[p].fee)
  /\ pool' = pool \cup {proc[p].fee}
  /\ highest' = Max2(highest, proc[p].fee)
  /\ \/ Track(p) /\ UNCHANGED <<retried, broken, waiter>>
     \/ "lostResponse" \in Faults /\ RetryOrThrow(p)

Refused(p) ==
  /\ UNCHANGED <<pool, highest>>
  /\ \/ mined # None /\ SendThrows(p, TRUE)
     \/ FeeTooLow(proc[p].fee) /\ RetryOrThrow(p)
     \/ "serverError" \in Faults /\ RetryOrThrow(p)
     \/ "otherError" \in Faults /\ SendThrows(p, FALSE)
     \/ mined = None /\ proc[p].fee \notin Fees /\ SendThrows(p, FALSE)
     \/ "fatalError" \in Faults /\ SendThrows(p, TRUE)

SendTransaction(p) ==
  /\ At(p, "send")
  /\ Accepted(p) \/ Refused(p)
  /\ UNCHANGED <<mined, reorgs, callVars, limitVars, confirmVars>>

-----------------------------------------------------------------------------
(* The poller. *)

TimePasses ==
  /\ latest # None /\ ~due
  /\ due' = TRUE
  /\ UNCHANGED <<chainVars, callVars, gas, latest, started, waits, limitVars, proc,
                 confirmVars, waiter, historyVars>>

EndPoller(p) ==
  /\ At(p, "sleep")
  /\ confirmed # None \/ maxRebroadcastIndexReached
  /\ Goto(p, Idle("off"))
  /\ UNCHANGED <<chainVars, callVars, itemVars, limitVars, confirmVars, waiter,
                 historyVars>>

\* A poll finds that the latest item is due.
Polls(p) ==
  /\ At(p, "sleep")
  /\ confirmed = None /\ ~maxRebroadcastIndexReached
  /\ latest # None /\ due

ShouldBoost(p) ==
  /\ Polls(p)
  /\ ~maxGasPriceReached
  /\ Goto(p, Idle("boost"))
  /\ UNCHANGED <<chainVars, callVars, itemVars, limitVars, confirmVars, waiter,
                 historyVars>>

Boost(p) ==
  /\ At(p, "boost")
  /\ \E market \in MarketFees :
       \/ \E fee \in BoostFee(market) :
            /\ Goto(p, [step |-> "send", index |-> 1, fee |-> fee])
            /\ UNCHANGED maxGasPriceReached
       \/ /\ BoostFee(market) = {}
          /\ maxGasPriceReached' = TRUE
          /\ Goto(p, Idle("sleep"))
  /\ UNCHANGED <<chainVars, callVars, itemVars, rebroadcastIndex,
                 maxRebroadcastIndexReached, confirmVars, waiter, historyVars>>

\* Mutant of RebroadcastLatestTx: the last round ends nothing.
RebroadcastForEver(p) ==
  /\ Polls(p)
  /\ maxGasPriceReached
  /\ due' = FALSE
  /\ rebroadcastIndex' = Min2(rebroadcastIndex + 1, MaxRebroadcastIndex + 1)
  /\ Goto(p, [Idle("rebroadcast") EXCEPT !.fee = gas])
  /\ UNCHANGED <<chainVars, callVars, gas, latest, started, waits, maxGasPriceReached,
                 maxRebroadcastIndexReached, confirmVars, waiter, historyVars>>

\* The state is updated before the request is made; the last round gives up.
RebroadcastLatestTx(p) ==
  /\ Polls(p)
  /\ maxGasPriceReached
  /\ due' = FALSE
  /\ rebroadcastIndex' = Min2(rebroadcastIndex + 1, MaxRebroadcastIndex + 1)
  /\ \/ /\ rebroadcastIndex < MaxRebroadcastIndex
        /\ Goto(p, [Idle("rebroadcast") EXCEPT !.fee = gas])
        /\ UNCHANGED <<latest, maxRebroadcastIndexReached, waiter>>
     \/ /\ rebroadcastIndex >= MaxRebroadcastIndex
        /\ maxRebroadcastIndexReached' = TRUE
        /\ latest' = None
        /\ Tell("rejected")
        /\ Goto(p, Idle("sleep"))
  /\ UNCHANGED <<chainVars, callVars, gas, started, waits, maxGasPriceReached,
                 confirmVars, historyVars>>

\* Whatever the answer to a rebroadcast is, the poller goes on.
Rebroadcast(p) ==
  /\ At(p, "rebroadcast")
  /\ Goto(p, Idle("sleep"))
  /\ \/ UNCHANGED <<pool, highest>>
     \/ /\ Takes(proc[p].fee)
        /\ pool' = pool \cup {proc[p].fee}
        /\ highest' = Max2(highest, proc[p].fee)
  /\ UNCHANGED <<mined, reorgs, callVars, itemVars, limitVars, confirmVars, waiter,
                 retried, broken>>

-----------------------------------------------------------------------------
(* Confirmation. *)

\* The transaction is in flight and a poller looks after it.
IsPolled == latest # None /\ ~maxRebroadcastIndexReached /\ \E p \in Pollers : ~At(p, "off")

\* wait(), from the first return of send() on; once the transaction is confirmed it only asks
\* for the receipt.  It listens, and asks for the receipt of what is in flight, which counts
\* as one more wait for that broadcast.  Who comes when the poller broke or gave up, or
\* between a reset and its broadcast, is "late".
Wait ==
  /\ waiter = "none"
  /\ confirmed = None /\ (started \/ reorgs > 0)
  /\ waiter' = IF IsPolled THEN "waiting" ELSE "late"
  /\ waits' = waits \cup ({latest} \ {None})
  /\ UNCHANGED <<chainVars, callVars, gas, latest, due, started, limitVars, proc,
                 confirmVars, historyVars>>

\* A pending tx.wait() ends when its transaction or another with the nonce is mined.
WaitEndsWith(fee) ==
  /\ waits' = waits \ {fee}
  /\ \/ /\ fee = mined /\ confirmed = None
        /\ confirmed' = fee
        /\ handling' = TRUE
        /\ latest' = None
        /\ UNCHANGED waiter
     \/ /\ fee # mined \/ confirmed # None
        /\ UNCHANGED <<latest, confirmed, handling, waiter>>
     \/ /\ fee = mined /\ "reverts" \in Faults
        /\ Tell("rejected")
        /\ UNCHANGED <<latest, confirmed, handling>>

WaitEnds ==
  /\ mined # None
  /\ \E fee \in waits : WaitEndsWith(fee)
  /\ UNCHANGED <<chainVars, callVars, gas, due, started, limitVars, proc, watching,
                 historyVars>>

\* handleConfirmation has looked the transaction up.  If that fails it stays confirmed, but
\* who waits is not told: "unannounced".
HandleConfirmation ==
  /\ handling
  /\ handling' = FALSE
  /\ \/ /\ gas' = confirmed
        /\ Tell("confirmed")
        /\ watching' = TRUE
     \/ /\ "getTransaction" \in Faults
        /\ waiter' = IF IsWaiting THEN "unannounced" ELSE waiter
        /\ UNCHANGED <<gas, watching>>
  /\ UNCHANGED <<chainVars, callVars, latest, due, started, waits, limitVars, proc,
                 confirmed, historyVars>>

\* Mutant of Reset: started is kept.
ResetButStarted ==
  /\ gas' = given
  /\ latest' = None
  /\ confirmed' = None
  /\ UNCHANGED <<started, due, waits, limitVars>>

\* reset: the limits that were reached stay reached.
Reset ==
  /\ gas' = given
  /\ latest' = None
  /\ confirmed' = None
  /\ started' = FALSE
  /\ UNCHANGED <<due, waits, limitVars>>

\* reorgWaitConfirmations blocks later: the receipt is there, or all begins anew.
WatchForReorg ==
  /\ watching
  /\ watching' = FALSE
  /\ \/ mined = confirmed /\ UNCHANGED <<itemVars, limitVars, confirmed, proc>>
     \/ mined # confirmed /\ At(Caller, "off") /\ Reset /\ Goto(Caller, Idle("fees"))
  /\ UNCHANGED <<chainVars, callVars, handling, waiter, historyVars>>

-----------------------------------------------------------------------------
Poll(p) ==
  \/ EndPoller(p) \/ ShouldBoost(p) \/ Boost(p) \/ RebroadcastLatestTx(p)
  \/ Rebroadcast(p)

Next ==
  \/ Mine \/ Reorg \/ Drop
  \/ SendFees
  \/ \E p \in Procs : SendTransaction(p)
  \/ \E p \in Pollers : Poll(p)
  \/ TimePasses \/ Wait
  \/ WaitEnds \/ HandleConfirmation \/ WatchForReorg

Spec == Init /\ [][Next]_vars

\* Awaits end, the pollers and timers run.  Nothing is asked of the chain.
Fairness ==
  /\ WF_vars(SendFees) /\ WF_vars(TimePasses)
  /\ \A p \in Procs : WF_vars(SendTransaction(p))
  /\ \A p \in Pollers : WF_vars(Poll(p))
  /\ WF_vars(WaitEnds) /\ WF_vars(HandleConfirmation) /\ WF_vars(WatchForReorg)

FairSpec == Spec /\ Fairness

-----------------------------------------------------------------------------
(* Properties. *)

\* Every variable stays within its values; what is being handled or watched, one at a
\* time, is confirmed.
TypeOK ==
  /\ pool \subseteq Fees
  /\ mined \in Fees \cup {None, Other}
  /\ reorgs \in 0 .. MaxReorgs
  /\ type \in {0, 2} /\ given \in Nat
  /\ gas \in Nat
  /\ latest \in Fees \cup {None}
  /\ due \in BOOLEAN /\ started \in BOOLEAN
  /\ maxGasPriceReached \in BOOLEAN /\ maxRebroadcastIndexReached \in BOOLEAN
  /\ rebroadcastIndex \in 0 .. MaxRebroadcastIndex + 1
  /\ proc \in [Procs -> Proc]
  /\ waits \subseteq Fees
  /\ confirmed \in Fees \cup {None}
  /\ handling \in BOOLEAN /\ watching \in BOOLEAN
  /\ handling \/ watching => confirmed \in Fees
  /\ ~(handling /\ watching)
  /\ waiter \in {"none", "waiting", "late", "unannounced", "confirmed", "rejected"}
  /\ highest \in 0 .. MaxFee
  /\ retried \in BOOLEAN /\ broken \in BOOLEAN

\* A transaction in flight has a poller, also after a reorg that ended the first one:
\* nobody else would boost it, rebroadcast it or give it up.
InflightIsPolled ==
  latest # None /\ confirmed = None /\ ~maxRebroadcastIndexReached /\ ~broken
    => \E p \in Pollers : ~At(p, "off")

\* Why: who started a poller and has not been reset has one.
PolledInv ==
  /\ latest # None => started
  /\ started /\ confirmed = None /\ ~maxRebroadcastIndexReached /\ ~broken
       => \E p \in Pollers : ~At(p, "off")

\* Without a retry no fee goes over the configured maximum, whatever the market asks
\* and however boosts, confirmations and reorgs interleave; except for a poller that
\* is on its way to a boost of type 2 when a reorg resets the fees it would compare.
UnretriedFeeWithinMax ==
  ~retried /\ (type = 0 \/ reorgs = 0) => highest <= Cap

\* Why: what is on the chain was paid for ...
ChainInv ==
  /\ \A fee \in pool : fee <= highest
  /\ mined \in Fees => mined <= highest
  /\ confirmed \in Fees => confirmed <= highest
  /\ reorgs = 0 /\ confirmed # None => mined = confirmed

\* ... what is about to be paid was compared with the maximum ...
BidInv ==
  ~retried /\ (type = 0 \/ reorgs = 0) =>
    /\ \A p \in Procs : At(p, "send") \/ At(p, "rebroadcast") => proc[p].fee <= Cap
    /\ latest # None => gas <= Cap

\* ... and there is a fee to compare with where the code asks for one.
GasInv ==
  reorgs = 0 /\ gas = 0 => latest = None /\ \A p \in Pollers : ~At(p, "boost")

FeeInv == ChainInv /\ BidInv /\ GasInv /\ UnretriedFeeWithinMax

\* Whoever waits for a transaction that a poller looks after gets a receipt or an error, even
\* if it is never mined, mined in a version that was boosted since, reorged out, or its nonce
\* is taken.  Except for who is left by a confirmation whose transaction is then not found,
\* and for late callers, who may wait for ever.
WaitIsAnswered ==
  waiter = "waiting" ~> waiter \in {"confirmed", "rejected", "unannounced"}
=============================================================================
