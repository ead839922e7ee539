-------------------- MODULE GasBoostTransaction_proofs --------------------
(***************************************************************************)
(* Theorems about GasBoostTransaction, for any market, maximum, multiplier,*)
(* number of retries, pollers and reorgs.                                  *)
(***************************************************************************)
EXTENDS GasBoostTransaction, FiniteSets, FiniteSetTheorems, TLAPS

-----------------------------------------------------------------------------
(* Types. *)

\* The processes of a transaction are among those the poller starts or send() runs in.
ProcTyped == proc \in [Procs -> Proc]

\* A process that goes on with a well-typed record stays typed.
LEMMA GotoType ==
  ASSUME ProcTyped, NEW p \in Procs, NEW k \in Proc, Goto(p, k)
  PROVE  ProcTyped'
BY DEF ProcTyped, Goto

\* Records without a request are well typed.
LEMMA IdleType ==
  ASSUME NEW s \in {"off", "sleep", "fees", "boost", "send", "rebroadcast"}
  PROVE  /\ Idle(s) \in Proc
         /\ \A fee \in Nat : [Idle(s) EXCEPT !.fee = fee] \in Proc
BY FeesAssumption DEF Idle, Proc

\* Products and quotients of fees are natural numbers.
LEMMA ProductType ==
  ASSUME NEW a \in Nat, NEW b \in Nat
  PROVE  a * b \in Nat
OBVIOUS

LEMMA QuotientType ==
  ASSUME NEW a \in Nat, NEW b \in Nat \ {0}
  PROVE  a \div b \in Nat
OBVIOUS

\* A bid is a natural number, as high as the market at least.
LEMMA BumpedType ==
  ASSUME gas \in Nat, NEW market \in MarketFees, NEW index \in Nat
  PROVE  Bumped(market, index) \in Nat
<1> DEFINE prev == IF gas = 0 THEN market ELSE gas
<1>1. prev \in Nat /\ market \in Nat
  BY FeesAssumption
<1>2. prev * Numerator * index \in Nat
  <2>1. prev * Numerator \in Nat
    BY <1>1, ProductType, FeesAssumption
  <2> HIDE DEF prev
  <2> QED
    BY <2>1, ProductType
<1>3. (prev * Numerator * index) \div Denominator \in Nat
  BY <1>2, QuotientType, FeesAssumption
<1> QED
  BY <1>1, <1>3 DEF Bumped, Max2

\* The initial states are well typed.
LEMMA InitType == Init => TypeOK
<1> SUFFICES ASSUME Init PROVE TypeOK
  OBVIOUS
<1>1. proc \in [Procs -> Proc]
  <2>1. \A p \in Procs : Idle(IF p = Caller THEN "fees" ELSE "off") \in Proc
    BY IdleType
  <2> QED
    BY <2>1 DEF Init
<1>2. /\ 0 \in 0 .. MaxReorgs /\ 0 \in 0 .. MaxRebroadcastIndex + 1 /\ 0 \in 0 .. MaxFee
      /\ given \in Nat
  BY FeesAssumption DEF Init
<1> QED
  BY <1>1, <1>2 DEF Init, TypeOK

\* The highest of some fees is one.
LEMMA HighestType ==
  ASSUME NEW h \in 0 .. MaxFee, NEW fee \in Fees
  PROVE  Max2(h, fee) \in 0 .. MaxFee
BY FeesAssumption DEF Max2, Fees

\* What the steps of a request leave typed.
RequestTyped ==
  /\ gas \in Nat /\ latest \in Fees \cup {None} /\ due \in BOOLEAN /\ started \in BOOLEAN
  /\ waits \subseteq Fees
  /\ ProcTyped
  /\ waiter \in {"none", "waiting", "late", "unannounced", "confirmed", "rejected"}
  /\ retried \in BOOLEAN /\ broken \in BOOLEAN

\* A request that succeeded.
LEMMA TrackType ==
  ASSUME RequestTyped, NEW p \in Procs, proc[p].fee \in Fees, Track(p),
         UNCHANGED <<retried, broken, waiter>>
  PROVE  RequestTyped'
<1> DEFINE done == IF p = Caller THEN Idle("off") ELSE Idle("sleep")
<1>1. done \in Proc /\ \A q \in Pollers : PollerStarts(q) \in Proc
  BY IdleType DEF PollerStarts
<1>2. proc[p].fee \in Nat
  BY FeesAssumption DEF Fees
<1>3. CASE started /\ Goto(p, done)
  BY <1>1, <1>2, <1>3, GotoType DEF Track, RequestTyped
<1>4. ASSUME NEW q \in Pollers, proc' = [proc EXCEPT ![p] = done, ![q] = PollerStarts(q)]
      PROVE  RequestTyped'
  <2>1. ProcTyped'
    <3> HIDE DEF done
    <3> QED
      BY <1>1, <1>4 DEF RequestTyped, ProcTyped, Procs
  <2> QED
    BY <2>1, <1>2 DEF Track, RequestTyped
<1> QED
  BY <1>3, <1>4 DEF Track

\* A request that ends with an error.
LEMMA ThrowType ==
  ASSUME RequestTyped, NEW p \in Procs, NEW ends \in BOOLEAN, SendThrows(p, ends)
  PROVE  RequestTyped'
<1>1. Idle(IF p = Caller \/ ends THEN "off" ELSE "sleep") \in Proc
  BY IdleType
<1>2. ProcTyped'
  BY <1>1, GotoType DEF SendThrows, RequestTyped
<1> QED
  BY <1>2 DEF SendThrows, RequestTyped, Tell, itemVars

\* A request that is made again.
LEMMA RetryType ==
  ASSUME RequestTyped, NEW p \in Procs, Retry(p)
  PROVE  RequestTyped'
<1>1. PICK market \in MarketFees :
        Goto(p, [step |-> "send", index |-> proc[p].index + 1,
                 fee |-> Bumped(market, proc[p].index + 1)])
  BY DEF Retry
<1>2. proc[p].index + 1 \in 1 .. MaxRetries
  BY FeesAssumption DEF Retry, RequestTyped, ProcTyped, Proc
<1>3. Bumped(market, proc[p].index + 1) \in Nat
  BY <1>2, BumpedType, FeesAssumption DEF RequestTyped
<1>4. [step |-> "send", index |-> proc[p].index + 1,
       fee |-> Bumped(market, proc[p].index + 1)] \in Proc
  BY <1>2, <1>3 DEF Proc
<1>5. ProcTyped'
  BY <1>1, <1>4, GotoType DEF RequestTyped
<1> QED
  BY <1>5 DEF Retry, RequestTyped, itemVars

\* Whatever a node answers.
LEMMA SendType ==
  ASSUME TypeOK, NEW p \in Procs, SendTransaction(p)
  PROVE  TypeOK'
<1>1. RequestTyped
  BY DEF TypeOK, RequestTyped, ProcTyped
<1>2. ASSUME RetryOrThrow(p) PROVE RequestTyped'
  BY <1>1, <1>2, RetryType, ThrowType DEF RetryOrThrow
<1>3. RequestTyped' /\ pool' \subseteq Fees /\ highest' \in 0 .. MaxFee
  <2>1. CASE Accepted(p)
    <3>1. proc[p].fee \in Fees
      BY <2>1 DEF Accepted, Takes
    <3>2. pool' \subseteq Fees /\ highest' \in 0 .. MaxFee
      BY <2>1, <3>1, HighestType DEF Accepted, TypeOK
    <3> QED
      BY <2>1, <3>1, <3>2, <1>1, <1>2, TrackType DEF Accepted
  <2>2. CASE Refused(p)
    <3>1. UNCHANGED <<pool, highest>>
      BY <2>2 DEF Refused
    <3>2. RequestTyped'
      BY <2>2, <1>1, <1>2, ThrowType DEF Refused
    <3> QED
      BY <3>1, <3>2 DEF TypeOK
  <2> QED
    BY <2>1, <2>2 DEF SendTransaction
<1> QED
  BY <1>3 DEF SendTransaction, TypeOK, RequestTyped, ProcTyped, callVars, limitVars,
     confirmVars

\* Every step of a poller.
LEMMA PollType ==
  ASSUME TypeOK, NEW p \in Pollers, Poll(p)
  PROVE  TypeOK'
<1> USE DEF chainVars, callVars, itemVars, limitVars, confirmVars, historyVars
<1>1. ProcTyped /\ p \in Procs
  BY DEF TypeOK, ProcTyped, Procs
<1>2. \A s \in {"off", "sleep", "boost"} : Goto(p, Idle(s)) => ProcTyped'
  BY <1>1, IdleType, GotoType
<1>3. CASE EndPoller(p)
  BY <1>2, <1>3 DEF EndPoller, TypeOK, ProcTyped
<1>4. CASE ShouldBoost(p)
  BY <1>2, <1>4 DEF ShouldBoost, TypeOK, ProcTyped
<1>5. CASE Boost(p)
  <2>1. PICK market \in MarketFees :
          \/ \E fee \in BoostFee(market) :
               /\ Goto(p, [step |-> "send", index |-> 1, fee |-> fee])
               /\ UNCHANGED maxGasPriceReached
          \/ /\ BoostFee(market) = {}
             /\ maxGasPriceReached' = TRUE
             /\ Goto(p, Idle("sleep"))
    BY <1>5 DEF Boost
  <2>2. \A fee \in BoostFee(market) : [step |-> "send", index |-> 1, fee |-> fee] \in Proc
    <3>1. Bumped(market, 1) \in Nat /\ Cap \in Nat
      BY BumpedType, FeesAssumption DEF TypeOK, Fees
    <3>2. BoostFee(market) \subseteq Nat
      BY <3>1 DEF BoostFee
    <3> QED
      BY <3>2, FeesAssumption DEF Proc
  <2>3. ProcTyped' /\ maxGasPriceReached' \in BOOLEAN
    BY <2>1, <2>2, <1>1, <1>2, GotoType DEF TypeOK
  <2> QED
    BY <1>5, <2>3 DEF Boost, TypeOK, ProcTyped
<1>6. CASE RebroadcastLatestTx(p)
  <2>1. [Idle("rebroadcast") EXCEPT !.fee = gas] \in Proc
    BY IdleType DEF TypeOK
  <2>2. ProcTyped'
    BY <1>1, <1>2, <1>6, <2>1, GotoType DEF RebroadcastLatestTx
  <2>3. rebroadcastIndex' \in 0 .. MaxRebroadcastIndex + 1
    BY <1>6, FeesAssumption DEF RebroadcastLatestTx, TypeOK, Min2
  <2> QED
    BY <1>6, <2>2, <2>3 DEF RebroadcastLatestTx, TypeOK, ProcTyped, Tell
<1>7. CASE Rebroadcast(p)
  <2>1. pool' \subseteq Fees /\ highest' \in 0 .. MaxFee
    BY <1>7, HighestType DEF Rebroadcast, Takes, TypeOK
  <2> QED
    BY <1>2, <1>7, <2>1 DEF Rebroadcast, TypeOK, ProcTyped
<1> QED
  BY <1>3, <1>4, <1>5, <1>6, <1>7 DEF Poll

\* Every step keeps the types.
LEMMA TypeInductive == TypeOK /\ [Next]_vars => TypeOK'
<1> SUFFICES ASSUME TypeOK, [Next]_vars PROVE TypeOK'
  OBVIOUS
<1> USE DEF chainVars, callVars, itemVars, limitVars, confirmVars, historyVars
<1>1. CASE Mine \/ Reorg \/ Drop
  BY <1>1, FeesAssumption DEF Mine, Reorg, Drop, TypeOK
<1>2. CASE SendFees
  <2>1. PICK market \in MarketFees :
          Goto(Caller, [step |-> "send", index |-> 1,
                        fee |-> Min2(Cap, IF gas # 0 THEN gas ELSE market)])
    BY <1>2 DEF SendFees
  <2>2. [step |-> "send", index |-> 1,
         fee |-> Min2(Cap, IF gas # 0 THEN gas ELSE market)] \in Proc
    BY FeesAssumption DEF TypeOK, Proc, Fees, Min2
  <2>3. ProcTyped'
    BY <2>1, <2>2, GotoType DEF TypeOK, ProcTyped, Procs
  <2> QED
    BY <1>2, <2>3 DEF SendFees, TypeOK, ProcTyped
<1>3. CASE \E p \in Procs : SendTransaction(p)
  BY <1>3, SendType
<1>4. CASE \E p \in Pollers : Poll(p)
  BY <1>4, PollType
<1>5. CASE TimePasses
  BY <1>5 DEF TimePasses, TypeOK
<1>6. CASE Wait
  <2>1. waits' \subseteq Fees
    BY <1>6 DEF Wait, TypeOK
  <2> QED
    BY <1>6, <2>1 DEF Wait, TypeOK
<1>7. CASE WaitEnds
  <2>1. PICK fee \in waits : WaitEndsWith(fee)
    BY <1>7 DEF WaitEnds
  <2>2. fee \in Fees /\ None \notin Fees
    BY ProcessesAssumption DEF TypeOK, Fees
  <2>3. /\ latest' \in Fees \cup {None} /\ confirmed' \in Fees \cup {None}
        /\ waits' \subseteq Fees
        /\ waiter' \in {"none", "waiting", "late", "unannounced", "confirmed", "rejected"}
    BY <2>1, <2>2 DEF WaitEndsWith, TypeOK, Tell
  <2>4. /\ watching \in BOOLEAN /\ handling \in BOOLEAN
        /\ handling \/ watching => confirmed \in Fees
        /\ ~(handling /\ watching)
    BY DEF TypeOK
  <2>5. watching' = watching
    BY <1>7 DEF WaitEnds
  <2>6. \/ handling' = TRUE /\ confirmed' = fee /\ confirmed = None
        \/ handling' = handling /\ confirmed' = confirmed
    BY <2>1 DEF WaitEndsWith
  <2>7. /\ watching' \in BOOLEAN /\ handling' \in BOOLEAN
        /\ handling' \/ watching' => confirmed' \in Fees
        /\ ~(handling' /\ watching')
    <3>1. CASE handling' = TRUE /\ confirmed' = fee /\ confirmed = None
      <4>1. watching = FALSE
        BY <3>1, <2>2, <2>4
      <4> QED
        BY <3>1, <4>1, <2>2, <2>5
    <3>2. CASE handling' = handling /\ confirmed' = confirmed
      BY <3>2, <2>4, <2>5
    <3> QED
      BY <3>1, <3>2, <2>6
  <2> QED
    BY <2>3, <2>7, <1>7 DEF WaitEnds, TypeOK
<1>8. CASE HandleConfirmation
  <2>1. gas' \in Nat /\ confirmed' = confirmed
    BY <1>8, FeesAssumption DEF HandleConfirmation, TypeOK, Fees
  <2>2. waiter' \in {"none", "waiting", "late", "unannounced", "confirmed", "rejected"} /\ watching' \in BOOLEAN
    BY <1>8 DEF HandleConfirmation, TypeOK, Tell
  <2>3. handling' = FALSE /\ confirmed \in Fees
    BY <1>8 DEF HandleConfirmation, TypeOK
  <2> QED
    BY <1>8, <2>1, <2>2, <2>3 DEF HandleConfirmation, TypeOK
<1>9. CASE WatchForReorg
  <2>1. ProcTyped'
    BY <1>9, IdleType, GotoType DEF WatchForReorg, TypeOK, ProcTyped, Procs
  <2> QED
    BY <1>9, <2>1 DEF WatchForReorg, Reset, TypeOK, ProcTyped
<1>10. CASE UNCHANGED vars
  BY <1>10 DEF vars, TypeOK
<1> QED
  BY <1>1, <1>2, <1>3, <1>4, <1>5, <1>6, <1>7, <1>8, <1>9, <1>10 DEF Next

\* The types are right in every reachable state.
THEOREM TypeCorrect == Spec => []TypeOK
BY InitType, TypeInductive, PTL DEF Spec

-----------------------------------------------------------------------------
(* What is in flight has a poller. *)

Active == \E p \in Pollers : ~At(p, "off")

\* A poller that goes on, or another process, leaves the pollers at work.
LEMMA ActiveKept ==
  ASSUME ProcTyped, Active, NEW p \in Procs, NEW k \in Proc, Goto(p, k),
         p = Caller \/ k.step # "off"
  PROVE  Active'
<1>1. PICK q \in Pollers : ~At(q, "off")
  BY DEF Active
<1>2. q # Caller /\ q \in Procs
  BY ProcessesAssumption DEF Procs
<1>3. CASE p = Caller
  <2>1. proc'[q] = proc[q]
    BY <1>2, <1>3 DEF Goto, ProcTyped
  <2> QED
    BY <1>1, <2>1 DEF Active, At
<1>4. CASE k.step # "off" /\ p # Caller
  <2>1. p \in Pollers /\ proc'[p] = k
    BY <1>4 DEF Goto, ProcTyped, Procs
  <2> QED
    BY <1>4, <2>1 DEF Active, At
<1> QED
  BY <1>3, <1>4

\* Started, and neither confirmed nor given up nor broken.
Polling == started /\ confirmed = None /\ ~maxRebroadcastIndexReached /\ ~broken

\* A request that succeeded has a poller, the one at work or a new one.
LEMMA TrackPolled ==
  ASSUME TypeOK, PolledInv, NEW p \in Procs, Track(p),
         UNCHANGED <<limitVars, confirmVars, broken>>
  PROVE  PolledInv'
<1> DEFINE done == IF p = Caller THEN Idle("off") ELSE Idle("sleep")
<1>1. done \in Proc /\ (p = Caller \/ done.step # "off")
  BY IdleType DEF Idle
<1>2. started'
  BY DEF Track
<1>3. ASSUME Polling' PROVE Active'
  <2>1. confirmed = None /\ ~maxRebroadcastIndexReached /\ ~broken
    BY <1>3 DEF Polling, limitVars, confirmVars
  <2>2. CASE started /\ Goto(p, done)
    <3>1. Active
      BY <2>1, <2>2 DEF PolledInv, Active
    <3> HIDE DEF done
    <3> QED
      BY <2>2, <3>1, <1>1, ActiveKept DEF TypeOK, ProcTyped
  <2>3. ASSUME NEW q \in Pollers \ {p},
               proc' = [proc EXCEPT ![p] = done, ![q] = PollerStarts(q)]
        PROVE  Active'
    <3>1. PollerStarts(q) = Idle("sleep")
      BY <2>1 DEF PollerStarts
    <3>2. q \in Procs /\ q # p
      BY DEF Procs
    <3> HIDE DEF done
    <3>3. proc'[q] = Idle("sleep")
      BY <2>3, <3>1, <3>2 DEF TypeOK
    <3> QED
      BY <3>3 DEF Active, At, Idle
  <2> QED
    BY <2>2, <2>3 DEF Track
<1> QED
  BY <1>2, <1>3 DEF PolledInv, Polling, Active

\* A request that is made again or throws.
LEMMA RetryOrThrowPolled ==
  ASSUME TypeOK, PolledInv, NEW p \in Procs, UNCHANGED <<limitVars, confirmVars>>,
         Retry(p) \/ \E ends \in BOOLEAN : SendThrows(p, ends)
  PROVE  PolledInv'
<1> USE DEF itemVars, limitVars, confirmVars
<1>1. CASE Retry(p)
  <2>1. RequestTyped'
    BY <1>1, RetryType DEF RequestTyped, TypeOK, ProcTyped
  <2>2. PICK k : Goto(p, k) /\ k.step = "send"
    BY <1>1 DEF Retry
  <2>3. proc'[p] = k /\ p \in Procs
    BY <2>2 DEF Goto, TypeOK
  <2>4. k \in Proc
    BY <2>1, <2>3 DEF RequestTyped, ProcTyped
  <2>5. Active => Active'
    BY <2>2, <2>4, ActiveKept DEF TypeOK, ProcTyped
  <2> QED
    BY <1>1, <2>5 DEF Retry, PolledInv, Active
<1>2. ASSUME NEW ends \in BOOLEAN, SendThrows(p, ends) PROVE PolledInv'
  <2>1. CASE p # Caller /\ ends
    BY <1>2, <2>1 DEF SendThrows, PolledInv
  <2>2. CASE p = Caller \/ ~ends
    <3> DEFINE k == Idle(IF p = Caller \/ ends THEN "off" ELSE "sleep")
    <3>1. k \in Proc /\ Goto(p, k)
      BY <1>2, IdleType DEF SendThrows
    <3>2. p = Caller \/ k.step # "off"
      BY <2>2 DEF Idle
    <3> HIDE DEF k
    <3>3. Active => Active'
      BY <3>1, <3>2, ActiveKept DEF TypeOK, ProcTyped
    <3> QED
      BY <1>2, <3>3 DEF SendThrows, PolledInv, Active
  <2> QED
    BY <2>1, <2>2
<1> QED
  BY <1>1, <1>2

\* A step of the poll.
LEMMA PollPolled ==
  ASSUME TypeOK, TypeOK', PolledInv, NEW p \in Pollers, Poll(p)
  PROVE  PolledInv'
<1> USE DEF itemVars, limitVars, confirmVars, historyVars
<1>1. CASE EndPoller(p)
  BY <1>1 DEF EndPoller, PolledInv
<1>2. CASE ~EndPoller(p)
  <2>1. PICK k : Goto(p, k) /\ k.step # "off"
    <3>1. \A s \in {"sleep", "boost"} : Idle(s).step # "off"
      BY DEF Idle
    <3>2. CASE ShouldBoost(p)
      BY <3>1, <3>2 DEF ShouldBoost
    <3>3. CASE Boost(p)
      <4>1. PICK market \in MarketFees :
              \/ \E fee \in BoostFee(market) :
                   Goto(p, [step |-> "send", index |-> 1, fee |-> fee])
              \/ Goto(p, Idle("sleep"))
        BY <3>3 DEF Boost
      <4>2. CASE Goto(p, Idle("sleep"))
        BY <3>1, <4>2
      <4>3. ASSUME NEW fee \in BoostFee(market),
                   Goto(p, [step |-> "send", index |-> 1, fee |-> fee])
            PROVE  \E k : Goto(p, k) /\ k.step # "off"
        <5>1. [step |-> "send", index |-> 1, fee |-> fee].step # "off"
          OBVIOUS
        <5> QED
          BY <4>3, <5>1
      <4> QED
        BY <4>1, <4>2, <4>3
    <3>4. CASE RebroadcastLatestTx(p)
      <4>1. [Idle("rebroadcast") EXCEPT !.fee = gas].step # "off"
        BY DEF Idle
      <4> QED
        BY <3>1, <3>4, <4>1 DEF RebroadcastLatestTx
    <3>5. CASE Rebroadcast(p)
      BY <3>1, <3>5 DEF Rebroadcast
    <3> QED
      BY <1>2, <3>2, <3>3, <3>4, <3>5 DEF Poll
  <2>2. p \in Procs
    BY DEF Procs
  <2>3. proc'[p] = k
    BY <2>1, <2>2 DEF Goto, TypeOK
  <2>4. k \in Proc
    BY <2>2, <2>3 DEF TypeOK
  <2>5. Active => Active'
    BY <2>1, <2>2, <2>4, ActiveKept DEF TypeOK, ProcTyped
  <2>6. /\ started' = started /\ confirmed' = confirmed /\ broken' = broken
        /\ maxRebroadcastIndexReached => maxRebroadcastIndexReached'
        /\ latest' \in {latest, None}
    BY <1>2 DEF Poll, ShouldBoost, Boost, RebroadcastLatestTx, Rebroadcast
  <2> QED
    BY <2>5, <2>6 DEF PolledInv, Active
<1> QED
  BY <1>1, <1>2

\* Every step preserves the invariant.
LEMMA PolledInductive == TypeOK /\ PolledInv /\ [Next]_vars => PolledInv'
<1> SUFFICES ASSUME TypeOK, PolledInv, [Next]_vars PROVE PolledInv'
  OBVIOUS
<1>T. TypeOK'
  BY TypeInductive
<1> USE DEF chainVars, callVars, itemVars, limitVars, confirmVars, historyVars
<1>1. ASSUME UNCHANGED <<latest, started, confirmed, maxRebroadcastIndexReached, broken,
                         proc>>
      PROVE  PolledInv'
  BY <1>1 DEF PolledInv, At
<1>2. ASSUME NEW s \in {"send", "fees"}, NEW k, Goto(Caller, k),
             UNCHANGED <<latest, started, confirmed, maxRebroadcastIndexReached, broken>>
      PROVE  PolledInv'
  <2>1. Caller \in Procs
    BY DEF Procs
  <2>2. proc'[Caller] = k /\ k \in Proc
    BY <1>2, <1>T, <2>1 DEF Goto, TypeOK
  <2>3. Active => Active'
    BY <1>2, <2>1, <2>2, ActiveKept DEF TypeOK, ProcTyped
  <2> QED
    BY <1>2, <2>3 DEF PolledInv, Active
<1>3. CASE Mine \/ Reorg \/ Drop \/ TimePasses \/ Wait \/ HandleConfirmation
  BY <1>1, <1>3 DEF Mine, Reorg, Drop, TimePasses, Wait, HandleConfirmation
<1>4. CASE SendFees
  BY <1>2, <1>4 DEF SendFees
<1>5. ASSUME NEW p \in Procs, SendTransaction(p) PROVE PolledInv'
  <2>1. UNCHANGED <<limitVars, confirmVars>>
    BY <1>5 DEF SendTransaction
  <2>2. CASE Track(p) /\ UNCHANGED <<retried, broken, waiter>>
    BY <2>1, <2>2, TrackPolled
  <2>3. CASE Retry(p) \/ \E ends \in BOOLEAN : SendThrows(p, ends)
    BY <2>1, <2>3, RetryOrThrowPolled
  <2> QED
    BY <1>5, <2>2, <2>3 DEF SendTransaction, Accepted, Refused, RetryOrThrow
<1>6. CASE \E p \in Pollers : Poll(p)
  BY <1>6, <1>T, PollPolled
<1>7. CASE WaitEnds
  <2>1. \/ latest' = None /\ confirmed' \in Fees
        \/ latest' = latest /\ confirmed' = confirmed
    BY <1>7 DEF WaitEnds, WaitEndsWith, TypeOK
  <2>2. None \notin Fees
    BY ProcessesAssumption DEF Fees
  <2> QED
    BY <1>7, <2>1, <2>2 DEF WaitEnds, PolledInv, At
<1>8. CASE WatchForReorg
  <2>1. CASE mined = confirmed /\ UNCHANGED <<itemVars, limitVars, confirmed, proc>>
    BY <1>1, <1>8, <2>1 DEF WatchForReorg
  <2>2. CASE Reset
    BY <2>2 DEF Reset, PolledInv
  <2> QED
    BY <1>8, <2>1, <2>2 DEF WatchForReorg
<1>9. CASE UNCHANGED vars
  BY <1>1, <1>9 DEF vars
<1> QED
  BY <1>3, <1>4, <1>5, <1>6, <1>7, <1>8, <1>9 DEF Next

\* A transaction that is in flight, unconfirmed, not given up and without a fatal error
\* always has a poller that is at work.
THEOREM InflightPolled == Spec => []InflightIsPolled
<1>1. Init => PolledInv
  BY DEF Init, PolledInv
<1>2. PolledInv => InflightIsPolled
  BY DEF PolledInv, InflightIsPolled
<1> QED
  BY <1>1, <1>2, InitType, TypeInductive, PolledInductive, PTL DEF Spec

-----------------------------------------------------------------------------
(* How many pollers a transaction has. *)

Running == {p \in Pollers : ~At(p, "off")}

\* What a reset may still add: send() has to start a poller, or a reorg is to be found.
Unstarted == IF started THEN 0 ELSE 1
Dropped == IF confirmed # None /\ mined # confirmed THEN 1 ELSE 0

\* Every poller was started by the first send() or after a reorg of its own.
PollersInv ==
  /\ IsFiniteSet(Running)
  /\ Cardinality(Running) + Unstarted + Dropped <= reorgs + 1

\* The arithmetic of the bound: of pollers, resets to come and reorgs, before and after.
LEMMA FewerIsFewEnough ==
  ASSUME NEW n \in Nat, NEW u \in Nat, NEW d \in Nat, NEW r \in Nat,
         NEW m \in Nat, NEW v \in Nat, NEW e \in Nat, NEW s \in Nat,
         n + u + d <= r + 1, m <= n, v + e + r <= u + d + s
  PROVE  m + v + e <= s + 1
OBVIOUS

LEMMA NoMoreToCome ==
  ASSUME NEW u \in Nat, NEW d \in Nat, NEW r \in Nat,
         NEW v \in Nat, NEW e \in Nat, NEW s \in Nat,
         \/ v = u /\ e <= d /\ s = r
         \/ v = u /\ e <= d + 1 /\ s = r + 1
         \/ v <= 1 /\ e = 0 /\ d = 1 /\ s = r
  PROVE  v + e + r <= u + d + s
OBVIOUS

\* Fewer pollers, and no more to come, than there were.
LEMMA FewerPollers ==
  ASSUME TypeOK, TypeOK', PollersInv, Running' \subseteq Running,
         Unstarted' + Dropped' + reorgs <= Unstarted + Dropped + reorgs'
  PROVE  PollersInv'
<1>1. IsFiniteSet(Running') /\ Cardinality(Running') <= Cardinality(Running)
  BY FS_Subset DEF PollersInv
<1>2. Cardinality(Running) \in Nat /\ Cardinality(Running') \in Nat
  BY <1>1, FS_CardinalityType DEF PollersInv
<1>3. /\ Unstarted \in Nat /\ Unstarted' \in Nat /\ Dropped \in Nat /\ Dropped' \in Nat
      /\ reorgs \in Nat /\ reorgs' \in Nat
  BY DEF TypeOK, Unstarted, Dropped
<1> QED
  BY <1>1, <1>2, <1>3, FewerIsFewEnough DEF PollersInv

\* Who goes on was at work, or is not a poller.
LEMMA GotoRunning ==
  ASSUME ProcTyped, NEW p \in Procs, NEW k, Goto(p, k),
         p = Caller \/ k.step = "off" \/ ~At(p, "off")
  PROVE  Running' \subseteq Running
<1> SUFFICES ASSUME NEW q \in Pollers, ~At(q, "off")', At(q, "off") PROVE FALSE
  BY DEF Running
<1>1. q \in Procs /\ q # Caller
  BY ProcessesAssumption DEF Procs
<1>2. CASE q = p
  BY <1>1, <1>2 DEF Goto, ProcTyped, At
<1>3. CASE q # p
  BY <1>1, <1>3 DEF Goto, ProcTyped, At
<1> QED
  BY <1>2, <1>3

\* A request that succeeded starts a poller only if none was started since the reset.
LEMMA TrackPollers ==
  ASSUME TypeOK, TypeOK', PollersInv, NEW p \in Procs, At(p, "send"), Track(p),
         UNCHANGED <<mined, reorgs, confirmed>>
  PROVE  PollersInv'
<1> DEFINE done == IF p = Caller THEN Idle("off") ELSE Idle("sleep")
<1>1. started' /\ Unstarted' = 0 /\ Dropped' = Dropped
  BY DEF Track, Unstarted, Dropped
<1>2. CASE started /\ Goto(p, done)
  <2>1. ~At(p, "off")
    BY DEF At
  <2>2. Running' \subseteq Running
    BY <1>2, <2>1, GotoRunning DEF TypeOK, ProcTyped
  <2>3. Unstarted' + Dropped' + reorgs <= Unstarted + Dropped + reorgs'
    BY <1>1, <1>2 DEF Unstarted, TypeOK, Dropped
  <2> QED
    BY <2>2, <2>3, FewerPollers
<1>3. ASSUME ~started, NEW q \in Pollers \ {p},
             proc' = [proc EXCEPT ![p] = done, ![q] = PollerStarts(q)]
      PROVE  PollersInv'
  <2>1. Running' \subseteq Running \cup {q}
    <3> SUFFICES ASSUME NEW r \in Pollers, r # q, ~At(r, "off")', At(r, "off") PROVE FALSE
      BY DEF Running
    <3>1. r \in Procs /\ r # p
      BY DEF At, Procs
    <3> QED
      BY <1>3, <3>1 DEF TypeOK, At
  <2>2. /\ IsFiniteSet(Running \cup {q})
        /\ Cardinality(Running \cup {q}) <= Cardinality(Running) + 1
    <3>1. /\ IsFiniteSet(Running \cup {q})
          /\ \/ Cardinality(Running \cup {q}) = Cardinality(Running)
             \/ Cardinality(Running \cup {q}) = Cardinality(Running) + 1
      BY FS_AddElement DEF PollersInv
    <3>2. Cardinality(Running) \in Nat
      BY FS_CardinalityType DEF PollersInv
    <3> QED
      BY <3>1, <3>2
  <2>3. IsFiniteSet(Running') /\ Cardinality(Running') <= Cardinality(Running \cup {q})
    BY <2>1, <2>2, FS_Subset
  <2>4. /\ Cardinality(Running) \in Nat /\ Cardinality(Running') \in Nat
        /\ Cardinality(Running \cup {q}) \in Nat
    BY <2>2, <2>3, FS_CardinalityType DEF PollersInv
  <2>5. Unstarted = 1 /\ Dropped \in Nat /\ reorgs \in Nat
    BY <1>3 DEF Unstarted, Dropped, TypeOK
  <2> QED
    BY <1>1, <2>2, <2>3, <2>4, <2>5 DEF PollersInv
<1> QED
  BY <1>2, <1>3 DEF Track

\* A request that is made again, or throws.
LEMMA RetryOrThrowRunning ==
  ASSUME ProcTyped, NEW p \in Procs, At(p, "send"),
         Retry(p) \/ \E ends \in BOOLEAN : SendThrows(p, ends)
  PROVE  Running' \subseteq Running
<1>1. ~At(p, "off")
  BY DEF At
<1>2. \E k : Goto(p, k)
  BY DEF Retry, SendThrows
<1> QED
  BY <1>1, <1>2, GotoRunning

\* Every step preserves the invariant.
LEMMA PollersInductive == TypeOK /\ PollersInv /\ [Next]_vars => PollersInv'
<1> SUFFICES ASSUME TypeOK, PollersInv, [Next]_vars PROVE PollersInv'
  OBVIOUS
<1>T. TypeOK'
  BY TypeInductive
<1>N. /\ Unstarted \in Nat /\ Unstarted' \in Nat /\ Dropped \in Nat /\ Dropped' \in Nat
      /\ reorgs \in Nat /\ reorgs' \in Nat /\ ProcTyped
  BY <1>T DEF TypeOK, Unstarted, Dropped, ProcTyped
<1> USE DEF chainVars, callVars, itemVars, limitVars, confirmVars, historyVars
<1>1. ASSUME Running' \subseteq Running, UNCHANGED <<mined, reorgs, confirmed, started>>
      PROVE  PollersInv'
  <2>1. Unstarted' = Unstarted /\ Dropped' = Dropped
    BY <1>1 DEF Unstarted, Dropped
  <2> QED
    BY <1>1, <1>T, <1>N, <2>1, FewerPollers
<1>2. ASSUME UNCHANGED proc PROVE Running' = Running
  BY <1>2 DEF Running, At
<1>3. CASE Mine
  <2>1. Dropped' <= Dropped /\ Unstarted' = Unstarted /\ reorgs' = reorgs
    BY <1>3 DEF Mine, Dropped, Unstarted
  <2>3. Unstarted' + Dropped' + reorgs <= Unstarted + Dropped + reorgs'
    BY <1>N, <2>1, NoMoreToCome
  <2>4. Running' = Running
    BY <1>2, <1>3 DEF Mine
  <2> QED
    BY <1>T, <2>3, <2>4, FewerPollers
<1>4. CASE Reorg
  <2>1. Dropped' <= Dropped + 1 /\ Unstarted' = Unstarted /\ reorgs' = reorgs + 1
    BY <1>4 DEF Reorg, Dropped, Unstarted
  <2>3. Unstarted' + Dropped' + reorgs <= Unstarted + Dropped + reorgs'
    BY <1>N, <2>1, NoMoreToCome
  <2>4. Running' = Running
    BY <1>2, <1>4 DEF Reorg
  <2> QED
    BY <1>T, <2>3, <2>4, FewerPollers
<1>5. CASE Drop \/ TimePasses \/ Wait \/ HandleConfirmation
  BY <1>1, <1>2, <1>5 DEF Drop, TimePasses, Wait, HandleConfirmation
<1>6. CASE SendFees
  <2>1. Caller \in Procs /\ \E k : Goto(Caller, k)
    BY <1>6 DEF SendFees, Procs
  <2> QED
    BY <1>1, <1>6, <1>N, <2>1, GotoRunning DEF SendFees
<1>7. ASSUME NEW p \in Procs, SendTransaction(p) PROVE PollersInv'
  <2>1. At(p, "send") /\ UNCHANGED <<mined, reorgs, confirmed>>
    BY <1>7 DEF SendTransaction
  <2>2. CASE Track(p)
    BY <1>T, <2>1, <2>2, TrackPollers
  <2>3. CASE Retry(p) \/ \E ends \in BOOLEAN : SendThrows(p, ends)
    <3>1. UNCHANGED started
      BY <2>3 DEF Retry, SendThrows
    <3> QED
      BY <1>1, <1>N, <2>1, <2>3, <3>1, RetryOrThrowRunning
  <2> QED
    BY <1>7, <2>2, <2>3 DEF SendTransaction, Accepted, Refused, RetryOrThrow
<1>8. ASSUME NEW p \in Pollers, Poll(p) PROVE PollersInv'
  <2>1. ~At(p, "off") /\ p \in Procs
    BY <1>8 DEF Poll, EndPoller, Polls, ShouldBoost, Boost, RebroadcastLatestTx,
                Rebroadcast, At, Procs
  <2>2. \E k : Goto(p, k)
    BY <1>8 DEF Poll, EndPoller, ShouldBoost, Boost, RebroadcastLatestTx, Rebroadcast
  <2>3. UNCHANGED <<mined, reorgs, confirmed, started>>
    BY <1>8 DEF Poll, EndPoller, ShouldBoost, Boost, RebroadcastLatestTx, Rebroadcast
  <2> QED
    BY <1>1, <1>N, <2>1, <2>2, <2>3, GotoRunning
<1>9. CASE WaitEnds
  <2>1. Dropped' <= Dropped
    BY <1>9 DEF WaitEnds, WaitEndsWith, Dropped
  <2>2. Unstarted' = Unstarted /\ reorgs' = reorgs
    BY <1>9 DEF WaitEnds, Unstarted
  <2>3. Unstarted' + Dropped' + reorgs <= Unstarted + Dropped + reorgs'
    BY <1>N, <2>1, <2>2, NoMoreToCome
  <2>4. Running' = Running
    BY <1>2, <1>9 DEF WaitEnds
  <2> QED
    BY <1>T, <2>3, <2>4, FewerPollers
<1>10. CASE WatchForReorg
  <2>1. CASE mined = confirmed /\ UNCHANGED <<itemVars, limitVars, confirmed, proc>>
    BY <1>1, <1>2, <1>10, <2>1 DEF WatchForReorg
  <2>2. CASE mined # confirmed /\ Reset /\ Goto(Caller, Idle("fees"))
    <3>1. confirmed # None
      BY <1>10, ProcessesAssumption DEF WatchForReorg, TypeOK, Fees
    <3>2. Dropped = 1 /\ Dropped' = 0 /\ Unstarted' <= 1 /\ reorgs' = reorgs
      BY <1>10, <2>2, <3>1 DEF Dropped, Unstarted, Reset, WatchForReorg
    <3>3. Caller \in Procs
      BY DEF Procs
    <3>4. Running' \subseteq Running
      BY <1>N, <2>2, <3>3, GotoRunning
    <3>5. Unstarted' + Dropped' + reorgs <= Unstarted + Dropped + reorgs'
      BY <1>N, <3>2, NoMoreToCome
    <3> QED
      BY <1>T, <3>2, <3>4, <3>5, FewerPollers
  <2> QED
    BY <1>10, <2>1, <2>2 DEF WatchForReorg
<1>11. CASE UNCHANGED vars
  BY <1>1, <1>2, <1>11 DEF vars
<1> QED
  BY <1>3, <1>4, <1>5, <1>6, <1>7, <1>8, <1>9, <1>10, <1>11 DEF Next

LEMMA InitPollers == Init => PollersInv
<1> SUFFICES ASSUME Init PROVE PollersInv
  OBVIOUS
<1>1. Running = {}
  <2>1. \A p \in Pollers : p \in Procs /\ p # Caller
    BY ProcessesAssumption DEF Procs
  <2> QED
    BY <2>1 DEF Init, Running, At, Idle
<1>2. Unstarted = 1 /\ Dropped = 0 /\ reorgs = 0
  BY DEF Init, Unstarted, Dropped
<1> QED
  BY <1>1, <1>2, FS_EmptySet DEF PollersInv

\* reset clears started while the poller of before may still sleep: the two then boost one
\* transaction.  But it takes a reorg to add a poller: no interleaving of boosts,
\* confirmations, retries and resets makes more of them.
THEOREM OnePollerPerReorg ==
  Spec => [](IsFiniteSet(Running) /\ Cardinality(Running) <= reorgs + 1)
<1>1. TypeOK /\ PollersInv => IsFiniteSet(Running) /\ Cardinality(Running) <= reorgs + 1
  <2> SUFFICES ASSUME TypeOK, PollersInv PROVE Cardinality(Running) <= reorgs + 1
    BY DEF PollersInv
  <2>1. Cardinality(Running) \in Nat
    BY FS_CardinalityType DEF PollersInv
  <2>2. Unstarted \in Nat /\ Dropped \in Nat /\ reorgs \in Nat
    BY DEF TypeOK, Unstarted, Dropped
  <2> QED
    BY <2>1, <2>2 DEF PollersInv
<1> QED
  BY <1>1, InitType, InitPollers, TypeInductive, PollersInductive, PTL DEF Spec

\* The model has finitely many pollers and the code has no such limit.  One more of them
\* than reorgs is enough: whoever has to start one finds one that is off, even if it is
\* one of those that would start it, so the bound takes no behaviour away.
THEOREM PollersSuffice ==
  ASSUME IsFiniteSet(Pollers), Cardinality(Pollers) > MaxReorgs
  PROVE  Spec => [](~started => \E q \in Pollers : At(q, "off"))
<1>1. TypeOK /\ PollersInv => (~started => \E q \in Pollers : At(q, "off"))
  <2> SUFFICES ASSUME TypeOK, PollersInv, ~started, \A q \in Pollers : ~At(q, "off")
               PROVE  FALSE
    OBVIOUS
  <2>1. Running = Pollers
    BY DEF Running
  <2>2. Cardinality(Running) \in Nat
    BY <2>1, FS_CardinalityType
  <2>3. Unstarted = 1 /\ Dropped \in Nat /\ reorgs \in 0 .. MaxReorgs /\ MaxReorgs \in Nat
    BY FeesAssumption DEF TypeOK, Unstarted, Dropped
  <2> QED
    BY <2>1, <2>2, <2>3 DEF PollersInv
<1> QED
  BY <1>1, InitType, InitPollers, TypeInductive, PollersInductive, PTL DEF Spec

-----------------------------------------------------------------------------
(* Without a retry no fee goes over the maximum. *)

\* Every request that is being made stays within the maximum; no boost is on its way.
BidsWithin ==
  \A p \in Procs : At(p, "send") \/ At(p, "rebroadcast") => proc[p].fee <= Cap
NoBoost == \A p \in Pollers : ~At(p, "boost")

\* A process that goes on with a request within the maximum, or with none.
LEMMA GotoBids ==
  ASSUME ProcTyped, NEW p \in Procs, NEW k, Goto(p, k)
  PROVE  /\ BidsWithin /\ (k.step \in {"send", "rebroadcast"} => k.fee <= Cap)
              => BidsWithin'
         /\ NoBoost /\ k.step # "boost" => NoBoost'
<1>1. \A q \in Procs : proc'[q] = IF q = p THEN k ELSE proc[q]
  BY DEF Goto, ProcTyped
<1>2. Pollers \subseteq Procs
  BY DEF Procs
<1> QED
  BY <1>1, <1>2 DEF BidsWithin, NoBoost, At

\* Processes without a request.
LEMMA IdleBids ==
  ASSUME ProcTyped, NEW p \in Procs, NEW s \in {"off", "sleep", "fees"}, Goto(p, Idle(s))
  PROVE  (BidsWithin => BidsWithin') /\ (NoBoost => NoBoost')
<1>1. Idle(s).step \notin {"send", "rebroadcast", "boost"}
  BY DEF Idle
<1> HIDE DEF Idle
<1> QED
  BY <1>1, GotoBids

\* The maximum is in force.
InForce == ~retried /\ (type = 0 \/ reorgs = 0)

\* The parts of the invariant in these terms.
LEMMA FeeParts ==
  /\ BidInv <=> (InForce => BidsWithin /\ (latest # None => gas <= Cap))
  /\ GasInv <=> (reorgs = 0 /\ gas = 0 => latest = None /\ NoBoost)
  /\ UnretriedFeeWithinMax <=> (InForce => highest <= Cap)
BY DEF BidInv, GasInv, UnretriedFeeWithinMax, InForce, BidsWithin, NoBoost

\* A node that takes a broadcast, or does not.
LEMMA TakenFee ==
  ASSUME TypeOK, ChainInv, NEW fee \in Nat,
         \/ UNCHANGED <<pool, highest>>
         \/ fee \in Fees /\ pool' = pool \cup {fee} /\ highest' = Max2(highest, fee),
         UNCHANGED <<mined, reorgs, confirmed>>
  PROVE  ChainInv' /\ (highest <= Cap /\ fee <= Cap => highest' <= Cap)
<1>1. highest \in Nat /\ highest' \in Nat /\ Fees \subseteq Nat /\ Cap \in Nat
  BY FeesAssumption DEF TypeOK, Fees, Max2
<1>2. /\ highest <= highest'
      /\ \A f \in pool' : f \in pool \/ (f = fee /\ fee <= highest')
  <2>1. CASE UNCHANGED <<pool, highest>>
    BY <1>1, <2>1
  <2>2. CASE pool' = pool \cup {fee} /\ highest' = Max2(highest, fee)
    <3>1. highest <= highest' /\ fee <= highest'
      BY <1>1, <2>2 DEF Max2
    <3> QED
      BY <2>2, <3>1
  <2> QED
    BY <2>1, <2>2
<1>3. \A f \in Nat : f <= highest => f <= highest'
  BY <1>1, <1>2
<1>4. ChainInv'
  <2>1. \A f \in pool' : f <= highest'
    BY <1>1, <1>2, <1>3 DEF ChainInv, TypeOK
  <2>2. /\ mined' \in Fees => mined' <= highest'
        /\ confirmed' \in Fees => confirmed' <= highest'
    BY <1>1, <1>3 DEF ChainInv
  <2> QED
    BY <2>1, <2>2 DEF ChainInv
<1>5. highest <= Cap /\ fee <= Cap => highest' <= Cap
  BY <1>1 DEF Max2
<1> QED
  BY <1>4, <1>5

\* Whatever a node answers to a request.
LEMMA SendFeeInv ==
  ASSUME TypeOK, FeeInv, NEW p \in Procs, SendTransaction(p)
  PROVE  FeeInv'
<1> DEFINE fee == proc[p].fee
<1> USE DEF itemVars, callVars, limitVars, confirmVars
<1>1. fee \in Nat /\ ProcTyped /\ At(p, "send")
  BY DEF TypeOK, Proc, ProcTyped, SendTransaction
<1>2. /\ \/ UNCHANGED <<pool, highest>>
         \/ fee \in Fees /\ pool' = pool \cup {fee} /\ highest' = Max2(highest, fee)
      /\ UNCHANGED <<mined, reorgs, confirmed, type>>
  BY DEF SendTransaction, Accepted, Refused, Takes
<1>3. retried => retried'
  BY DEF SendTransaction, Accepted, Refused, RetryOrThrow, Retry, SendThrows
<1>4. InForce' => InForce
  BY <1>2, <1>3 DEF InForce
<1>5. InForce => BidsWithin /\ fee <= Cap /\ highest <= Cap
  BY <1>1, FeeParts DEF FeeInv, BidsWithin
<1>6. ChainInv' /\ (InForce' => highest' <= Cap)
  BY <1>1, <1>2, <1>4, <1>5, TakenFee DEF FeeInv
<1>7. /\ InForce' => BidsWithin' /\ (latest' # None => gas' <= Cap)
      /\ reorgs' = 0 /\ gas' = 0 => latest' = None /\ NoBoost'
  <2>1. CASE fee \in Fees /\ Track(p)
    <3> DEFINE done == IF p = Caller THEN Idle("off") ELSE Idle("sleep")
    <3>1. gas' = fee /\ gas' # 0
      BY <2>1 DEF Track, Fees
    <3>2. CASE Goto(p, done)
      <4>1. PICK s \in {"off", "sleep", "fees"} : Goto(p, Idle(s))
        BY <3>2
      <4>2. BidsWithin => BidsWithin'
        BY <4>1, <1>1, IdleBids
      <4> QED
        BY <4>2, <3>1, <1>4, <1>5
    <3>3. ASSUME NEW q \in Pollers \ {p},
                 proc' = [proc EXCEPT ![p] = done, ![q] = PollerStarts(q)]
          PROVE  BidsWithin => BidsWithin'
      <4>1. done.step \in {"off", "sleep"} /\ PollerStarts(q).step \in {"off", "sleep"}
        BY DEF Idle, PollerStarts
      <4> HIDE DEF done
      <4>2. \A r \in Procs : proc'[r] \in {proc[r], done, PollerStarts(q)}
        BY <3>3, <1>1 DEF ProcTyped
      <4> QED
        BY <4>1, <4>2 DEF BidsWithin, At
    <3> QED
      BY <2>1, <3>1, <3>2, <3>3, <1>4, <1>5 DEF Track
  <2>2. CASE Retry(p)
    <3>1. retried' /\ UNCHANGED <<gas, latest>>
      BY <2>2 DEF Retry
    <3>2. PICK k : Goto(p, k) /\ k.step = "send"
      BY <2>2 DEF Retry
    <3>3. NoBoost => NoBoost'
      BY <3>2, <1>1, GotoBids
    <3> QED
      BY <3>1, <3>3, <1>2, FeeParts DEF InForce, FeeInv
  <2>3. ASSUME NEW ends \in BOOLEAN, SendThrows(p, ends)
        PROVE  /\ InForce' => BidsWithin' /\ (latest' # None => gas' <= Cap)
               /\ reorgs' = 0 /\ gas' = 0 => latest' = None /\ NoBoost'
    <3>1. PICK s \in {"off", "sleep", "fees"} : Goto(p, Idle(s))
      BY <2>3 DEF SendThrows
    <3>2. (BidsWithin => BidsWithin') /\ (NoBoost => NoBoost')
      BY <3>1, <1>1, IdleBids
    <3>3. UNCHANGED <<gas, latest>>
      BY <2>3 DEF SendThrows
    <3> QED
      BY <3>2, <3>3, <1>2, <1>4, FeeParts DEF FeeInv
  <2> QED
    BY <2>1, <2>2, <2>3 DEF SendTransaction, Accepted, Refused, RetryOrThrow, Takes
<1> QED
  BY <1>6, <1>7
  DEF FeeInv, BidInv, GasInv, UnretriedFeeWithinMax, InForce, BidsWithin, NoBoost

\* Every step of a poller.
LEMMA PollFeeInv ==
  ASSUME TypeOK, FeeInv, NEW p \in Pollers, Poll(p)
  PROVE  FeeInv'
<1> USE DEF chainVars, itemVars, callVars, limitVars, confirmVars, historyVars
<1>1. ProcTyped /\ p \in Procs /\ proc[p].fee \in Nat
  BY DEF TypeOK, ProcTyped, Procs, Proc
<1>2. UNCHANGED <<mined, reorgs, confirmed, type, retried, gas>>
  BY DEF Poll, EndPoller, ShouldBoost, Boost, RebroadcastLatestTx, Rebroadcast
<1>3. InForce' = InForce
  BY <1>2 DEF InForce
<1>4. /\ InForce => BidsWithin /\ highest <= Cap /\ (latest # None => gas <= Cap)
      /\ reorgs = 0 /\ gas = 0 => latest = None /\ NoBoost
  BY FeeParts DEF FeeInv
<1>5. latest' \in {latest, None}
  BY DEF Poll, EndPoller, ShouldBoost, Boost, RebroadcastLatestTx, Rebroadcast
<1>6. ChainInv' /\ (InForce' => highest' <= Cap)
  <2>1. CASE Rebroadcast(p)
    <3>1. \/ UNCHANGED <<pool, highest>>
          \/ /\ proc[p].fee \in Fees /\ pool' = pool \cup {proc[p].fee}
             /\ highest' = Max2(highest, proc[p].fee)
      BY <2>1 DEF Rebroadcast, Takes
    <3>2. InForce => proc[p].fee <= Cap
      BY <1>1, <1>4, <2>1 DEF BidsWithin, Rebroadcast
    <3> QED
      BY <1>1, <1>2, <1>3, <1>4, <3>1, <3>2, TakenFee DEF FeeInv
  <2>2. CASE UNCHANGED <<pool, highest>>
    BY <1>2, <1>3, <1>4, <2>2 DEF FeeInv, ChainInv
  <2> QED
    BY <2>1, <2>2 DEF Poll, EndPoller, ShouldBoost, Boost, RebroadcastLatestTx
<1>7. PICK k : /\ Goto(p, k)
               /\ InForce /\ k.step \in {"send", "rebroadcast"} => k.fee <= Cap
               /\ k.step = "boost" => latest # None
  <2> DEFINE Good(k) == /\ Goto(p, k)
                        /\ InForce /\ k.step \in {"send", "rebroadcast"} => k.fee <= Cap
                        /\ k.step = "boost" => latest # None
  <2>1. \A s \in {"off", "sleep"} : Idle(s).step \notin {"send", "rebroadcast", "boost"}
    BY DEF Idle
  <2>2. ASSUME NEW s \in {"off", "sleep"}, Goto(p, Idle(s)) PROVE \E k : Good(k)
    <3>1. Good(Idle(s))
      BY <2>1, <2>2
    <3> QED
      BY <3>1
  <2>3. CASE EndPoller(p)
    BY <2>2, <2>3 DEF EndPoller
  <2>4. CASE ShouldBoost(p)
    <3>1. Good(Idle("boost"))
      BY <2>4 DEF ShouldBoost, Polls, Idle
    <3> QED
      BY <3>1
  <2>5. CASE Boost(p)
    <3>1. PICK market \in MarketFees :
            \/ \E fee \in BoostFee(market) :
                 Goto(p, [step |-> "send", index |-> 1, fee |-> fee])
            \/ Goto(p, Idle("sleep"))
      BY <2>5 DEF Boost
    <3>2. ASSUME NEW fee \in BoostFee(market),
                 Goto(p, [step |-> "send", index |-> 1, fee |-> fee])
          PROVE  \E k : Good(k)
      <4>1. ASSUME InForce PROVE fee <= Cap
        <5>1. gas # 0 \/ type = 0
          BY <1>4, <4>1, <2>5 DEF InForce, NoBoost, Boost
        <5>2. Cap \in Nat
          BY FeesAssumption DEF Fees
        <5> QED
          BY <5>1, <5>2, <3>2 DEF BoostFee
      <4>2. Good([step |-> "send", index |-> 1, fee |-> fee])
        BY <3>2, <4>1
      <4> QED
        BY <4>2
    <3> QED
      BY <3>1, <3>2, <2>2
  <2>6. CASE RebroadcastLatestTx(p)
    <3>1. CASE Goto(p, [Idle("rebroadcast") EXCEPT !.fee = gas])
      <4>1. Good([Idle("rebroadcast") EXCEPT !.fee = gas])
        BY <3>1, <1>4, <2>6 DEF RebroadcastLatestTx, Polls, Idle
      <4> QED
        BY <4>1
    <3> QED
      BY <3>1, <2>2, <2>6 DEF RebroadcastLatestTx
  <2>7. CASE Rebroadcast(p)
    BY <2>2, <2>7 DEF Rebroadcast
  <2> QED
    BY <2>3, <2>4, <2>5, <2>6, <2>7 DEF Poll
<1>8. /\ InForce /\ BidsWithin => BidsWithin'
      /\ latest = None /\ NoBoost => NoBoost'
  BY <1>1, <1>7, GotoBids
<1> QED
  BY <1>2, <1>3, <1>4, <1>5, <1>6, <1>8
  DEF FeeInv, BidInv, GasInv, UnretriedFeeWithinMax, InForce, BidsWithin, NoBoost

\* Every step preserves the invariant.
LEMMA FeeInductive == TypeOK /\ FeeInv /\ [Next]_vars => FeeInv'
<1> SUFFICES ASSUME TypeOK, FeeInv, [Next]_vars PROVE FeeInv'
  OBVIOUS
<1> USE DEF chainVars, callVars, itemVars, limitVars, confirmVars, historyVars
<1>F. /\ InForce => BidsWithin /\ highest <= Cap /\ (latest # None => gas <= Cap)
      /\ reorgs = 0 /\ gas = 0 => latest = None /\ NoBoost
  BY FeeParts DEF FeeInv
<1>P. ProcTyped /\ Caller \in Procs /\ Cap \in Nat /\ Other \notin Fees /\ None \notin Fees
  BY FeesAssumption, ProcessesAssumption DEF TypeOK, ProcTyped, Procs, Fees
<1>1. CASE Mine \/ Reorg \/ Drop
  <2>1. UNCHANGED <<callVars, itemVars, proc, confirmed, historyVars>>
    BY <1>1 DEF Mine, Reorg, Drop
  <2>2. /\ pool' \subseteq pool
        /\ \/ mined = None /\ mined' \in pool \cup {Other} /\ reorgs' = reorgs
           \/ mined' = None /\ reorgs' = reorgs + 1
           \/ mined' = mined /\ reorgs' = reorgs
    BY <1>1 DEF Mine, Reorg, Drop
  <2>3. reorgs \in Nat
    BY FeesAssumption DEF TypeOK
  <2>4. ChainInv'
    BY <2>1, <2>2, <2>3, <1>P DEF ChainInv, FeeInv
  <2>5. reorgs' = 0 => reorgs = 0
    BY <2>2, <2>3
  <2>6. (InForce' => InForce) /\ BidsWithin' = BidsWithin /\ NoBoost' = NoBoost
    BY <2>1, <2>5 DEF InForce, BidsWithin, NoBoost, At
  <2> QED
    BY <2>1, <2>4, <2>5, <2>6, <1>F
    DEF FeeInv, BidInv, GasInv, UnretriedFeeWithinMax, InForce, BidsWithin, NoBoost
<1>2. CASE SendFees
  <2>1. PICK k : Goto(Caller, k) /\ k.fee <= Cap /\ k.step = "send"
    BY <1>2, <1>P, FeesAssumption DEF SendFees, Min2, TypeOK
  <2>2. (BidsWithin => BidsWithin') /\ (NoBoost => NoBoost')
    BY <2>1, <1>P, GotoBids
  <2>3. UNCHANGED <<chainVars, callVars, itemVars, confirmed, historyVars>>
    BY <1>2 DEF SendFees
  <2>4. ChainInv' /\ InForce' = InForce
    BY <2>3 DEF ChainInv, FeeInv, InForce
  <2> QED
    BY <2>2, <2>3, <2>4, <1>F
    DEF FeeInv, BidInv, GasInv, UnretriedFeeWithinMax, InForce, BidsWithin, NoBoost
<1>3. CASE \E p \in Procs : SendTransaction(p)
  BY <1>3, SendFeeInv
<1>4. CASE \E p \in Pollers : Poll(p)
  BY <1>4, PollFeeInv
<1>5. CASE TimePasses \/ Wait \/ UNCHANGED vars
  BY <1>5 DEF TimePasses, Wait, vars, FeeInv, ChainInv, BidInv, GasInv,
     UnretriedFeeWithinMax, At
<1>6. CASE WaitEnds
  <2>1. PICK fee \in waits : WaitEndsWith(fee)
    BY <1>6 DEF WaitEnds
  <2>2. UNCHANGED <<chainVars, callVars, gas, proc, historyVars>>
    BY <1>6 DEF WaitEnds
  <2>3. latest' \in {latest, None} /\ (confirmed' = confirmed \/ confirmed' = mined)
    BY <2>1 DEF WaitEndsWith
  <2>4. ChainInv'
    BY <2>2, <2>3 DEF ChainInv, FeeInv
  <2> QED
    BY <2>2, <2>3, <2>4 DEF FeeInv, BidInv, GasInv, UnretriedFeeWithinMax, At
<1>7. CASE HandleConfirmation
  <2>1. /\ confirmed \in Fees
        /\ UNCHANGED <<chainVars, callVars, latest, proc, confirmed, historyVars>>
    BY <1>7 DEF HandleConfirmation, TypeOK
  <2>2. gas' = confirmed \/ gas' = gas
    BY <1>7 DEF HandleConfirmation
  <2>3. InForce => confirmed <= Cap
    BY <1>F, <1>P, <2>1 DEF FeeInv, ChainInv, TypeOK, Fees
  <2>4. confirmed # 0
    BY <2>1 DEF Fees
  <2>5. ChainInv'
    BY <2>1 DEF ChainInv, FeeInv
  <2> QED
    BY <2>1, <2>2, <2>3, <2>4, <2>5
    DEF FeeInv, BidInv, GasInv, UnretriedFeeWithinMax, InForce, At
<1>8. CASE WatchForReorg
  <2>1. CASE mined = confirmed /\ UNCHANGED <<itemVars, limitVars, confirmed, proc>>
    BY <1>8, <2>1 DEF WatchForReorg, FeeInv, ChainInv, BidInv, GasInv,
       UnretriedFeeWithinMax, At
  <2>2. CASE mined # confirmed /\ Reset /\ Goto(Caller, Idle("fees"))
    <3>1. /\ UNCHANGED <<chainVars, callVars, historyVars>>
          /\ latest' = None /\ confirmed' = None
      BY <1>8, <2>2 DEF WatchForReorg, Reset
    <3>2. reorgs # 0
      BY <1>8, <1>P, <2>2 DEF WatchForReorg, TypeOK, FeeInv, ChainInv
    <3>3. BidsWithin => BidsWithin'
      BY <2>2, <1>P, IdleBids
    <3>4. ChainInv' /\ InForce' = InForce
      BY <3>1, <1>P DEF ChainInv, FeeInv, InForce
    <3> QED
      BY <3>1, <3>2, <3>3, <3>4, <1>F
      DEF FeeInv, BidInv, GasInv, UnretriedFeeWithinMax, InForce, BidsWithin
  <2> QED
    BY <1>8, <2>1, <2>2 DEF WatchForReorg
<1> QED
  BY <1>1, <1>2, <1>3, <1>4, <1>5, <1>6, <1>7, <1>8 DEF Next

\* As long as no request had to be tried again, no fee that was handed to a node is over
\* the configured maximum (type 2: and no reorg happened).
THEOREM UnretriedWithinMax == Spec => []UnretriedFeeWithinMax
<1>1. Init => FeeInv
  <2> SUFFICES ASSUME Init PROVE FeeInv
    OBVIOUS
  <2>1. None \notin Fees /\ Cap \in Nat /\ 0 <= Cap
    BY ProcessesAssumption, FeesAssumption DEF Fees
  <2>2. \A p \in Procs : ~At(p, "send") /\ ~At(p, "rebroadcast") /\ ~At(p, "boost")
    BY DEF Init, At, Idle
  <2> QED
    BY <2>1, <2>2 DEF Init, FeeInv, ChainInv, BidInv, GasInv, UnretriedFeeWithinMax, Procs
<1>2. FeeInv => UnretriedFeeWithinMax
  BY DEF FeeInv
<1> QED
  BY <1>1, <1>2, InitType, TypeInductive, FeeInductive, PTL DEF Spec
=============================================================================
