--------------------------- MODULE GasBoostSigner ---------------------------
(***************************************************************************)
(* GasBoostSigner: the wallet of one chain.  The next nonce is kept in the *)
(* GasBoostDb, transactions are sent one at a time under a mutex, and the  *)
(* nonce is incremented once the transaction has been sent.  connect()     *)
(* makes an additional signer with a mutex of its own on the same store.   *)
(*                                                                         *)
(* The GasBoostTransaction a send creates is seen here from outside: it    *)
(* retries fees that are too low, reports a nonce that is too low, and     *)
(* goes on broadcasting until it is mined.  The account on the chain and   *)
(* the mempool are external.                                               *)
(***************************************************************************)
EXTENDS Naturals

CONSTANTS
  Txs,                    \* calls of sendTransaction
  Main,                   \* the signer of wallets.ts
  Extra,                  \* signers that connect() makes
  None, Other,            \* a free nonce; a transaction of another program with the key
  SetLatestNonceOnStart,  \* SET_LATEST_NONCE_ON_START
  InitialCount,           \* transactions of the account before the first start
  InitialItems,           \* what the db may hold at the start
  Faults,                 \* what may go wrong, see AllFaults
  DeepReorgs,             \* a reorg may go back beyond reorgWaitConfirmations
  MaxNonce,               \* bound of the nonces
  MaxCrashes, MaxForeign, MaxEvictions, MaxReorgs   \* bounds of the environment

\* "initFails": the provider fails while a signer starts; "sendFails": a send ends
\* with an error other than NonceTooLow; "lostResponse": a transaction was accepted
\* and the provider answers with an error.
AllFaults == {"initFails", "sendFails", "lostResponse"}

Signers == {Main} \cup Extra
Nonces == 0 .. MaxNonce

\* The db item 'nonce'; updatedAt is never, less or more than five minutes ago.
Item == [nonce : Nat, updated : {"never", "recently", "longAgo"}]

ASSUME SignersAssumption ==
  /\ Main \notin Extra
  /\ None \notin Txs /\ Other \notin Txs /\ None # Other
  /\ SetLatestNonceOnStart \in BOOLEAN /\ DeepReorgs \in BOOLEAN
  /\ Faults \subseteq AllFaults
ASSUME NoncesAssumption ==
  /\ MaxNonce \in Nat /\ InitialCount \in Nonces
  /\ InitialItems \subseteq Item
  /\ MaxCrashes \in Nat /\ MaxForeign \in Nat
  /\ MaxEvictions \in Nat /\ MaxReorgs \in Nat

VARIABLES
  count,    \* mined transactions of the account
  slot,     \* who holds a nonce, mined below count and pending from there on
  item,     \* the db item 'nonce'
  signer,   \* the GasBoostSigner objects
  status,   \* what became of a call of sendTransaction
  nonceOf,  \* the nonce of a GasBoostTransaction after its send
  boosting, \* transactions that this process boosts, or watches for a reorg
  crashes, foreign, evictions, reorgs

chainVars == <<count, slot, foreign, evictions, reorgs>>
txVars == <<status, nonceOf, boosting>>
vars == <<count, slot, item, signer, status, nonceOf, boosting, crashes, foreign,
          evictions, reorgs>>

\* nonce is the value the signer read last.
SignerSteps == {"off", "shouldSetLatestNonce", "getOnChainNonce", "setLatestNonce",
                "ready", "getDbNonce", "send", "tooLow", "incNonce", "setDbNonce",
                "tooLowSetDbNonce"}
Signer == [step : SignerSteps, tx : Txs \cup {None}, nonce : Nat]

NewSigner(step) == [step |-> step, tx |-> None, nonce |-> 0]

Init ==
  /\ count = InitialCount
  /\ slot = [n \in Nonces |-> IF n < InitialCount THEN Other ELSE None]
  /\ item \in InitialItems
  /\ signer = [s \in Signers |-> NewSigner(IF s = Main THEN "shouldSetLatestNonce"
                                                       ELSE "off")]
  /\ status = [t \in Txs |-> "new"]
  /\ nonceOf = [t \in Txs |-> 0]
  /\ boosting = {}
  /\ crashes = 0 /\ foreign = 0 /\ evictions = 0 /\ reorgs = 0

-----------------------------------------------------------------------------
(* The account on the chain (external). *)

Mine ==
  /\ count \in Nonces
  /\ slot[count] # None
  /\ count' = count + 1
  /\ UNCHANGED <<slot, foreign, evictions, reorgs, item, signer, txVars, crashes>>

\* Transactions of dropped blocks are pending again.
ReorgChain ==
  /\ reorgs < MaxReorgs
  /\ count > InitialCount
  /\ DeepReorgs \/ slot[count - 1] \notin Txs \ boosting
  /\ count' = count - 1
  /\ reorgs' = reorgs + 1
  /\ UNCHANGED <<slot, foreign, evictions, item, signer, txVars, crashes>>

\* getTransactionCount('pending').
IsPendingCount(n) ==
  /\ n \in Nonces /\ n >= count
  /\ slot[n] = None
  /\ \A m \in Nonces : count <= m /\ m < n => slot[m] # None

\* Another program, such as a command line tool on another host, sends with the key.
SendForeign ==
  /\ foreign < MaxForeign
  /\ \E n \in Nonces : IsPendingCount(n) /\ slot' = [slot EXCEPT ![n] = Other]
  /\ foreign' = foreign + 1
  /\ UNCHANGED <<count, evictions, reorgs, item, signer, txVars, crashes>>

\* The node drops a pending transaction.
Evict(n) ==
  /\ evictions < MaxEvictions
  /\ n >= count /\ slot[n] # None
  /\ slot' = [slot EXCEPT ![n] = None]
  /\ evictions' = evictions + 1
  /\ UNCHANGED <<count, foreign, reorgs, item, signer, txVars, crashes>>

-----------------------------------------------------------------------------
(* The start of a signer. *)

At(s, step) == signer[s].step = step
Goto(s, step) == signer' = [signer EXCEPT ![s].step = step]

Connect(s) ==
  /\ s \in Extra
  /\ At(s, "off")
  /\ Goto(s, "shouldSetLatestNonce")
  /\ UNCHANGED <<chainVars, item, txVars, crashes>>

ShouldSetLatestNonce(s) ==
  /\ At(s, "shouldSetLatestNonce")
  /\ Goto(s, IF ~SetLatestNonceOnStart /\ item.updated = "longAgo"
             THEN "ready" ELSE "getOnChainNonce")
  /\ UNCHANGED <<chainVars, item, txVars, crashes>>

\* Mutant of OnChainNonce: the transactions that are mined already.
LatestCount(n) == n = count

OnChainNonce(n) == IsPendingCount(n)

\* A signer whose init fails gets ready all the same.
GetOnChainNonce(s) ==
  /\ At(s, "getOnChainNonce")
  /\ \/ \E n \in Nonces :
          /\ OnChainNonce(n)
          /\ signer' = [signer EXCEPT ![s].step = "setLatestNonce", ![s].nonce = n]
     \/ "initFails" \in Faults /\ Goto(s, "ready")
  /\ UNCHANGED <<chainVars, item, txVars, crashes>>

SetNonce(n) == item' = [nonce |-> n, updated |-> "recently"]

SetLatestNonce(s) ==
  /\ At(s, "setLatestNonce")
  /\ SetNonce(signer[s].nonce)
  /\ Goto(s, "ready")
  /\ UNCHANGED <<chainVars, txVars, crashes>>

-----------------------------------------------------------------------------
(* sendTransaction. *)

\* Calls wait for a signer that is ready and for its mutex.
Lock(s, t) ==
  /\ At(s, "ready")
  /\ status[t] = "new"
  /\ status' = [status EXCEPT ![t] = "sending"]
  /\ signer' = [signer EXCEPT ![s].step = "getDbNonce", ![s].tx = t]
  /\ UNCHANGED <<chainVars, item, nonceOf, boosting, crashes>>

GetDbNonce(s) ==
  /\ At(s, "getDbNonce")
  /\ signer' = [signer EXCEPT ![s].step = "send", ![s].nonce = item.nonce]
  /\ UNCHANGED <<chainVars, item, txVars, crashes>>

\* The call ends and the mutex is free again.
Unlock(s, outcome) ==
  /\ status' = [status EXCEPT ![signer[s].tx] = outcome]
  /\ signer' = [signer EXCEPT ![s].step = "ready", ![s].tx = None]

\* setOwnTxParams drops a nonce of zero: the wallet fills in the pending count.
SendNonce(s, n) ==
  IF signer[s].nonce = 0 THEN IsPendingCount(n) ELSE n = signer[s].nonce

\* The node takes the transaction; one with the same nonce that is pending is
\* replaced, if need be by a retry with a higher fee.
Send(s) ==
  LET t == signer[s].tx IN
  /\ At(s, "send")
  /\ \E n \in Nonces :
       /\ SendNonce(s, n)
       /\ n >= count
       /\ slot' = [slot EXCEPT ![n] = t]
       /\ nonceOf' = [nonceOf EXCEPT ![t] = n]
  /\ boosting' = boosting \cup {t}
  /\ Goto(s, "incNonce")
  /\ UNCHANGED <<count, foreign, evictions, reorgs, item, status, crashes>>

\* The node took it and the answer is an error; send tries again or gives up.
SendLosesResponse(s) ==
  /\ "lostResponse" \in Faults
  /\ At(s, "send")
  /\ \E n \in Nonces : SendNonce(s, n) /\ n >= count
                       /\ slot' = [slot EXCEPT ![n] = signer[s].tx]
  /\ \/ UNCHANGED <<status, signer>>
     \/ Unlock(s, "failed")
  /\ UNCHANGED <<count, foreign, evictions, reorgs, item, nonceOf, boosting, crashes>>

\* Mutant of SendFails: the nonce is incremented whatever the error is.
SendFailsIncrements(s) ==
  /\ "sendFails" \in Faults
  /\ At(s, "send")
  /\ Goto(s, "tooLow")
  /\ UNCHANGED <<chainVars, item, txVars, crashes>>

SendFails(s) ==
  /\ "sendFails" \in Faults
  /\ At(s, "send")
  /\ Unlock(s, "failed")
  /\ UNCHANGED <<chainVars, item, nonceOf, boosting, crashes>>

\* Mutant of SendTooLow: the send is tried again with the nonce it has.
SendTooLowRetries(s) ==
  /\ At(s, "send")
  /\ signer[s].nonce # 0 /\ signer[s].nonce < count
  /\ UNCHANGED vars

\* NonceTooLow: the nonce is incremented before the error is thrown.
SendTooLow(s) ==
  /\ At(s, "send")
  /\ signer[s].nonce # 0 /\ signer[s].nonce < count
  /\ Goto(s, "tooLow")
  /\ UNCHANGED <<chainVars, item, txVars, crashes>>

\* incNonce reads the db item again.
IncNonce(s) ==
  /\ \/ At(s, "incNonce")
        /\ signer' = [signer EXCEPT ![s].step = "setDbNonce", ![s].nonce = item.nonce]
     \/ At(s, "tooLow")
        /\ signer' = [signer EXCEPT ![s].step = "tooLowSetDbNonce",
                                   ![s].nonce = item.nonce]
  /\ UNCHANGED <<chainVars, item, txVars, crashes>>

\* Mutant of SetDbNonce: the signer goes on to increment a second time.
SetDbNonceAgain(s) ==
  /\ At(s, "setDbNonce") \/ At(s, "tooLowSetDbNonce")
  /\ SetNonce(signer[s].nonce + 1)
  /\ signer' = [signer EXCEPT ![s].step = "incNonce", ![s].tx = None]
  /\ UNCHANGED <<chainVars, txVars, crashes>>

SetDbNonce(s) ==
  /\ \/ At(s, "setDbNonce") /\ Unlock(s, "sent")
     \/ At(s, "tooLowSetDbNonce") /\ Unlock(s, "failed")
  /\ SetNonce(signer[s].nonce + 1)
  /\ UNCHANGED <<chainVars, nonceOf, boosting, crashes>>

-----------------------------------------------------------------------------
\* Mutant of Boost: a transaction that the node dropped is not broadcast again.
BoostPending(t) ==
  /\ t \in boosting
  /\ nonceOf[t] >= count
  /\ slot[nonceOf[t]] \notin {t, None}
  /\ slot' = [slot EXCEPT ![nonceOf[t]] = t]
  /\ UNCHANGED <<count, foreign, evictions, reorgs, item, signer, txVars, crashes>>

\* A transaction that is not mined is boosted and rebroadcast with its own nonce.
Boost(t) ==
  /\ t \in boosting
  /\ nonceOf[t] >= count
  /\ slot[nonceOf[t]] # t
  /\ slot' = [slot EXCEPT ![nonceOf[t]] = t]
  /\ UNCHANGED <<count, foreign, evictions, reorgs, item, signer, txVars, crashes>>

\* It was mined, and is still there after reorgWaitConfirmations blocks.
EndReorgWatch(t) ==
  /\ t \in boosting
  /\ nonceOf[t] < count /\ slot[nonceOf[t]] = t
  /\ boosting' = boosting \ {t}
  /\ UNCHANGED <<chainVars, item, signer, status, nonceOf, crashes>>

FiveMinutesPass ==
  /\ item.updated = "recently"
  /\ item' = [item EXCEPT !.updated = "longAgo"]
  /\ UNCHANGED <<chainVars, signer, txVars, crashes>>

\* The process ends and starts again; only the db survives.
Crash ==
  /\ crashes < MaxCrashes
  /\ crashes' = crashes + 1
  /\ signer' = [s \in Signers |-> NewSigner(IF s = Main THEN "shouldSetLatestNonce"
                                                        ELSE "off")]
  /\ status' = [t \in Txs |-> IF status[t] = "sending" THEN "failed" ELSE status[t]]
  /\ boosting' = {}
  /\ UNCHANGED <<chainVars, item, nonceOf>>

-----------------------------------------------------------------------------
Chain == Mine \/ ReorgChain \/ SendForeign \/ \E n \in Nonces : Evict(n)

Start(s) == ShouldSetLatestNonce(s) \/ GetOnChainNonce(s) \/ SetLatestNonce(s)

SendTransaction(s) ==
  \/ GetDbNonce(s) \/ Send(s) \/ SendLosesResponse(s) \/ SendFails(s) \/ SendTooLow(s)
  \/ IncNonce(s) \/ SetDbNonce(s)

Next ==
  \/ Chain
  \/ \E s \in Signers : \/ Connect(s) \/ Start(s) \/ SendTransaction(s)
                        \/ \E t \in Txs : Lock(s, t)
  \/ \E t \in Txs : Boost(t) \/ EndReorgWatch(t)
  \/ FiveMinutesPass
  \/ Crash

Spec == Init /\ [][Next]_vars

\* Awaits return or throw, a poller rebroadcasts (it gives up after ten rounds, more
\* than MaxEvictions asks for), miners take what is next.  Nothing is asked of foreign
\* transactions, reorgs, evictions and crashes.
Fairness ==
  /\ WF_vars(Mine)
  /\ \A t \in Txs : WF_vars(Boost(t))
  /\ \A s \in Signers : WF_vars(Start(s) \/ SendTransaction(s))

FairSpec == Spec /\ Fairness

-----------------------------------------------------------------------------
(* Properties. *)

Sending == {"getDbNonce", "send", "tooLow", "incNonce", "setDbNonce",
            "tooLowSetDbNonce"}

\* Every variable stays within its values, and a locked mutex belongs to a call.
TypeOK ==
  /\ count \in 0 .. MaxNonce + 1
  /\ slot \in [Nonces -> Txs \cup {None, Other}]
  /\ item \in Item
  /\ signer \in [Signers -> Signer]
  /\ \A s \in Signers : signer[s].step \in Sending => signer[s].tx \in Txs
  /\ status \in [Txs -> {"new", "sending", "sent", "failed"}]
  /\ nonceOf \in [Txs -> Nonces]
  /\ boosting \subseteq Txs
  /\ crashes \in 0 .. MaxCrashes /\ foreign \in 0 .. MaxForeign
  /\ evictions \in 0 .. MaxEvictions /\ reorgs \in 0 .. MaxReorgs

\* A transaction that sendTransaction returned to its caller holds its nonce for
\* good: no later transaction of the wallet takes its place, through crashes,
\* lost responses, nonces that are too low and other programs with the key.
SentIsNeverDisplaced ==
  \A t \in Txs : status[t] = "sent" => slot[nonceOf[t]] = t

\* The next nonce never runs ahead of the account: with a free nonce below it,
\* every transaction from there on would wait for ever.
NoNonceGap ==
  \A n \in Nonces : count <= n /\ n < item.nonce => slot[n] # None

\* Why, for a single signer and a node that drops nothing: the nonces below the next
\* one are taken ...
SingleSigner ==
  /\ Extra = {} /\ MaxEvictions = 0 /\ InitialCount > 0
  /\ \A i \in InitialItems : /\ i.nonce <= InitialCount
                             /\ i.updated # "never" => i.nonce > 0
                             /\ "initFails" \in Faults => i.updated # "never"

AccountInv ==
  /\ count >= InitialCount
  /\ item.updated # "never" => item.nonce > 0
  /\ "initFails" \in Faults => item.updated # "never"
  /\ \A n \in Nonces : n < count \/ n < item.nonce => slot[n] # None

\* ... the transactions that were returned are among them, and what is still boosted
\* has its place ...
Broadcast(t) == signer[Main].tx = t /\ signer[Main].step \in {"incNonce", "setDbNonce"}
SentInv ==
  \A t \in Txs :
    /\ status[t] = "sent" => nonceOf[t] < item.nonce /\ slot[nonceOf[t]] = t
    /\ t \in boosting => /\ status[t] = "sent" \/ Broadcast(t)
                         /\ slot[nonceOf[t]] = t

\* ... and the signer works on the next one.
MainInv ==
  LET m == signer[Main] IN
  /\ m.step \in Sending => status[m.tx] = "sending"
  /\ m.step \in Sending \cup {"ready"} => item.nonce > 0
  /\ m.step = "setLatestNonce" =>
       /\ m.nonce >= item.nonce /\ m.nonce > 0
       /\ \A n \in Nonces : n < m.nonce => slot[n] # None
  /\ m.step \in {"send", "setDbNonce", "tooLowSetDbNonce"} => m.nonce = item.nonce
  /\ m.step \in {"incNonce", "setDbNonce"} =>
       nonceOf[m.tx] = item.nonce /\ slot[item.nonce] = m.tx
  /\ m.step \in {"tooLow", "tooLowSetDbNonce"} =>
       item.nonce \in Nonces /\ slot[item.nonce] # None

NonceInv == TypeOK /\ AccountInv /\ SentInv /\ MainInv

\* A transaction that was returned to its caller is mined in the end, also when the
\* node drops it from the mempool.  It takes a signer that is alone on its db, and one
\* that never left the nonce to the wallet, after a first start that failed.
SentIsMined ==
  [](/\ \A s \in Extra : At(s, "off")
     /\ At(Main, "send") => signer[Main].nonce > 0) =>
    \A t \in Txs : status[t] = "sent"
      ~> (slot[nonceOf[t]] = t /\ nonceOf[t] < count)

\* A call that holds the mutex gives it back.
MutexIsReleased ==
  \A t \in Txs : status[t] = "sending" ~> status[t] \in {"sent", "failed"}
=============================================================================
