------------------------ MODULE GasBoostSigner_proofs ------------------------
(* Theorems about GasBoostSigner for every value of its constants. *)
EXTENDS GasBoostSigner, TLAPS

-----------------------------------------------------------------------------
(* Types. *)

\* What the steps of a signer write into its record.
SignerTyped ==
  /\ signer \in [Signers -> Signer]
  /\ \A s \in Signers : signer[s].step \in Sending => signer[s].tx \in Txs

\* A signer keeps its type when its next step finds the call it needs.
LEMMA GotoType ==
  ASSUME NEW s \in Signers, SignerTyped, NEW step \in SignerSteps, Goto(s, step),
         step \in Sending => signer[s].tx \in Txs
  PROVE  SignerTyped'
BY DEF SignerTyped, Goto, Signer, SignerSteps, Sending

\* A call that ends leaves the signer without one, and every record typed.
LEMMA UnlockType ==
  ASSUME NEW s \in Signers, SignerTyped, signer[s].step \in Sending,
         status \in [Txs -> {"new", "sending", "sent", "failed"}],
         NEW outcome \in {"sent", "failed"}, Unlock(s, outcome)
  PROVE  SignerTyped' /\ status' \in [Txs -> {"new", "sending", "sent", "failed"}]
<1>1. signer[s].tx \in Txs
  BY DEF SignerTyped
<1>2. status' \in [Txs -> {"new", "sending", "sent", "failed"}]
  BY <1>1 DEF Unlock
<1>3. SignerTyped'
  <2> DEFINE k == [signer[s] EXCEPT !.step = "ready", !.tx = None]
  <2>1. k \in Signer /\ k.step = "ready"
    BY DEF SignerTyped, Signer, SignerSteps
  <2>2. signer' = [signer EXCEPT ![s] = k]
    BY DEF Unlock
  <2> QED
    BY <2>1, <2>2 DEF SignerTyped, Sending
<1> QED
  BY <1>2, <1>3

\* The signers of a process that just started are typed.
LEMMA NewSignerType ==
  ASSUME signer' = [s \in Signers |-> NewSigner(IF s = Main THEN "shouldSetLatestNonce"
                                                            ELSE "off")]
  PROVE  SignerTyped'
<1>1. \A s \in Signers : /\ signer'[s] \in Signer
                         /\ signer'[s].step \notin Sending
  BY DEF NewSigner, Signer, SignerSteps, Sending
<1> QED
  BY <1>1 DEF SignerTyped

\* The types hold at the first start.
LEMMA InitType == Init => TypeOK
<1> SUFFICES ASSUME Init PROVE TypeOK
  OBVIOUS
<1>1. signer \in [Signers -> Signer] /\ \A s \in Signers : signer[s].step \notin Sending
  BY DEF Init, NewSigner, Signer, SignerSteps, Sending
<1>2. /\ count \in 0 .. MaxNonce + 1
      /\ nonceOf \in [Txs -> Nonces]
      /\ crashes \in 0 .. MaxCrashes /\ foreign \in 0 .. MaxForeign
      /\ evictions \in 0 .. MaxEvictions /\ reorgs \in 0 .. MaxReorgs
  BY NoncesAssumption DEF Init, Nonces
<1>3. /\ slot \in [Nonces -> Txs \cup {None, Other}]
      /\ item \in Item
      /\ status \in [Txs -> {"new", "sending", "sent", "failed"}]
      /\ boosting \subseteq Txs
  BY NoncesAssumption DEF Init
<1> QED
  BY <1>1, <1>2, <1>3 DEF TypeOK

\* Every step keeps the types.
LEMMA TypeInductive == TypeOK /\ [Next]_vars => TypeOK'
<1> SUFFICES ASSUME TypeOK, [Next]_vars PROVE TypeOK'
  OBVIOUS
<1>T. SignerTyped
  BY DEF TypeOK, SignerTyped
<1> USE DEF chainVars, txVars
<1>1. CASE Mine
  BY <1>1, NoncesAssumption DEF Mine, TypeOK, Nonces
<1>2. CASE ReorgChain
  BY <1>2, NoncesAssumption DEF ReorgChain, TypeOK, Nonces
<1>3. CASE SendForeign
  BY <1>3, NoncesAssumption DEF SendForeign, TypeOK
<1>4. ASSUME NEW n \in Nonces, Evict(n) PROVE TypeOK'
  BY <1>4, NoncesAssumption DEF Evict, TypeOK
<1>5. ASSUME NEW s \in Signers, Connect(s) PROVE TypeOK'
  <2>1. SignerTyped'
    BY <1>5, <1>T, GotoType DEF Connect, SignerSteps, Sending
  <2> QED
    BY <1>5, <2>1 DEF Connect, TypeOK, SignerTyped
<1>6. ASSUME NEW s \in Signers, ShouldSetLatestNonce(s) PROVE TypeOK'
  <2>1. SignerTyped'
    BY <1>6, <1>T, GotoType DEF ShouldSetLatestNonce, SignerSteps, Sending
  <2> QED
    BY <1>6, <2>1 DEF ShouldSetLatestNonce, TypeOK, SignerTyped
<1>7. ASSUME NEW s \in Signers, GetOnChainNonce(s) PROVE TypeOK'
  <2>1. ASSUME Goto(s, "ready")
        PROVE  SignerTyped'
    BY <1>7, <1>T, <2>1, GotoType DEF SignerSteps, Sending
  <2>2. ASSUME NEW n \in Nonces,
               signer' = [signer EXCEPT ![s].step = "setLatestNonce", ![s].nonce = n]
        PROVE  SignerTyped'
    <3> DEFINE k == [signer[s] EXCEPT !.step = "setLatestNonce", !.nonce = n]
    <3>0. n \in Nat /\ signer[s] \in Signer
      BY <1>7, <1>T, <2>2, NoncesAssumption DEF SignerTyped, Nonces
    <3>1. k \in Signer /\ k.step = "setLatestNonce"
      BY <3>0 DEF Signer, SignerSteps
    <3>2. signer' = [signer EXCEPT ![s] = k]
      BY <2>2
    <3> QED
      BY <1>7, <1>T, <3>1, <3>2 DEF SignerTyped, Sending
  <2>3. SignerTyped'
    BY <1>7, <2>1, <2>2 DEF GetOnChainNonce
  <2> QED
    BY <1>7, <2>3 DEF GetOnChainNonce, TypeOK, SignerTyped
<1>8. ASSUME NEW s \in Signers, SetLatestNonce(s) PROVE TypeOK'
  <2>1. SignerTyped'
    BY <1>8, <1>T, GotoType DEF SetLatestNonce, SignerSteps, Sending
  <2>2. item' \in Item
    BY <1>8, <1>T DEF SetLatestNonce, SetNonce, Item, SignerTyped, Signer
  <2> QED
    BY <1>8, <2>1, <2>2 DEF SetLatestNonce, TypeOK, SignerTyped
<1>9. ASSUME NEW s \in Signers, NEW t \in Txs, Lock(s, t) PROVE TypeOK'
  <2>1. SignerTyped'
    BY <1>9, <1>T DEF Lock, SignerTyped, Signer, SignerSteps, Sending
  <2> QED
    BY <1>9, <2>1 DEF Lock, TypeOK, SignerTyped
<1>10. ASSUME NEW s \in Signers, GetDbNonce(s) PROVE TypeOK'
  <2>1. item.nonce \in Nat
    BY DEF TypeOK, Item
  <2>2. SignerTyped'
    BY <1>10, <1>T, <2>1 DEF GetDbNonce, At, SignerTyped, Signer, SignerSteps, Sending
  <2> QED
    BY <1>10, <2>2 DEF GetDbNonce, TypeOK, SignerTyped
<1>11. ASSUME NEW s \in Signers, Send(s) PROVE TypeOK'
  <2>1. signer[s].tx \in Txs
    BY <1>11, <1>T DEF Send, At, SignerTyped, Sending
  <2>2. SignerTyped'
    BY <1>11, <1>T, <2>1, GotoType DEF Send, SignerSteps
  <2> QED
    BY <1>11, <2>1, <2>2 DEF Send, TypeOK, SignerTyped
<1>12. ASSUME NEW s \in Signers, SendLosesResponse(s) PROVE TypeOK'
  <2>1. signer[s].tx \in Txs /\ signer[s].step \in Sending
    BY <1>12, <1>T DEF SendLosesResponse, At, SignerTyped, Sending
  <2>2. SignerTyped' /\ status' \in [Txs -> {"new", "sending", "sent", "failed"}]
    BY <1>12, <1>T, <2>1, UnlockType DEF SendLosesResponse, TypeOK, SignerTyped
  <2> QED
    BY <1>12, <2>1, <2>2 DEF SendLosesResponse, TypeOK, SignerTyped
<1>13. ASSUME NEW s \in Signers, SendFails(s) PROVE TypeOK'
  <2>1. SignerTyped' /\ status' \in [Txs -> {"new", "sending", "sent", "failed"}]
    BY <1>13, <1>T, UnlockType DEF SendFails, At, Sending, TypeOK
  <2> QED
    BY <1>13, <2>1 DEF SendFails, TypeOK, SignerTyped
<1>14. ASSUME NEW s \in Signers, SendTooLow(s) PROVE TypeOK'
  <2>1. SignerTyped'
    BY <1>14, <1>T, GotoType DEF SendTooLow, At, SignerTyped, SignerSteps, Sending
  <2> QED
    BY <1>14, <2>1 DEF SendTooLow, TypeOK, SignerTyped
<1>15. ASSUME NEW s \in Signers, IncNonce(s) PROVE TypeOK'
  <2>1. item.nonce \in Nat
    BY DEF TypeOK, Item
  <2>2. SignerTyped'
    BY <1>15, <1>T, <2>1 DEF IncNonce, At, SignerTyped, Signer, SignerSteps, Sending
  <2> QED
    BY <1>15, <2>2 DEF IncNonce, TypeOK, SignerTyped
<1>16. ASSUME NEW s \in Signers, SetDbNonce(s) PROVE TypeOK'
  <2>1. SignerTyped' /\ status' \in [Txs -> {"new", "sending", "sent", "failed"}]
    BY <1>16, <1>T, UnlockType DEF SetDbNonce, At, Sending, TypeOK
  <2>2. item' \in Item
    BY <1>16, <1>T DEF SetDbNonce, SetNonce, Item, SignerTyped, Signer
  <2> QED
    BY <1>16, <2>1, <2>2 DEF SetDbNonce, TypeOK, SignerTyped
<1>17. ASSUME NEW t \in Txs, Boost(t) PROVE TypeOK'
  BY <1>17 DEF Boost, TypeOK
<1>18. CASE FiveMinutesPass
  BY <1>18 DEF FiveMinutesPass, TypeOK, Item
<1>19. CASE Crash
  <2>1. SignerTyped'
    BY <1>19, NewSignerType DEF Crash
  <2> QED
    BY <1>19, <2>1, NoncesAssumption DEF Crash, TypeOK, SignerTyped
<1>20. ASSUME NEW t \in Txs, EndReorgWatch(t) PROVE TypeOK'
  BY <1>20 DEF EndReorgWatch, TypeOK
<1>21. CASE UNCHANGED vars
  BY <1>21 DEF vars, TypeOK
<1> QED
  BY <1>1, <1>2, <1>3, <1>4, <1>5, <1>6, <1>7, <1>8, <1>9, <1>10, <1>11, <1>12,
     <1>13, <1>14, <1>15, <1>16, <1>17, <1>18, <1>19, <1>20, <1>21
  DEF Next, Chain, Start, SendTransaction

\* Every variable of the signer stays within its values, for any number of calls and
\* of additional signers.
THEOREM TypeCorrect == Spec => []TypeOK
BY InitType, TypeInductive, PTL DEF Spec

-----------------------------------------------------------------------------
(* The nonces of a single signer. *)

\* With one signer, the chain never frees a nonce that is taken.
LEMMA InitNonce == SingleSigner /\ Init => NonceInv
<1> SUFFICES ASSUME SingleSigner, Init PROVE NonceInv
  OBVIOUS
<1>1. TypeOK
  BY InitType
<1>2. AccountInv
  BY NoncesAssumption, SignersAssumption
  DEF Init, SingleSigner, AccountInv, Nonces, Item
<1>3. SentInv
  BY DEF Init, SentInv
<1>4. signer[Main].step = "shouldSetLatestNonce"
  BY DEF Init, Signers, NewSigner
<1>5. MainInv
  BY <1>4 DEF MainInv, Sending
<1> QED
  BY <1>1, <1>2, <1>3, <1>5 DEF NonceInv

\* What getTransactionCount answers has everything below it taken, the next nonce of
\* the db included.
LEMMA PendingCount ==
  ASSUME TypeOK, AccountInv, NEW n \in Nonces, IsPendingCount(n), InitialCount > 0
  PROVE  /\ n >= item.nonce /\ n > 0
         /\ \A m \in Nonces : m < n => slot[m] # None
BY NoncesAssumption DEF TypeOK, AccountInv, IsPendingCount, Nonces, Item

\* Steps that leave the db, the calls and the signer alone, and free no nonce.
LEMMA ChainStep ==
  ASSUME NonceInv, TypeOK', UNCHANGED <<item, signer, status, nonceOf, boosting>>,
         \A n \in Nonces : slot[n] # None => slot'[n] = slot[n],
         count' >= InitialCount,
         \A n \in Nonces : n < count' => slot'[n] # None
  PROVE  NonceInv'
<1> USE DEF NonceInv
<1>1. AccountInv'
  BY DEF AccountInv
<1>2. \A t \in Txs : slot[nonceOf[t]] = t => slot'[nonceOf[t]] = t
  BY SignersAssumption DEF TypeOK
<1>3. SentInv'
  BY <1>2 DEF SentInv, Broadcast
<1>4. ASSUME signer[Main].step \in {"incNonce", "setDbNonce"}
      PROVE  slot'[item.nonce] = slot[item.nonce]
  <2>1. signer[Main].tx \in Txs
    BY <1>4 DEF TypeOK, Signers, Sending
  <2> QED
    BY <1>4, <2>1, SignersAssumption DEF MainInv, TypeOK
<1>5. MainInv'
  BY <1>4 DEF MainInv
<1> QED
  BY <1>1, <1>3, <1>5

\* Every step of a single signer and of the chain keeps the strengthened invariant.
LEMMA NonceInductive == SingleSigner /\ NonceInv /\ [Next]_vars => NonceInv'
<1> SUFFICES ASSUME SingleSigner, NonceInv, [Next]_vars PROVE NonceInv'
  OBVIOUS
<1>T. TypeOK /\ TypeOK' /\ Signers = {Main} /\ AccountInv /\ SentInv /\ MainInv
  BY TypeInductive DEF NonceInv, SingleSigner, Signers
<1> DEFINE m == signer[Main]
<1>M. m \in Signer /\ item \in Item /\ (m.step \in Sending => m.tx \in Txs)
  BY <1>T DEF TypeOK
<1> USE DEF chainVars, txVars
<1>1. CASE Mine
  <2>1. \A n \in Nonces : n < count' => slot'[n] # None
    BY <1>1, <1>T, NoncesAssumption DEF Mine, AccountInv, Nonces, TypeOK
  <2>2. count' >= InitialCount
    BY <1>1, <1>T, NoncesAssumption DEF Mine, AccountInv, Nonces, TypeOK
  <2> QED
    BY <1>1, <1>T, <2>1, <2>2, ChainStep DEF Mine
<1>2. CASE ReorgChain
  <2>1. \A n \in Nonces : n < count' => slot'[n] # None
    BY <1>2, <1>T, NoncesAssumption DEF ReorgChain, AccountInv, Nonces, TypeOK
  <2>2. count' >= InitialCount
    BY <1>2, <1>T, NoncesAssumption DEF ReorgChain, Nonces, TypeOK
  <2> QED
    BY <1>2, <1>T, <2>1, <2>2, ChainStep DEF ReorgChain
<1>3. CASE SendForeign
  <2>1. \A n \in Nonces : slot[n] # None => slot'[n] = slot[n]
    BY <1>3, <1>T DEF SendForeign, IsPendingCount, TypeOK
  <2>2. UNCHANGED <<count, item, signer, status, nonceOf, boosting>>
    BY <1>3 DEF SendForeign
  <2>3. /\ count' >= InitialCount
        /\ \A n \in Nonces : n < count' => slot'[n] # None
    BY <1>T, <2>1, <2>2 DEF AccountInv
  <2> QED
    BY <1>T, <2>1, <2>2, <2>3, ChainStep
<1>4. ASSUME NEW n \in Nonces, Evict(n) PROVE NonceInv'
  BY <1>4, <1>T DEF Evict, SingleSigner, TypeOK
<1>5. ASSUME NEW s \in Signers, Connect(s) PROVE NonceInv'
  BY <1>5 DEF Connect, SingleSigner
<1>6. ASSUME NEW s \in Signers, ShouldSetLatestNonce(s) PROVE NonceInv'
  <2>1. s = Main /\ m'.step \in {"ready", "getOnChainNonce"}
    BY <1>6, <1>T DEF ShouldSetLatestNonce, Goto, TypeOK
  <2>2. m'.step = "ready" => item.nonce > 0
    BY <1>6, <1>T DEF ShouldSetLatestNonce, Goto, AccountInv, TypeOK
  <2>3. m.step = "shouldSetLatestNonce"
    BY <1>6, <2>1 DEF ShouldSetLatestNonce, At
  <2>4. UNCHANGED <<count, slot, item, status, nonceOf, boosting>>
    BY <1>6 DEF ShouldSetLatestNonce
  <2> QED
    BY <1>T, <2>1, <2>2, <2>3, <2>4
    DEF NonceInv, AccountInv, SentInv, Broadcast, MainInv, Sending
<1>7. ASSUME NEW s \in Signers, GetOnChainNonce(s) PROVE NonceInv'
  <2>1. s = Main /\ m.step = "getOnChainNonce"
    BY <1>7, <1>T DEF GetOnChainNonce, At
  <2>2. UNCHANGED <<count, slot, item, status, nonceOf, boosting>>
    BY <1>7 DEF GetOnChainNonce
  <2>3. CASE "initFails" \in Faults /\ Goto(s, "ready")
    <3>1. m'.step = "ready" /\ item.nonce > 0
      BY <1>T, <2>1, <2>3 DEF Goto, TypeOK, AccountInv
    <3> QED
      BY <1>T, <2>1, <2>2, <3>1
      DEF NonceInv, AccountInv, SentInv, Broadcast, MainInv, Sending
  <2>4. ASSUME NEW n \in Nonces, IsPendingCount(n),
               signer' = [signer EXCEPT ![s].step = "setLatestNonce", ![s].nonce = n]
        PROVE  NonceInv'
    <3>1. m'.step = "setLatestNonce" /\ m'.nonce = n
      BY <1>T, <1>M, <2>1, <2>4 DEF TypeOK, Signer
    <3>2. /\ n >= item.nonce /\ n > 0
          /\ \A k \in Nonces : k < n => slot[k] # None
      BY <1>T, <2>4, PendingCount DEF SingleSigner
    <3> QED
      BY <1>T, <2>1, <2>2, <3>1, <3>2
      DEF NonceInv, AccountInv, SentInv, Broadcast, MainInv, Sending
  <2> QED
    BY <1>7, <2>3, <2>4 DEF GetOnChainNonce, OnChainNonce
<1>8. ASSUME NEW s \in Signers, SetLatestNonce(s) PROVE NonceInv'
  <2>1. s = Main /\ m.step = "setLatestNonce" /\ m'.step = "ready"
    BY <1>8, <1>T DEF SetLatestNonce, At, Goto, TypeOK
  <2>2. UNCHANGED <<count, slot, status, nonceOf, boosting>>
    BY <1>8 DEF SetLatestNonce
  <2>3. item'.nonce = m.nonce /\ item'.updated = "recently"
    BY <1>8, <2>1 DEF SetLatestNonce, SetNonce
  <2>4. /\ m.nonce >= item.nonce /\ m.nonce > 0
        /\ \A n \in Nonces : n < m.nonce => slot[n] # None
    BY <1>T, <2>1 DEF MainInv
  <2>5. AccountInv'
    BY <1>T, <2>2, <2>3, <2>4 DEF AccountInv
  <2>6. \A t \in Txs : nonceOf[t] < item.nonce => nonceOf[t] < m.nonce
    BY <1>T, <1>M, <2>4 DEF TypeOK, Item, Signer, Nonces
  <2>7. SentInv'
    BY <1>T, <2>1, <2>2, <2>3, <2>6 DEF SentInv, Broadcast
  <2>8. MainInv'
    BY <2>1, <2>3, <2>4 DEF MainInv, Sending
  <2> QED
    BY <1>T, <2>5, <2>7, <2>8 DEF NonceInv
<1>9. ASSUME NEW s \in Signers, NEW t \in Txs, Lock(s, t) PROVE NonceInv'
  <2>1. s = Main /\ m.step = "ready" /\ m'.step = "getDbNonce" /\ m'.tx = t
    BY <1>9, <1>T, <1>M DEF Lock, At, TypeOK, Signer
  <2>2. UNCHANGED <<count, slot, item, nonceOf, boosting>> /\ status[t] = "new"
        /\ status' = [status EXCEPT ![t] = "sending"]
    BY <1>9 DEF Lock
  <2>3. \A u \in Txs : /\ u # t => status'[u] = status[u]
                       /\ status'[t] = "sending"
    BY <1>T, <2>2 DEF TypeOK
  <2>4. SentInv'
    BY <1>T, <2>1, <2>2, <2>3 DEF SentInv, Broadcast
  <2>5. MainInv'
    BY <1>T, <2>1, <2>2, <2>3 DEF MainInv, Sending
  <2> QED
    BY <1>T, <2>2, <2>4, <2>5 DEF NonceInv, AccountInv
<1>10. ASSUME NEW s \in Signers, GetDbNonce(s) PROVE NonceInv'
  <2>1. s = Main /\ m.step = "getDbNonce"
    BY <1>10, <1>T DEF GetDbNonce, At
  <2>2. m'.step = "send" /\ m'.tx = m.tx /\ m'.nonce = item.nonce
    BY <1>10, <1>T, <1>M, <2>1 DEF GetDbNonce, TypeOK, Signer
  <2>3. UNCHANGED <<count, slot, item, status, nonceOf, boosting>>
    BY <1>10 DEF GetDbNonce
  <2> QED
    BY <1>T, <2>1, <2>2, <2>3
    DEF NonceInv, AccountInv, SentInv, Broadcast, MainInv, Sending
<1>11. ASSUME NEW s \in Signers, Send(s) PROVE NonceInv'
  <2>1. s = Main /\ m.step = "send" /\ m.tx \in Txs /\ status[m.tx] = "sending"
        /\ m.nonce = item.nonce /\ item.nonce > 0
    BY <1>11, <1>T, <1>M DEF Send, At, Sending, MainInv
  <2> DEFINE t == m.tx
  <2>2. PICK n \in Nonces : /\ SendNonce(s, n) /\ n >= count
                            /\ slot' = [slot EXCEPT ![n] = t]
                            /\ nonceOf' = [nonceOf EXCEPT ![t] = n]
    BY <1>11, <2>1 DEF Send
  <2>3. n = item.nonce
    BY <1>M, <2>1, <2>2 DEF SendNonce, Item
  <2>4. m'.step = "incNonce" /\ m'.tx = t
    BY <1>11, <1>T, <1>M, <2>1 DEF Send, Goto, TypeOK, Signer
  <2>5. UNCHANGED <<count, item, status>> /\ boosting' = boosting \cup {t}
    BY <1>11, <2>1 DEF Send
  <2>6. slot'[n] = t /\ \A k \in Nonces \ {n} : slot'[k] = slot[k]
    BY <1>T, <2>2 DEF TypeOK
  <2>7. nonceOf'[t] = n /\ \A u \in Txs \ {t} : nonceOf'[u] = nonceOf[u]
    BY <1>T, <2>1, <2>2 DEF TypeOK
  <2>8. AccountInv'
    BY <1>T, <2>1, <2>5, <2>6, SignersAssumption DEF AccountInv
  <2>9. \A u \in Txs : status[u] = "sent" => /\ u # t /\ nonceOf[u] < n
                                             /\ nonceOf[u] \in Nonces \ {n}
    BY <1>T, <1>M, <2>1, <2>3 DEF SentInv, TypeOK, Item, Nonces
  <2>10. SentInv'
    <3>1. \A u \in boosting : status[u] = "sent"
      BY <1>T, <2>1 DEF SentInv, Broadcast, TypeOK
    <3> QED
      BY <1>T, <2>3, <2>4, <2>5, <2>6, <2>7, <2>9, <3>1 DEF SentInv, Broadcast
  <2>11. MainInv'
    BY <2>1, <2>3, <2>4, <2>5, <2>6, <2>7 DEF MainInv, Sending
  <2> QED
    BY <1>T, <2>8, <2>10, <2>11 DEF NonceInv
<1>12. ASSUME NEW s \in Signers, SendLosesResponse(s) PROVE NonceInv'
  <2>1. s = Main /\ m.step = "send" /\ m.tx \in Txs /\ status[m.tx] = "sending"
        /\ m.nonce = item.nonce /\ item.nonce > 0
    BY <1>12, <1>T, <1>M DEF SendLosesResponse, At, Sending, MainInv
  <2> DEFINE t == m.tx
  <2>2. PICK n \in Nonces : /\ SendNonce(s, n) /\ n >= count
                            /\ slot' = [slot EXCEPT ![n] = t]
    BY <1>12, <2>1 DEF SendLosesResponse
  <2>3. n = item.nonce
    BY <1>M, <2>1, <2>2 DEF SendNonce, Item
  <2>4. UNCHANGED <<count, item, nonceOf, boosting>>
    BY <1>12 DEF SendLosesResponse
  <2>5. slot'[n] = t /\ \A k \in Nonces \ {n} : slot'[k] = slot[k]
    BY <1>T, <2>2 DEF TypeOK
  <2>6. AccountInv'
    BY <1>T, <2>1, <2>4, <2>5, SignersAssumption DEF AccountInv
  <2>7. \A u \in Txs : status[u] = "sent" => u # t /\ nonceOf[u] \in Nonces \ {n}
    BY <1>T, <1>M, <2>1, <2>3 DEF SentInv, TypeOK, Item, Nonces
  <2>8. \A u \in boosting : u \in Txs /\ status[u] = "sent"
    BY <1>T, <2>1 DEF SentInv, Broadcast, TypeOK
  <2>9. CASE UNCHANGED <<status, signer>>
    BY <1>T, <2>1, <2>3, <2>4, <2>5, <2>6, <2>7, <2>8, <2>9
    DEF NonceInv, SentInv, Broadcast, MainInv, Sending
  <2>10. CASE Unlock(s, "failed")
    <3>1. /\ m'.step = "ready" /\ status'[t] = "failed"
          /\ \A u \in Txs \ {t} : status'[u] = status[u]
      BY <1>T, <1>M, <2>1, <2>10 DEF Unlock, TypeOK, Signer
    <3>2. \A u \in Txs : status'[u] = "sent" <=> status[u] = "sent"
      BY <2>1, <3>1
    <3>3. \A u \in Txs : status[u] = "sent" => slot'[nonceOf[u]] = slot[nonceOf[u]]
      BY <2>5, <2>7
    <3>4. SentInv'
      BY <1>T, <2>4, <2>8, <3>2, <3>3 DEF SentInv
    <3>5. MainInv'
      BY <2>1, <2>4, <3>1 DEF MainInv, Sending
    <3> QED
      BY <1>T, <2>6, <3>4, <3>5 DEF NonceInv
  <2> QED
    BY <1>12, <2>9, <2>10 DEF SendLosesResponse
<1>13. ASSUME NEW s \in Signers, SendFails(s) PROVE NonceInv'
  <2>1. s = Main /\ m.step = "send" /\ m.tx \in Txs /\ status[m.tx] = "sending"
        /\ item.nonce > 0
    BY <1>13, <1>T, <1>M DEF SendFails, At, Sending, MainInv
  <2>2. /\ m'.step = "ready" /\ status'[m.tx] = "failed"
        /\ \A u \in Txs \ {m.tx} : status'[u] = status[u]
    BY <1>13, <1>T, <1>M, <2>1 DEF SendFails, Unlock, TypeOK, Signer
  <2>3. UNCHANGED <<count, slot, item, nonceOf, boosting>>
    BY <1>13 DEF SendFails
  <2>4. /\ \A u \in Txs : status[u] = "sent" => u # m.tx
        /\ \A u \in boosting : u \in Txs /\ status[u] = "sent"
    BY <1>T, <2>1 DEF SentInv, Broadcast, TypeOK
  <2>5. \A u \in Txs : status'[u] = "sent" <=> status[u] = "sent"
    BY <2>1, <2>2
  <2>6. SentInv'
    BY <1>T, <2>3, <2>4, <2>5 DEF SentInv
  <2> QED
    BY <1>T, <2>1, <2>2, <2>3, <2>6 DEF NonceInv, AccountInv, MainInv, Sending
<1>14. ASSUME NEW s \in Signers, SendTooLow(s) PROVE NonceInv'
  <2>1. s = Main /\ m.step = "send" /\ status[m.tx] = "sending"
        /\ m.nonce = item.nonce /\ item.nonce > 0 /\ m.nonce < count
    BY <1>14, <1>T DEF SendTooLow, At, Sending, MainInv
  <2>2. m'.step = "tooLow" /\ m'.tx = m.tx
    BY <1>14, <1>T, <1>M, <2>1 DEF SendTooLow, Goto, TypeOK, Signer
  <2>3. UNCHANGED <<count, slot, item, status, nonceOf, boosting>>
    BY <1>14 DEF SendTooLow
  <2>4. item.nonce \in Nonces
    BY <1>T, <1>M, <2>1, NoncesAssumption DEF TypeOK, Nonces, Item
  <2> QED
    BY <1>T, <2>1, <2>2, <2>3, <2>4
    DEF NonceInv, AccountInv, SentInv, Broadcast, MainInv, Sending
<1>15. ASSUME NEW s \in Signers, IncNonce(s) PROVE NonceInv'
  <2>1. UNCHANGED <<count, slot, item, status, nonceOf, boosting>>
    BY <1>15 DEF IncNonce
  <2>2. s = Main /\ m'.tx = m.tx /\ m'.nonce = item.nonce
    BY <1>15, <1>T, <1>M DEF IncNonce, TypeOK, Signer
  <2>3. \/ m.step = "incNonce" /\ m'.step = "setDbNonce"
        \/ m.step = "tooLow" /\ m'.step = "tooLowSetDbNonce"
    BY <1>15, <1>T, <1>M DEF IncNonce, At, TypeOK, Signer
  <2> QED
    BY <1>T, <2>1, <2>2, <2>3
    DEF NonceInv, AccountInv, SentInv, Broadcast, MainInv, Sending
<1>16. ASSUME NEW s \in Signers, SetDbNonce(s) PROVE NonceInv'
  <2> DEFINE t == m.tx
  <2>1. s = Main /\ m.step \in {"setDbNonce", "tooLowSetDbNonce"}
    BY <1>16, <1>T DEF SetDbNonce, At
  <2>2. t \in Txs /\ status[t] = "sending" /\ m.nonce = item.nonce /\ item.nonce > 0
    BY <1>T, <1>M, <2>1 DEF MainInv, Sending
  <2>3. item'.nonce = item.nonce + 1 /\ item'.updated = "recently"
    BY <1>16, <2>1, <2>2 DEF SetDbNonce, SetNonce
  <2>4. /\ m'.step = "ready"
        /\ \A u \in Txs \ {t} : status'[u] = status[u]
        /\ status'[t] = "sent" => m.step = "setDbNonce"
        /\ status'[t] \in {"sent", "failed"}
        /\ m.step = "setDbNonce" => status'[t] = "sent"
    BY <1>16, <1>T, <1>M, <2>1, <2>2 DEF SetDbNonce, At, Unlock, TypeOK, Signer
  <2>5. UNCHANGED <<count, slot, nonceOf, boosting>>
    BY <1>16 DEF SetDbNonce
  <2>6. item.nonce \in Nonces /\ slot[item.nonce] # None
    BY <1>T, <2>1, <2>2, SignersAssumption DEF MainInv, TypeOK
  <2>7. AccountInv'
    BY <1>T, <1>M, <2>3, <2>5, <2>6, NoncesAssumption DEF AccountInv, Item, Nonces
  <2>8. \A u \in Txs : nonceOf[u] < item.nonce => nonceOf[u] < item.nonce + 1
    BY <1>T, <1>M DEF TypeOK, Item, Nonces
  <2>9. m.step = "setDbNonce" => nonceOf[t] = item.nonce /\ slot[item.nonce] = t
    BY <1>T DEF MainInv
  <2>10. item.nonce < item.nonce + 1 /\ item.nonce + 1 > 0
    BY <1>M DEF Item
  <2>11. SentInv'
    BY <1>T, <2>1, <2>2, <2>3, <2>4, <2>5, <2>8, <2>9, <2>10 DEF SentInv, Broadcast
  <2> QED
    BY <1>T, <2>3, <2>4, <2>7, <2>10, <2>11 DEF NonceInv, MainInv, Sending
<1>17. ASSUME NEW t \in Txs, Boost(t) PROVE NonceInv'
  BY <1>17, <1>T DEF Boost, SentInv
<1>18. CASE FiveMinutesPass
  <2>1. /\ item'.nonce = item.nonce
        /\ item'.updated = "longAgo" /\ item.updated = "recently"
    BY <1>18, <1>M DEF FiveMinutesPass, Item
  <2>2. UNCHANGED <<count, slot, signer, status, nonceOf, boosting>>
    BY <1>18 DEF FiveMinutesPass
  <2> QED
    BY <1>T, <2>1, <2>2 DEF NonceInv, AccountInv, SentInv, Broadcast, MainInv
<1>19. CASE Crash
  <2>1. m'.step = "shouldSetLatestNonce"
    BY <1>19, <1>T DEF Crash, NewSigner
  <2>2. UNCHANGED <<count, slot, item, nonceOf>> /\ boosting' = {}
    BY <1>19 DEF Crash
  <2>3. \A t \in Txs : status'[t] = "sent" => status[t] = "sent"
    BY <1>19 DEF Crash
  <2> QED
    BY <1>T, <2>1, <2>2, <2>3 DEF NonceInv, AccountInv, SentInv, MainInv, Sending
<1>20. ASSUME NEW t \in Txs, EndReorgWatch(t) PROVE NonceInv'
  BY <1>20, <1>T
  DEF EndReorgWatch, NonceInv, AccountInv, SentInv, Broadcast, MainInv, Sending
<1>21. CASE UNCHANGED vars
  BY <1>21, <1>T DEF vars, NonceInv, AccountInv, SentInv, Broadcast, MainInv
<1> QED
  BY <1>1, <1>2, <1>3, <1>4, <1>5, <1>6, <1>7, <1>8, <1>9, <1>10, <1>11, <1>12,
     <1>13, <1>14, <1>15, <1>16, <1>17, <1>18, <1>19, <1>20, <1>21
  DEF Next, Chain, Start, SendTransaction

\* A transaction that sendTransaction returned holds its nonce for good, when one
\* signer uses the db, the account had a transaction before the first start, the node
\* drops nothing, and the first start of all reaches the provider.
THEOREM SentNeverDisplaced == SingleSigner => (Spec => []SentIsNeverDisplaced)
<1> SUFFICES ASSUME SingleSigner PROVE Spec => []SentIsNeverDisplaced
  OBVIOUS
<1>1. Init => NonceInv
  BY InitNonce
<1>2. NonceInv /\ [Next]_vars => NonceInv'
  BY NonceInductive
<1>3. NonceInv => SentIsNeverDisplaced
  BY DEF NonceInv, SentInv, SentIsNeverDisplaced
<1> QED
  BY <1>1, <1>2, <1>3, PTL DEF Spec

\* Under the same conditions the next nonce never runs ahead of the account.
THEOREM NoGap == SingleSigner => (Spec => []NoNonceGap)
<1> SUFFICES ASSUME SingleSigner PROVE Spec => []NoNonceGap
  OBVIOUS
<1>1. Init => NonceInv
  BY InitNonce
<1>2. NonceInv /\ [Next]_vars => NonceInv'
  BY NonceInductive
<1>3. NonceInv => NoNonceGap
  BY DEF NonceInv, AccountInv, NoNonceGap
<1> QED
  BY <1>1, <1>2, <1>3, PTL DEF Spec

\* What a step of a single signer writes to the db, and to whom it returns.
LEMMA NonceStep ==
  ASSUME SingleSigner, NonceInv, Next
  PROVE  /\ item'.nonce >= item.nonce
         /\ \A t \in Txs : status[t] # "sent" /\ status'[t] = "sent" => nonceOf'[t] = item.nonce
<1> DEFINE m == signer[Main]
<1>T. TypeOK /\ Signers = {Main} /\ MainInv
  BY DEF NonceInv, SingleSigner, Signers
<1>M. m \in Signer /\ item.nonce \in Nat /\ (m.step \in Sending => m.tx \in Txs)
  BY <1>T DEF TypeOK, Item
<1> USE DEF chainVars, txVars
<1>1. ASSUME item' = item \/ FiveMinutesPass, \A t \in Txs : status'[t] = "sent" => status[t] = "sent"
      PROVE  /\ item'.nonce >= item.nonce
             /\ \A t \in Txs :
                  status[t] # "sent" /\ status'[t] = "sent" => nonceOf'[t] = item.nonce
  <2>1. item'.nonce = item.nonce
    BY <1>1, <1>T DEF FiveMinutesPass, TypeOK, Item
  <2> QED
    BY <1>1, <1>M, <2>1
<1>2. CASE Chain
  BY <1>1, <1>2 DEF Chain, Mine, ReorgChain, SendForeign, Evict
<1>3. ASSUME NEW t \in Txs, Boost(t) \/ EndReorgWatch(t) PROVE item' = item /\ status' = status
  BY <1>3 DEF Boost, EndReorgWatch
<1>4. CASE FiveMinutesPass
  BY <1>1, <1>4 DEF FiveMinutesPass
<1>5. CASE Crash
  BY <1>1, <1>5 DEF Crash
<1>6. ASSUME NEW s \in Signers,
             \/ Connect(s) \/ ShouldSetLatestNonce(s) \/ GetOnChainNonce(s)
             \/ GetDbNonce(s) \/ Send(s) \/ SendTooLow(s) \/ IncNonce(s)
      PROVE  item' = item /\ status' = status
  BY <1>6 DEF Connect, ShouldSetLatestNonce, GetOnChainNonce, GetDbNonce, Send, SendTooLow,
              IncNonce
<1>7. ASSUME NEW s \in Signers,
             SendLosesResponse(s) \/ SendFails(s) \/ \E t \in Txs : Lock(s, t)
      PROVE  /\ item' = item
             /\ \A t \in Txs : status'[t] = "sent" => status[t] = "sent"
  BY <1>7, <1>T DEF SendLosesResponse, SendFails, Unlock, Lock, TypeOK
<1>8. ASSUME NEW s \in Signers, SetLatestNonce(s)
      PROVE  item'.nonce >= item.nonce /\ status' = status
  <2>1. m.nonce >= item.nonce
    BY <1>8, <1>T DEF SetLatestNonce, At, MainInv
  <2> QED
    BY <1>8, <1>T, <2>1 DEF SetLatestNonce, SetNonce
<1>9. ASSUME NEW s \in Signers, SetDbNonce(s)
      PROVE  /\ item'.nonce >= item.nonce
             /\ \A t \in Txs :
                  status[t] # "sent" /\ status'[t] = "sent" => nonceOf'[t] = item.nonce
  <2>1. /\ s = Main /\ m.step \in {"setDbNonce", "tooLowSetDbNonce"}
        /\ m.nonce = item.nonce /\ m.tx \in Txs
    BY <1>9, <1>T, <1>M DEF SetDbNonce, At, MainInv, Sending
  <2>2. item'.nonce = item.nonce + 1
    BY <1>9, <2>1 DEF SetDbNonce, SetNonce
  <2>3. ASSUME NEW t \in Txs, status[t] # "sent", status'[t] = "sent"
        PROVE  nonceOf'[t] = item.nonce
    <3>1. t = m.tx /\ m.step = "setDbNonce"
      BY <1>9, <1>T, <2>1, <2>3 DEF SetDbNonce, At, Unlock, TypeOK
    <3>2. nonceOf'[t] = nonceOf[t]
      BY <1>9 DEF SetDbNonce
    <3> QED
      BY <1>T, <3>1, <3>2 DEF MainInv
  <2> QED
    BY <1>M, <2>2, <2>3
<1> QED
  BY <1>M, <1>1, <1>2, <1>3, <1>4, <1>5, <1>6, <1>7, <1>8, <1>9
  DEF Next, Start, SendTransaction

NonceOrder ==
  /\ item'.nonce >= item.nonce
  /\ \A t, u \in Txs : status[t] = "sent" /\ status[u] # "sent" /\ status'[u] = "sent"
                         => nonceOf[t] < nonceOf'[u]

\* Under the same conditions the nonce in the db never goes back, through restarts that
\* read it from the account, and transactions get their nonces in the order in which
\* sendTransaction returns them: none is handed a nonce at or below one that was returned.
THEOREM SentInNonceOrder == SingleSigner => (Spec => [][NonceOrder]_vars)
<1> SUFFICES ASSUME SingleSigner PROVE Spec => [][NonceOrder]_vars
  OBVIOUS
<1>1. Init => NonceInv
  BY InitNonce
<1>2. NonceInv /\ [Next]_vars => NonceInv'
  BY NonceInductive
<1>3. NonceInv /\ [Next]_vars => [NonceOrder]_vars
  BY NonceStep DEF NonceInv, SentInv, NonceOrder
<1> QED
  BY <1>1, <1>2, <1>3, PTL DEF Spec
=============================================================================
