------------------------ MODULE TransferRoots_proofs ------------------------
(***************************************************************************)
(* What this bonder sends for a transfer root, for any answers of its      *)
(* providers but those of one it can trust, and whatever events are lost.  *)
(***************************************************************************)
EXTENDS TransferRoots, TLAPS

Fields == {"bondedAt", "confirmedAt", "ids"}

LEMMA OrderType == \A f \in Fields : Order[f] \subseteq Fields
BY DEF Order, Fields

\* The poll goes on with a field it looks for, if there is one.
LEMMA NextOfMember ==
  ASSUME NEW fields \in SUBSET Fields
  PROVE  NextOf(fields) \in {"idle"} \cup fields
<1>1. CASE fields = {}  BY <1>1 DEF NextOf
<1>2. CASE "bondedAt" \in fields
  <2>1. Order["bondedAt"] \cap fields = {}  BY DEF Order
  <2> QED  BY <1>2, <2>1 DEF NextOf
<1>3. CASE "bondedAt" \notin fields /\ "confirmedAt" \in fields
  <2>1. Order["confirmedAt"] \cap fields = {}  BY <1>3 DEF Order
  <2> QED  BY <1>3, <2>1 DEF NextOf
<1>4. CASE fields = {"ids"}
  <2>1. Order["ids"] \cap fields = {}  BY <1>4 DEF Order
  <2> QED  BY <1>4, <2>1 DEF NextOf
<1> QED  BY <1>1, <1>2, <1>3, <1>4 DEF Fields

LEMMA NextOfType ==
  ASSUME NEW fields \in SUBSET Fields
  PROVE  NextOf(fields) \in {"idle"} \cup Fields
BY NextOfMember

LEMMA MissingType ==
  ASSUME NEW item
  PROVE  Missing(item) \in SUBSET Fields /\ Rest(item) \in SUBSET Fields
BY DEF Missing, Rest, Fields

-----------------------------------------------------------------------------
(* What the invariants say of the steps of a call. *)

\* A call that bonds is of a commit that is final and has not been given up.
CallInv ==
  /\ bonding.step # "idle" => age # "new" /\ db.backoff <= MaxBackoffIndex
  /\ bond.over => age # "new"

\* A bond of this bonder is of a commit that stays.
OrphanInv == "bond" \in mempool \/ bond.by = "self" => canonical /\ age # "new"

\* A root for the wrapper has a bond that nobody can challenge.
WrapperInv == "wrapper" \in mempool => canonical /\ age # "new" /\ BondStands

TypeInv == TypeOK /\ CallInv

\* The marks of an item.
Marks == {"committed", "bonded", "bondedAt", "confirmed", "confirmTx", "confirmedAt",
          "challenged", "set", "ids", "notFound"}

LEMMA Marked ==
  ASSUME NEW item \in Item, NEW f \in Marks
  PROVE  LET marked == [item EXCEPT ![f] = TRUE]
         IN  marked \in Item /\ marked.backoff = item.backoff
BY DEF Item, Marks

Call == [step : {"idle", "ask", "send"}, ids : BOOLEAN]

\* A call starts over, or goes on.
LEMMA CallType ==
  /\ IdleCall \in Call
  /\ \A c \in Call : [c EXCEPT !.step = "send"] \in Call
BY DEF Call, IdleCall

LEMMA InitTypeInv == Init => TypeInv
<1> SUFFICES ASSUME Init PROVE TypeInv  OBVIOUS
<1>1. db \in Item  BY BoundsAssumption DEF Init, Item
<1>2. bond \in [by : {"none", "self", "other"}, challenged : BOOLEAN, over : BOOLEAN]
  BY DEF Init
<1>3. bonding \in [step : {"idle", "ask", "send"}, ids : BOOLEAN]  BY DEF Init
<1>4. route \in [oru : BOOLEAN, relayable : BOOLEAN]
  BY BoundsAssumption DEF Init, AllRoutes
<1>5. CallInv  BY DEF Init, CallInv
<1> QED  BY <1>1, <1>2, <1>3, <1>4, <1>5 DEF Init, TypeInv, TypeOK, Ages, Events

\* The steps of the chains, one by one.
LEMMA ChainsTypeInv ==
  ASSUME TypeInv, Chains PROVE TypeInv'
<1> USE DEF TypeInv, TypeOK, CallInv, Ages, Events, chain, calls
<1>1. CASE PassTime  BY <1>1 DEF PassTime
<1>2. CASE Reorg  BY <1>2 DEF Reorg
<1>3. CASE PassChallengePeriod
  <2>1. bond' \in [by : {"none", "self", "other"}, challenged : BOOLEAN, over : BOOLEAN]
    BY <1>3 DEF PassChallengePeriod
  <2> QED  BY <1>3, <2>1 DEF PassChallengePeriod
<1>4. CASE OtherBonds  BY <1>4 DEF OtherBonds, BondIsTaken
<1>5. CASE Challenge  BY <1>5 DEF Challenge
<1>6. CASE OtherExits  BY <1>6 DEF OtherExits, IsConfirmed
<1>7. ASSUME NEW tx \in mempool, Mine(tx) PROVE TypeInv'
  <2>1. CASE BondIsTaken("self") /\ UNCHANGED confirmed
    BY <1>7, <2>1 DEF Mine, BondIsTaken
  <2>2. CASE IsConfirmed /\ UNCHANGED bond  BY <1>7, <2>2 DEF Mine, IsConfirmed
  <2>3. CASE UNCHANGED <<bond, confirmed, unread>>  BY <1>7, <2>3 DEF Mine
  <2> QED  BY <1>7, <2>1, <2>2, <2>3 DEF Mine
<1>8. CASE Deliver  BY <1>8 DEF Deliver, RootSet
<1> QED  BY <1>1, <1>2, <1>3, <1>4, <1>5, <1>6, <1>7, <1>8 DEF Chains

\* A handler or a step of the populate poll sets fields of the item.
LEMMA SyncTypeInv ==
  ASSUME TypeInv, Sync PROVE TypeInv'
<1> USE DEF TypeInv, TypeOK, CallInv, chain, calls
<1>1. ASSUME NEW e \in unread, Handle(e) PROVE TypeInv'
  <2>1. Handled(e) \in Item /\ Handled(e).backoff = db.backoff
    BY DEF Handled, Events, Item
  <2> QED  BY <1>1, <2>1 DEF Handle
<1>2. ASSUME NEW e \in unread, LoseEvent(e) PROVE TypeInv'  BY <1>2 DEF LoseEvent
<1>3. CASE PopulateTransferRootDbItem
  <2>1. populating' \in {"idle", "hide"} \cup Fields
    BY <1>3, NextOfType, MissingType DEF PopulateTransferRootDbItem
  <2> QED  BY <1>3, <2>1 DEF PopulateTransferRootDbItem, Fields
<1>4. CASE PopulateStep
  <2>1. populating' \in {"idle"} \cup Fields  BY <1>4, NextOfType, MissingType DEF PopulateStep
  <2>2. db' \in Item /\ db'.backoff = db.backoff
    <3> DEFINE f == IF populating = "hide" THEN "notFound" ELSE populating
    <3>1. f \in Marks  BY <1>4 DEF PopulateStep, Marks
    <3>2. db' = [db EXCEPT ![f] = TRUE]  BY <1>4 DEF PopulateStep
    <3> HIDE DEF f
    <3> QED  BY <3>1, <3>2, Marked
  <2>3. UNCHANGED <<chain, unread, lost, calls, emergencyDryMode>>  BY <1>4 DEF PopulateStep
  <2> QED  BY <2>1, <2>2, <2>3 DEF Fields
<1>5. CASE TransactionNotFound
  <2>1. populating' \in {"idle"} \cup Fields
    BY <1>5, NextOfType, MissingType DEF TransactionNotFound
  <2>2. db' \in Item /\ db'.backoff = db.backoff  BY <1>5 DEF TransactionNotFound, Item
  <2> QED  BY <1>5, <2>1, <2>2 DEF TransactionNotFound, Fields
<1> QED  BY <1>1, <1>2, <1>3, <1>4, <1>5 DEF Sync

\* The steps of the watchers' calls.  Only OutOfSync counts the backoff index up, and
\* BondStart is why there is room for it.
LEMMA WatchTypeInv ==
  ASSUME TypeInv, Watch \/ Crash PROVE TypeInv'
<1> USE DEF TypeInv, TypeOK, CallInv, chain, calls
<1>1. CASE BondStart  BY <1>1 DEF BondStart, UnlessBonding, IsUnbonded, Item, Ages
<1>2. CASE BondCheck
  <2>1. db' \in Item /\ db'.backoff = db.backoff
    BY <1>2, Marked DEF BondCheck, Marks
  <2>2. bonding' \in [step : {"idle", "ask", "send"}, ids : BOOLEAN]
    BY <1>2, CallType DEF BondCheck, Call
  <2>3. UNCHANGED <<chain, unread, lost, populating, confirming, relaying, emergencyDryMode>>
    BY <1>2 DEF BondCheck, UnlessBonding
  <2>4. bonding.step # "idle"  BY <1>2 DEF BondCheck
  <2> QED  BY <2>1, <2>2, <2>3, <2>4
<1>3. CASE BondSend
  <2>1. bonding' = IdleCall /\ UNCHANGED <<age, bond>>  BY <1>3 DEF BondSend
  <2>2. CASE OutOfSync
    <3>1. db' \in Item
      BY <1>3, <2>2, BoundsAssumption DEF BondSend, OutOfSync, Item
    <3> QED  BY <1>3, <2>1, <2>2, <3>1 DEF BondSend, OutOfSync, IdleCall
  <2>3. CASE PossibleReorg  BY <1>3, <2>1, <2>3 DEF BondSend, PossibleReorg, IdleCall
  <2>4. CASE SendBond  BY <1>3, <2>1, <2>4 DEF BondSend, SendBond, IdleCall
  <2> QED  BY <1>3, <2>2, <2>3, <2>4 DEF BondSend
<1>4. CASE ExitSeesConfirmed \/ CalculateUnbondedTransferRootAmounts
  <2>1. db' \in Item /\ db'.backoff = db.backoff
    BY <1>4, Marked DEF ExitSeesConfirmed, CalculateUnbondedTransferRootAmounts, Marks
  <2> QED  BY <1>4, <2>1 DEF ExitSeesConfirmed, CalculateUnbondedTransferRootAmounts
<1>5. CASE ExitSend  BY <1>5 DEF ExitSend
<1>6. CASE ConfirmStart \/ ConfirmCheck \/ ConfirmSend
  <2>1. db' \in Item /\ db'.backoff = db.backoff
    BY <1>6, Marked DEF ConfirmStart, ConfirmCheck, ConfirmSend, Marks
  <2>2. confirming' \in {"idle", "ask", "send"} /\ mempool' \subseteq {"bond", "exit", "wrapper"}
    BY <1>6 DEF ConfirmStart, ConfirmCheck, ConfirmSend
  <2>3. UnlessConfirming  BY <1>6 DEF ConfirmStart, ConfirmCheck, ConfirmSend
  <2> QED  BY <2>1, <2>2, <2>3 DEF UnlessConfirming
<1>7. CASE RelayStart \/ Redeem
  <2>1. db' \in Item /\ db'.backoff = db.backoff
    BY <1>7, Marked DEF RelayStart, Redeem, Marks
  <2>2. relaying' \in {"idle", "bond", "confirm"} /\ set' \in BOOLEAN /\ unread' \subseteq Events
    BY <1>7 DEF RelayStart, Redeem, L1TxHash, RootSet, Events
  <2>3. UnlessRelaying  BY <1>7 DEF RelayStart, Redeem
  <2> QED  BY <2>1, <2>2, <2>3 DEF UnlessRelaying
<1>8. CASE CallThrows
  <2>1. /\ bonding' \in {bonding, IdleCall}
        /\ confirming' \in {confirming, "idle"} /\ relaying' \in {relaying, "idle"}
    BY <1>8 DEF CallThrows
  <2>2. UNCHANGED <<chain, unread, lost, db, populating, emergencyDryMode>>
    BY <1>8 DEF CallThrows
  <2>3. bonding' \in Call /\ (bonding'.step = "idle" \/ bonding' = bonding)
    BY <2>1, CallType DEF Call, IdleCall
  <2> QED  BY <2>1, <2>2, <2>3 DEF Call
<1>9. CASE Crash  BY <1>9 DEF Crash, IdleCall
<1> QED  BY <1>1, <1>2, <1>3, <1>4, <1>5, <1>6, <1>7, <1>8, <1>9 DEF Watch

LEMMA NextTypeInv == TypeInv /\ [Next]_vars => TypeInv'
<1> SUFFICES ASSUME TypeInv, [Next]_vars PROVE TypeInv'  OBVIOUS
<1>1. CASE UNCHANGED vars
  BY <1>1 DEF vars, chain, calls, TypeInv, TypeOK, CallInv
<1> QED  BY <1>1, ChainsTypeInv, SyncTypeInv, WatchTypeInv DEF Next

LEMMA TypeInvariant == Spec => []TypeInv
BY InitTypeInv, NextTypeInv, PTL DEF Spec

\* Every variable stays within its values: the backoff index of a root stops one beyond two
\* weeks, because getUnbondedTransferRoots leaves the root alone from then on.
THEOREM TypeCorrect == Spec => []TypeOK
<1>1. TypeInv => TypeOK  BY DEF TypeInv
<1> QED  BY <1>1, TypeInvariant, PTL

-----------------------------------------------------------------------------

\* What is canonical, and final, stays so.
LEMMA FinalStays ==
  ASSUME TypeInv, [Next]_vars, canonical, age # "new"
  PROVE  canonical' /\ age' # "new"
<1> USE DEF chain
<1>1. CASE UNCHANGED vars  BY <1>1 DEF vars
<1>2. CASE Chains
  BY <1>2 DEF Chains, PassTime, Reorg, PassChallengePeriod, OtherBonds, Challenge, OtherExits,
              Mine, Deliver
<1>3. CASE Sync
  BY <1>3 DEF Sync, Handle, LoseEvent, PopulateTransferRootDbItem, PopulateStep,
              TransactionNotFound
<1>4. CASE Watch
  BY <1>4 DEF Watch, BondStart, BondCheck, BondSend, UnlessBonding, ExitSeesConfirmed, ExitSend,
              ConfirmStart, ConfirmCheck, ConfirmSend, UnlessConfirming, RelayStart,
              Redeem, UnlessRelaying, CalculateUnbondedTransferRootAmounts, CallThrows
<1>5. CASE Crash  BY <1>5 DEF Crash
<1> QED  BY <1>1, <1>2, <1>3, <1>4, <1>5 DEF Next

\* Transactions are sent by three steps, and a bond is taken or challenged by those of L1.
LEMMA SentBy ==
  ASSUME TypeInv, [Next]_vars
  PROVE  /\ "bond" \in mempool' => "bond" \in mempool \/ (BondSend /\ SendBond)
         /\ "wrapper" \in mempool' => "wrapper" \in mempool \/ ConfirmSend
         /\ bond'.by = "self" => bond.by = "self" \/ "bond" \in mempool
         /\ BondStands => BondStands'
<1> USE DEF chain
<1>1. CASE UNCHANGED vars  BY <1>1 DEF vars, BondStands
<1>2. CASE Chains
  <2> USE DEF TypeInv, TypeOK, BondStands
  <2>1. ASSUME NEW tx \in mempool, Mine(tx)
        PROVE  /\ "bond" \in mempool' => "bond" \in mempool
               /\ "wrapper" \in mempool' => "wrapper" \in mempool
               /\ bond'.by = "self" => bond.by = "self" \/ "bond" \in mempool
               /\ BondStands => BondStands'
    <3>1. CASE tx = "bond" /\ bond.by = "none" /\ BondIsTaken("self")
      BY <2>1, <3>1 DEF Mine, BondIsTaken
    <3>2. CASE UNCHANGED bond  BY <2>1, <3>2 DEF Mine
    <3> QED  BY <2>1, <3>1, <3>2 DEF Mine, Succeeds
  <2>2. CASE PassTime \/ Reorg \/ OtherExits \/ Deliver
    BY <2>2 DEF PassTime, Reorg, OtherExits, Deliver
  <2>3. CASE PassChallengePeriod \/ OtherBonds \/ Challenge
    BY <2>3 DEF PassChallengePeriod, OtherBonds, BondIsTaken, Challenge
  <2> QED  BY <1>2, <2>1, <2>2, <2>3 DEF Chains
<1>3. CASE Sync
  BY <1>3 DEF Sync, Handle, LoseEvent, PopulateTransferRootDbItem, PopulateStep,
              TransactionNotFound, BondStands
<1>4. CASE Watch
  <2>1. CASE BondSend
    BY <2>1 DEF BondSend, OutOfSync, PossibleReorg, SendBond, BondStands
  <2>2. CASE ConfirmSend  BY <2>2 DEF ConfirmSend, UnlessConfirming, BondStands
  <2>3. CASE ExitSend  BY <2>3 DEF ExitSend, BondStands
  <2>4. CASE BondStart \/ BondCheck \/ ExitSeesConfirmed \/ ConfirmStart \/ ConfirmCheck
    BY <2>4 DEF BondStart, BondCheck, UnlessBonding, ExitSeesConfirmed, ConfirmStart,
                ConfirmCheck, UnlessConfirming, BondStands
  <2>5. CASE RelayStart \/ Redeem \/ CalculateUnbondedTransferRootAmounts
               \/ CallThrows
    BY <2>5 DEF RelayStart, Redeem, UnlessRelaying, CallThrows, BondStands,
                CalculateUnbondedTransferRootAmounts
  <2> QED  BY <1>4, <2>1, <2>2, <2>3, <2>4, <2>5 DEF Watch
<1>5. CASE Crash  BY <1>5 DEF Crash, BondStands
<1> QED  BY <1>1, <1>2, <1>3, <1>4, <1>5 DEF Next

\* A trusted provider has the event only of a root that is on the chain.
LEMMA SendBondIsCanonical ==
  ASSUME TypeInv, TrustedRpcs # {}, BondSend, SendBond
  PROVE  canonical /\ age # "new"
<1>1. PICK r \in TrustedRpcs : r \in RedundantRpcs  BY RpcAssumption
<1>2. Answers(r) \cap {"down", "match"} # {}  BY <1>1 DEF SendBond
<1>3. canonical  BY <1>1, <1>2 DEF Answers
<1> QED  BY <1>3 DEF BondSend, TypeInv, CallInv

\* With a provider that can be trusted, no root that a reorg took is ever bonded by this
\* bonder, whatever the others answer.
THEOREM OrphanNeverBonded ==
  ASSUME TrustedRpcs # {} PROVE Spec => []OrphanIsNeverBonded
<1>1. Init => OrphanInv  BY DEF Init, OrphanInv
<1>2. TypeInv /\ OrphanInv /\ [Next]_vars => OrphanInv'
  <2> SUFFICES ASSUME TypeInv, OrphanInv, [Next]_vars,
                      "bond" \in mempool' \/ bond'.by = "self"
               PROVE  canonical' /\ age' # "new"
    BY DEF OrphanInv
  <2>1. CASE "bond" \in mempool \/ bond.by = "self"
    BY <2>1, FinalStays DEF OrphanInv
  <2>2. CASE BondSend /\ SendBond  BY <2>2, SendBondIsCanonical, FinalStays
  <2> QED  BY <2>1, <2>2, SentBy
<1>3. OrphanInv => OrphanIsNeverBonded  BY DEF OrphanInv, OrphanIsNeverBonded
<1> QED  BY <1>1, <1>2, <1>3, TypeInvariant, PTL DEF Spec

\* A root that was sent to the wrapper keeps a bond that nobody can challenge, also when the
\* event of a challenge is late or lost.
THEOREM WrapperStanding == Spec => []WrapperConfirmsStanding
<1>1. Init => WrapperInv  BY DEF Init, WrapperInv
<1>2. TypeInv /\ WrapperInv /\ [Next]_vars => WrapperInv'
  <2> SUFFICES ASSUME TypeInv, WrapperInv, [Next]_vars, "wrapper" \in mempool'
               PROVE  (canonical /\ age # "new" /\ BondStands)'
    BY DEF WrapperInv
  <2>1. canonical /\ age # "new" /\ BondStands
    <3>1. CASE "wrapper" \in mempool  BY <3>1 DEF WrapperInv
    <3>2. CASE ConfirmSend
      BY <3>2 DEF ConfirmSend, BondStands, TypeInv, CallInv
    <3> QED  BY <3>1, <3>2, SentBy
  <2> QED  BY <2>1, FinalStays, SentBy
<1>3. WrapperInv => WrapperConfirmsStanding  BY DEF WrapperInv, WrapperConfirmsStanding
<1> QED  BY <1>1, <1>2, <1>3, TypeInvariant, PTL DEF Spec
-----------------------------------------------------------------------------
(* A root is hidden only once it is on L1. *)

\* What the db knows of L1, or is still to be told, happened there.
EventsInv ==
  /\ "bonded" \in unread \/ db.bonded => bond.by # "none"
  /\ "challenged" \in unread \/ db.challenged => bond.by # "none"
  /\ "confirmed" \in unread \/ db.confirmed \/ db.confirmTx => confirmed
  /\ "set" \in unread \/ db.set \/ set => Carrier # "none"

\* The populate poll is at a field for which it has what it looks with.
PopulatingInv ==
  /\ populating = "hide" => Carrier # "none"
  /\ populating = "bondedAt" => db.bonded
  /\ populating = "confirmedAt" => db.confirmTx
  /\ populating = "ids" => ~db.ids

\* A root that is hidden without being on L1 never gets its transfers: the poll that looked
\* for them in vain is over, and no other takes up a hidden root.
HiddenInv == db.notFound => Carrier # "none" \/ (populating = "idle" /\ ~db.ids)

MarksInv == TypeInv /\ EventsInv /\ PopulatingInv /\ HiddenInv

LEMMA NotFoundMark ==
  ASSUME NEW item \in Item
  PROVE  LET marked == [item EXCEPT !.notFound = TRUE]
         IN  /\ marked.notFound
             /\ \A f \in Marks \ {"notFound"} : marked[f] = item[f]
BY DEF Item, Marks

\* Where the populate poll goes on.
LEMMA GoesOn ==
  ASSUME NEW item, NEW fields \in {Missing(item), Rest(item)}
  PROVE  /\ NextOf(fields) = "bondedAt" => item.bonded
         /\ NextOf(fields) = "confirmedAt" => item.confirmTx
         /\ NextOf(fields) = "ids" => ~item.ids
         /\ NextOf(fields) # "hide"
<1>1. fields \in SUBSET Fields  BY MissingType
<1>2. NextOf(fields) \in {"idle"} \cup fields  BY <1>1, NextOfMember
<1>3. fields \subseteq Missing(item)  BY DEF Rest
<1>4. \A f \in Missing(item) : /\ f = "bondedAt" => item.bonded
                               /\ f = "confirmedAt" => item.confirmTx
                               /\ f = "ids" => ~item.ids
                               /\ f # "hide"
  <2> TAKE f \in Missing(item)
  <2>1. CASE f = "bondedAt"  BY <2>1 DEF Missing
  <2>2. CASE f = "confirmedAt"  BY <2>2 DEF Missing
  <2>3. CASE f = "ids"  BY <2>3 DEF Missing
  <2> QED  BY <2>1, <2>2, <2>3 DEF Missing
<1> QED  BY <1>2, <1>3, <1>4

\* After the transfers, or the mark of an unknown source chain, the poll is over.
LEMMA PollEnds ==
  ASSUME NEW item, populating \in {"ids", "hide"} PROVE NextOf(Rest(item)) = "idle"
<1>1. \A f \in Fields : populating \notin Order[f]  BY DEF Fields, Order
<1>2. Rest(item) = {}  BY <1>1, MissingType DEF Rest, Missing, Fields
<1> QED  BY <1>2 DEF NextOf

\* The chains tell of what they do, and what happened on L1 stays.
LEMMA ChainsMarksInv ==
  ASSUME MarksInv, Chains PROVE EventsInv' /\ PopulatingInv' /\ HiddenInv'
<1> USE DEF MarksInv, EventsInv, PopulatingInv, HiddenInv, Carrier, calls
<1>1. CASE PassTime \/ Reorg \/ OtherExits \/ Deliver
  BY <1>1 DEF PassTime, Reorg, OtherExits, IsConfirmed, Deliver, RootSet
<1>2. CASE PassChallengePeriod \/ OtherBonds \/ Challenge
  BY <1>2 DEF PassChallengePeriod, OtherBonds, BondIsTaken, Challenge, TypeInv, TypeOK
<1>3. ASSUME NEW tx \in mempool, Mine(tx) PROVE EventsInv' /\ PopulatingInv' /\ HiddenInv'
  BY <1>3 DEF Mine, Succeeds, BondIsTaken, IsConfirmed, TypeInv, TypeOK
<1> QED  BY <1>1, <1>2, <1>3 DEF Chains

\* A handler writes what its event says; the poll marks what it has looked for in vain.
LEMMA SyncMarksInv ==
  ASSUME MarksInv, Sync PROVE EventsInv' /\ PopulatingInv' /\ HiddenInv'
<1> USE DEF MarksInv, EventsInv, PopulatingInv, HiddenInv, chain, calls
<1>0. db \in Item /\ populating \in {"idle", "hide", "bondedAt", "confirmedAt", "ids"}
  BY DEF TypeInv, TypeOK
<1>1. ASSUME NEW e \in unread, Handle(e)
      PROVE  EventsInv' /\ PopulatingInv' /\ HiddenInv'
  <2>1. e \in Events  BY DEF TypeInv, TypeOK
  <2>2. /\ UNCHANGED <<bond, confirmed, set, populating>>
        /\ unread' = unread \ {e} /\ db' = Handled(e)
    BY <1>1 DEF Handle
  <2>3. Carrier' = Carrier  BY <2>2 DEF Carrier
  <2>4. /\ db'.bonded => db.bonded \/ e = "bonded"
        /\ db'.challenged => db.challenged \/ e = "challenged"
        /\ db'.confirmed => db.confirmed \/ e = "confirmed"
        /\ db'.confirmTx => db.confirmTx \/ e = "confirmed"
        /\ db'.set => db.set \/ e = "set"
        /\ (db.bonded => db'.bonded) /\ (db.confirmTx => db'.confirmTx)
        /\ db'.ids = db.ids /\ db'.notFound = db.notFound
    BY <1>0, <2>1, <2>2 DEF Handled, Events, Item
  <2> QED  BY <2>2, <2>3, <2>4
<1>2. ASSUME NEW e \in unread, LoseEvent(e)
      PROVE  EventsInv' /\ PopulatingInv' /\ HiddenInv'
  BY <1>2 DEF LoseEvent, Carrier
<1>3. CASE PopulateTransferRootDbItem
  <2>1. UNCHANGED <<bond, confirmed, set, unread, db>> /\ populating = "idle" /\ ~db.notFound
    BY <1>3 DEF PopulateTransferRootDbItem, IsItemIncomplete
  <2>2. Carrier' = Carrier  BY <2>1 DEF Carrier
  <2>3. CASE db.committed
    <3>1. populating' = NextOf(Missing(db))  BY <1>3, <2>3 DEF PopulateTransferRootDbItem
    <3> QED  BY <2>1, <2>2, <3>1, GoesOn
  <2>4. CASE ~db.committed
    <3>1. populating' = "hide"  BY <1>3, <2>4 DEF PopulateTransferRootDbItem
    <3>2. Carrier # "none"
      BY <1>3, <2>4 DEF PopulateTransferRootDbItem, IsItemIncomplete, Carrier
    <3> QED  BY <2>1, <2>2, <3>1, <3>2
  <2> QED  BY <2>3, <2>4
<1>4. CASE PopulateStep
  <2> DEFINE f == IF populating = "hide" THEN "notFound" ELSE populating
  <2>1. /\ UNCHANGED <<bond, confirmed, set, unread>> /\ populating # "idle"
        /\ db' = [db EXCEPT ![f] = TRUE] /\ populating' = NextOf(Rest(db'))
    BY <1>4 DEF PopulateStep
  <2>2. Carrier' = Carrier  BY <2>1 DEF Carrier
  <2>3. f \in {"notFound", "bondedAt", "confirmedAt", "ids"}  BY <1>0, <2>1
  <2>4. f = "notFound" => populating = "hide"  BY <1>0
  <2> HIDE DEF f
  <2>5. /\ \A g \in {"bonded", "challenged", "confirmed", "confirmTx", "set"} : db'[g] = db[g]
        /\ db'.notFound => db.notFound \/ f = "notFound"
    BY <1>0, <2>1, <2>3 DEF Item
  <2>6. EventsInv'  BY <2>1, <2>2, <2>5
  <2>7. PopulatingInv'  BY <2>1, GoesOn
  <2>8. HiddenInv'  BY <2>1, <2>2, <2>4, <2>5
  <2> QED  BY <2>6, <2>7, <2>8
<1>5. CASE TransactionNotFound
  <2>1. /\ UNCHANGED <<bond, confirmed, set, unread>>
        /\ populating \in {"bondedAt", "confirmedAt", "ids"}
        /\ db' = [db EXCEPT !.notFound = TRUE] /\ populating' = NextOf(Rest(db))
    BY <1>5 DEF TransactionNotFound
  <2>2. Carrier' = Carrier  BY <2>1 DEF Carrier
  <2>3. \A g \in Marks \ {"notFound"} : db'[g] = db[g]  BY <1>0, <2>1, NotFoundMark
  <2>4. EventsInv'  BY <2>1, <2>2, <2>3 DEF Marks
  <2>5. PopulatingInv'  BY <2>1, <2>3, GoesOn DEF Marks
  <2>6. Carrier # "none" \/ populating = "ids"
    BY <2>1 DEF Carrier
  <2>7. populating = "ids" => populating' = "idle" /\ ~db'.ids
    BY <2>1, <2>3, PollEnds DEF Marks
  <2> QED  BY <2>2, <2>4, <2>5, <2>6, <2>7
<1> QED  BY <1>1, <1>2, <1>3, <1>4, <1>5 DEF Sync

\* The watchers mark only roots that L1 told them of.
LEMMA WatchMarksInv ==
  ASSUME MarksInv, Watch \/ Crash PROVE EventsInv' /\ PopulatingInv' /\ HiddenInv'
<1> USE DEF MarksInv, EventsInv, PopulatingInv, HiddenInv, chain, calls
<1>0. db \in Item  BY DEF TypeInv, TypeOK
\* A step that leaves L1 and the events alone, and what the invariant says of the item.
<1>1. ASSUME UNCHANGED <<bond, confirmed, set, unread, populating>>,
             db' = db \/ \E n \in 0..(MaxBackoffIndex + 1) : db' = [db EXCEPT !.backoff = n]
      PROVE  EventsInv' /\ PopulatingInv' /\ HiddenInv'
  <2>1. \A g \in Marks : db'[g] = db[g]  BY <1>0, <1>1 DEF Item, Marks
  <2> QED  BY <1>1, <2>1 DEF Carrier, Marks
\* A step that marks a root as hidden.
<1>2. ASSUME UNCHANGED <<bond, confirmed, set, unread, populating>>,
             Carrier # "none", db' = [db EXCEPT !.notFound = TRUE]
      PROVE  EventsInv' /\ PopulatingInv' /\ HiddenInv'
  <2>1. \A g \in Marks \ {"notFound"} : db'[g] = db[g]  BY <1>0, <1>2, NotFoundMark
  <2> QED  BY <1>2, <2>1 DEF Carrier, Marks
\* A step that marks it as confirmed.
<1>3. ASSUME UNCHANGED <<bond, confirmed, set, unread, populating>>,
             confirmed, db' = [db EXCEPT !.confirmed = TRUE]
      PROVE  EventsInv' /\ PopulatingInv' /\ HiddenInv'
  <2>1. \A g \in Marks \ {"confirmed"} : db'[g] = db[g]  BY <1>0, <1>3 DEF Item, Marks
  <2> QED  BY <1>3, <2>1 DEF Carrier, Marks
<1>4. CASE BondStart  BY <1>1, <1>4 DEF BondStart, UnlessBonding
<1>5. CASE BondCheck
  <2>1. UNCHANGED <<bond, confirmed, set, unread, populating>>
    BY <1>5 DEF BondCheck, UnlessBonding
  <2>2. \/ db' = db
        \/ bond.by # "none" /\ db' = [db EXCEPT !.notFound = TRUE]
    BY <1>5 DEF BondCheck
  <2> QED  BY <1>1, <1>2, <2>1, <2>2 DEF Carrier
<1>6. CASE BondSend
  <2>1. UNCHANGED <<bond, confirmed, set, unread, populating>>  BY <1>6 DEF BondSend
  <2>2. db' = db \/ db' = [db EXCEPT !.backoff = db.backoff + 1]
    BY <1>6 DEF BondSend, OutOfSync, PossibleReorg, SendBond
  <2>3. db.backoff + 1 \in 0..(MaxBackoffIndex + 1)
    BY <1>0, <1>6, BoundsAssumption DEF BondSend, TypeInv, CallInv, Item
  <2> QED  BY <1>1, <2>1, <2>2, <2>3
<1>7. CASE ExitSeesConfirmed  BY <1>3, <1>7 DEF ExitSeesConfirmed
<1>8. CASE ExitSend  BY <1>1, <1>8 DEF ExitSend
<1>9. CASE ConfirmStart \/ ConfirmCheck \/ ConfirmSend
  BY <1>1, <1>3, <1>9 DEF ConfirmStart, ConfirmCheck, ConfirmSend, UnlessConfirming
<1>10. CASE RelayStart  BY <1>1, <1>10 DEF RelayStart, UnlessRelaying
<1>11. CASE Redeem
  <2>1. /\ UNCHANGED <<bond, confirmed, db, populating>> /\ Carrier # "none"
        /\ unread' = unread \cup {"set"}
    BY <1>11 DEF Redeem, RootSet, UnlessRelaying, TypeInv, TypeOK
  <2> QED  BY <2>1 DEF Carrier
<1>12. CASE CalculateUnbondedTransferRootAmounts
  BY <1>2, <1>12 DEF CalculateUnbondedTransferRootAmounts, Carrier
<1>13. CASE CallThrows  BY <1>1, <1>13 DEF CallThrows
<1>14. CASE Crash  BY <1>14 DEF Crash, Carrier
<1> QED
  BY <1>4, <1>5, <1>6, <1>7, <1>8, <1>9, <1>10, <1>11, <1>12, <1>13, <1>14 DEF Watch

\* No root that could still be bonded is hidden from BondTransferRootWatcher: whoever marks a
\* root whose transfers are known, and whatever events are late or lost, it is on L1.
THEOREM HiddenOnL1 == Spec => []HiddenIsOnL1
<1>1. Init => MarksInv
  <2>1. Init => EventsInv /\ PopulatingInv /\ HiddenInv
    BY DEF Init, EventsInv, PopulatingInv, HiddenInv
  <2> QED  BY <2>1, InitTypeInv DEF MarksInv
<1>2. MarksInv /\ [Next]_vars => MarksInv'
  <2> SUFFICES ASSUME MarksInv, [Next]_vars PROVE EventsInv' /\ PopulatingInv' /\ HiddenInv'
    BY NextTypeInv DEF MarksInv
  <2>1. CASE UNCHANGED vars
    BY <2>1 DEF vars, chain, MarksInv, EventsInv, PopulatingInv, HiddenInv, Carrier
  <2> QED  BY <2>1, ChainsMarksInv, SyncMarksInv, WatchMarksInv DEF Next
<1>3. MarksInv => HiddenIsOnL1  BY DEF MarksInv, HiddenInv, HiddenIsOnL1
<1> QED  BY <1>1, <1>2, <1>3, PTL DEF Spec
=============================================================================
