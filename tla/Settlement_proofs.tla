------------------------- MODULE Settlement_proofs -------------------------
(***************************************************************************)
(* The marks that Settlement leaves in the db agree with the chain, for    *)
(* every number of transfers and bonders and whatever goes wrong.          *)
(***************************************************************************)
EXTENDS Settlement, TLAPS

UnreadType == [sent : SUBSET Transfers, bonded : SUBSET Transfers,
               withdrew : SUBSET Transfers, settled : SUBSET SettledEvent,
               committed : BOOLEAN, rootSet : BOOLEAN]

PollType == [step : {"idle", "read", "ask"}, unread : SUBSET Transfers,
             bonded : BOOLEAN, open : BOOLEAN, bonders : SUBSET Bonders]

ChainType == /\ bond \in [Transfers -> Bonders \cup {None}]
             /\ cleared \subseteq Transfers /\ withdrawn \subseteq Transfers
             /\ settlements \subseteq SettledEvent
             /\ mempool \subseteq Bonders /\ recent \in BOOLEAN

LEMMA TypeParts ==
  TypeOK <=> /\ ChainType
             /\ unread \in UnreadType
             /\ db \in [Transfers -> Item]
             /\ root \in Root
             /\ stored \subseteq SettledEvent
             /\ checks \subseteq Check
             /\ poll \in PollType
             /\ faults \in Nat
BY DEF TypeOK, ChainType, UnreadType, PollType

LEMMA IdleType == Idle \in PollType /\ Idle.step = "idle"
BY DEF Idle, PollType

LEMMA InitType == Init => TypeOK
<1> SUFFICES ASSUME Init PROVE TypeOK  OBVIOUS
<1>1. ChainType  BY DEF Init, ChainType
<1>2. unread \in UnreadType  BY DEF Init, UnreadType
<1>3. db \in [Transfers -> Item]  BY DEF Init, Item
<1>4. root \in Root  BY DEF Init, Root
<1>5. stored \subseteq SettledEvent /\ checks \subseteq Check /\ faults \in Nat
  BY DEF Init
<1>6. poll \in PollType  BY IdleType DEF Init
<1> QED  BY <1>1, <1>2, <1>3, <1>4, <1>5, <1>6, TypeParts

\* What is read of an item, a check or a poll keeps its type.
LEMMA NewCheckType ==
  ASSUME NEW by \in {"event", "root"}, NEW e \in SettledEvent, NEW events
  PROVE  LET c == CheckTransferRootSettledState(by, e, events)
         IN  /\ c \in Check /\ c.event = e /\ ~c.read /\ c.settle = {}
             /\ c.full = SumIsTotal(events)
BY DEF CheckTransferRootSettledState, Check, SumIsTotal

LEMMA SeenType ==
  ASSUME poll \in PollType, NEW item \in Item
  PROVE  /\ Seen(item) \in PollType
         /\ Seen(item).step = poll.step /\ Seen(item).unread = poll.unread
         /\ Seen(item).open = (poll.open \/ ~IsDone(item))
BY DEF Seen, PollType, Item, IsDone

LEMMA DecideType ==
  ASSUME NEW seen \in PollType
  PROVE  Decide(seen) \in PollType /\ Decide(seen).step # "read"
BY DEF Decide, Idle, PollType

LEMMA AskedType ==
  ASSUME poll \in PollType, NEW b \in Bonders, Asked(b)
  PROVE  poll' \in PollType /\ poll'.step # "read"
BY DEF Asked, Idle, PollType

\* What CheckRead leaves of a check: it has been read, it will write as settled only the
\* transfers with the bonder of its event, and it is open if a transfer is.
LEMMA ReadCheck ==
  ASSUME checks \subseteq Check, db \in [Transfers -> Item], NEW c, CheckRead(c)
  PROVE  \E c2 \in Check :
           /\ checks' = (checks \ {c}) \cup {c2}
           /\ c2.read /\ c2.full = c.full /\ c2.event = c.event
           /\ \A t \in c2.settle : db[t].bonded /\ db[t].bonder = c.event.bonder
           /\ c2.open = \E t \in Transfers : ~IsDone(db[t])
<1> DEFINE unsettled == {t \in Transfers : ~db[t].settled}
           settle == {t \in unsettled : db[t].bonded /\ db[t].bonder = c.event.bonder}
           isOpen == \E t \in Transfers : ~IsDone(db[t])
           c2 == [c EXCEPT !.read = TRUE, !.settle = settle,
                           !.unsettle = unsettled \ settle, !.open = isOpen]
<1>1. checks' = (checks \ {c}) \cup {c2} /\ c \in Check  BY DEF CheckRead
<1>2. settle \subseteq Transfers /\ unsettled \subseteq Transfers /\ isOpen \in BOOLEAN
  OBVIOUS
<1>3. \A t \in settle : db[t].bonded /\ db[t].bonder = c.event.bonder  OBVIOUS
<1> HIDE DEF settle, unsettled, isOpen
<1>4. c2 \in Check  BY <1>1, <1>2 DEF Check
<1>5. /\ c2.read /\ c2.full = c.full /\ c2.event = c.event /\ c2.settle = settle
      /\ c2.open = isOpen
  BY <1>1 DEF Check
<1>6. c2.open = \E t \in Transfers : ~IsDone(db[t])  BY <1>5 DEF isOpen
<1> HIDE DEF c2
<1> QED  BY <1>1, <1>3, <1>4, <1>5, <1>6

\* A handler writes one item, or stores an event and may start a check.
LEMMA HandlerTypes ==
  ASSUME TypeOK
  PROVE  /\ \A t \in Transfers : TransferSent(t) \/ WithdrawalBonded(t) \/ Withdrew(t)
              => /\ db' \in [Transfers -> Item] /\ UNCHANGED <<stored, checks>>
         /\ \A e \in SettledEvent : MultipleWithdrawalsSettled(e)
              => /\ stored' \subseteq SettledEvent /\ checks' \subseteq Check
                 /\ UNCHANGED db
<1>1. ASSUME NEW t \in Transfers, TransferSent(t) \/ WithdrawalBonded(t) \/ Withdrew(t)
      PROVE  db' \in [Transfers -> Item] /\ UNCHANGED <<stored, checks>>
  <2>1. db \in [Transfers -> Item] /\ db[t] \in Item  BY TypeParts
  <2>2. UNCHANGED <<stored, checks>>  BY <1>1 DEF TransferSent, WithdrawalBonded, Withdrew
  <2>3. CASE TransferSent(t)
    <3> DEFINE isUnbondable == t \in Unbondable
               item == [[db[t] EXCEPT !.sent = TRUE] EXCEPT !.unbondable = isUnbondable]
    <3>1. isUnbondable \in BOOLEAN  OBVIOUS
    <3>2. db' = [db EXCEPT ![t] = item]  BY <2>1, <2>3 DEF TransferSent, Item
    <3> HIDE DEF isUnbondable
    <3>3. item \in Item  BY <2>1, <3>1 DEF Item
    <3> HIDE DEF item
    <3> QED  BY <2>1, <2>2, <3>2, <3>3
  <2>4. CASE WithdrawalBonded(t)  BY <2>1, <2>2, <2>4 DEF WithdrawalBonded, Item
  <2>5. CASE Withdrew(t)  BY <2>1, <2>2, <2>5 DEF Withdrew, Item
  <2> QED  BY <1>1, <2>3, <2>4, <2>5
<1>2. ASSUME NEW e \in SettledEvent, MultipleWithdrawalsSettled(e)
      PROVE  /\ stored' \subseteq SettledEvent /\ checks' \subseteq Check
             /\ UNCHANGED db
  <2>1. CheckTransferRootSettledState("event", e, stored') \in Check  BY NewCheckType
  <2> QED  BY <1>2, <2>1, TypeParts DEF MultipleWithdrawalsSettled
<1> QED  BY <1>1, <1>2

LEMMA ChainStepType == TypeOK /\ DestinationChain => TypeOK'
<1> SUFFICES ASSUME TypeOK, DestinationChain PROVE TypeOK'  OBVIOUS
<1>1. ChainType /\ unread \in UnreadType  BY TypeParts
<1>2. ASSUME NEW t \in Transfers, NEW b \in Bonders, Bond(t, b) PROVE TypeOK'
  <2>1. ChainType' /\ unread' \in UnreadType
    BY <1>1, <1>2 DEF Bond, ChainType, UnreadType
  <2> QED  BY <1>2, <2>1, TypeParts DEF Bond, TypeOK, UnreadType, ChainType
<1>3. ASSUME NEW t \in Transfers, Withdraw(t) PROVE TypeOK'
  <2>1. ChainType' /\ unread' \in UnreadType
    BY <1>1, <1>3 DEF Withdraw, ChainType, UnreadType
  <2> QED  BY <1>3, <2>1, TypeParts DEF Withdraw, TypeOK, UnreadType, ChainType
<1>4. ASSUME NEW b \in Bonders, Settle(b) PROVE TypeOK'
  <2> DEFINE bonds == {t \in Transfers : bond[t] = b}
             event == [bonder |-> b, transfers |-> bonds \ cleared]
  <2>1. event \in SettledEvent  BY DEF SettledEvent
  <2>2. /\ cleared' = cleared \cup bonds /\ settlements' = settlements \cup {event}
        /\ unread' = [unread EXCEPT !.settled = @ \cup {event}]
        /\ mempool' = mempool \ {b}
    BY <1>4 DEF Settle
  <2> HIDE DEF event
  <2>3. ChainType' /\ unread' \in UnreadType
    BY <1>1, <1>4, <2>1, <2>2 DEF Settle, ChainType, UnreadType
  <2> QED  BY <1>4, <2>3, TypeParts DEF Settle, TypeOK, UnreadType, ChainType
<1> QED  BY <1>2, <1>3, <1>4 DEF DestinationChain

LEMMA HandlersType == TypeOK /\ Handlers => TypeOK'
<1> SUFFICES ASSUME TypeOK, Handlers PROVE TypeOK'  OBVIOUS
<1>1. /\ ChainType /\ unread \in UnreadType /\ db \in [Transfers -> Item] /\ root \in Root
      /\ stored \subseteq SettledEvent /\ checks \subseteq Check
      /\ poll \in PollType /\ faults \in Nat
  BY TypeParts
<1>2. ASSUME NEW t \in Transfers,
             HandleTransferSent(t) \/ HandleWithdrawalBonded(t) \/ HandleWithdrew(t)
      PROVE  TypeOK'
  <2>1. /\ unread' \in UnreadType /\ UNCHANGED <<chain, root, poll, faults>>
        /\ TransferSent(t) \/ WithdrawalBonded(t) \/ Withdrew(t)
    BY <1>1, <1>2
    DEF HandleTransferSent, HandleWithdrawalBonded, HandleWithdrew, UnreadType
  <2>2. db' \in [Transfers -> Item] /\ UNCHANGED <<stored, checks>>
    BY <2>1, HandlerTypes
  <2> QED  BY <1>1, <2>1, <2>2, TypeParts DEF TypeOK, UnreadType, PollType, ChainType, chain
<1>3. ASSUME HandleTransfersCommitted \/ HandleTransferRootSet PROVE TypeOK'
  <2>1. /\ unread' \in UnreadType /\ root' \in Root
        /\ UNCHANGED <<chain, db, stored, checks, poll, faults>>
    BY <1>1, <1>3
    DEF HandleTransfersCommitted, HandleTransferRootSet, UnreadType, Root
  <2> QED  BY <1>1, <2>1, TypeParts DEF TypeOK, UnreadType, PollType, ChainType, chain
<1>4. ASSUME NEW e \in unread.settled, HandleMultipleWithdrawalsSettled(e) PROVE TypeOK'
  <2>1. e \in SettledEvent  BY <1>1 DEF UnreadType
  <2>2. unread' \in UnreadType  BY <1>1, <1>4 DEF HandleMultipleWithdrawalsSettled, UnreadType
  <2>3. /\ stored' \subseteq SettledEvent /\ checks' \subseteq Check
        /\ UNCHANGED <<db, chain, root, poll, faults>>
    BY <1>4, <2>1, HandlerTypes DEF HandleMultipleWithdrawalsSettled
  <2> QED  BY <1>1, <2>2, <2>3, TypeParts DEF TypeOK, UnreadType, PollType, ChainType, chain
<1>5. ASSUME NEW c \in checks, CheckRead(c) PROVE TypeOK'
  <2>1. \E c2 \in Check : checks' = (checks \ {c}) \cup {c2}
    BY <1>5, <1>1, ReadCheck
  <2>2. checks' \subseteq Check /\ UNCHANGED <<chain, unread, db, root, stored, poll, faults>>
    BY <1>1, <1>5, <2>1 DEF CheckRead
  <2> QED  BY <1>1, <2>2, TypeParts DEF TypeOK, UnreadType, PollType, ChainType, chain
<1>6. ASSUME NEW c \in checks, CheckEnd(c) PROVE TypeOK'
  <2>1. /\ checks' \subseteq Check /\ root' \in Root
        /\ UNCHANGED <<chain, unread, db, stored, poll, faults>>
    BY <1>1, <1>6 DEF CheckEnd, Check, Root
  <2> QED  BY <1>1, <2>1, TypeParts DEF TypeOK, UnreadType, PollType, ChainType, chain
<1>7. ASSUME NEW c \in checks, NEW t \in Transfers, CheckWrite(c, t) PROVE TypeOK'
  <2>1. /\ checks' \subseteq Check /\ db' \in [Transfers -> Item]
        /\ UNCHANGED <<chain, unread, root, stored, poll, faults>>
    <3>1. checks' \subseteq Check  BY <1>1, <1>7 DEF CheckWrite, Check
    <3> DEFINE isSettled == t \in c.settle
    <3>2. isSettled \in BOOLEAN  OBVIOUS
    <3>3. db' = [db EXCEPT ![t] = [db[t] EXCEPT !.settled = isSettled]]
      BY <1>1, <1>7 DEF CheckWrite
    <3> HIDE DEF isSettled
    <3>4. [db[t] EXCEPT !.settled = isSettled] \in Item  BY <1>1, <3>2 DEF Item
    <3> QED  BY <1>1, <1>7, <3>1, <3>3, <3>4 DEF CheckWrite
  <2> QED  BY <1>1, <2>1, TypeParts DEF TypeOK, UnreadType, PollType, ChainType, chain
<1> QED  BY <1>2, <1>3, <1>4, <1>5, <1>6, <1>7 DEF Handlers

\* The poll that reads the transfers of a root has not read all of them.
PollReads == poll.step = "read" => poll.unread # {}

LEMMA WatchersType == TypeOK /\ PollReads /\ Watchers => TypeOK'
<1> SUFFICES ASSUME TypeOK, PollReads, Watchers PROVE TypeOK'  OBVIOUS
<1>1. /\ ChainType /\ unread \in UnreadType /\ db \in [Transfers -> Item] /\ root \in Root
      /\ stored \subseteq SettledEvent /\ checks \subseteq Check
      /\ poll \in PollType /\ faults \in Nat
  BY TypeParts
<1>2. ASSUME NEW t \in Transfers, PopulateTransferDbItem(t) PROVE TypeOK'
  <2>1. db[t] \in Item /\ bond[t] \in Bonders \cup {None}  BY <1>1 DEF ChainType
  <2>2. db' \in [Transfers -> Item] /\ UNCHANGED <<chain, unread, root, stored, checks, poll, faults>>
    BY <1>1, <1>2, <2>1 DEF PopulateTransferDbItem, Item
  <2> QED  BY <1>1, <2>2, TypeParts DEF TypeOK, UnreadType, PollType, ChainType, chain
<1>3. ASSUME PopulateTransferRootDbItem PROVE TypeOK'
  <2>1. /\ checks' \subseteq Check /\ root' \in Root
        /\ UNCHANGED <<chain, unread, db, stored, poll, faults>>
    <3>1. \A e \in stored : CheckTransferRootSettledState("root", e, stored) \in Check
      BY <1>1, NewCheckType
    <3> QED  BY <1>1, <1>3, <3>1 DEF PopulateTransferRootDbItem, Root
  <2> QED  BY <1>1, <2>1, TypeParts DEF TypeOK, UnreadType, PollType, ChainType, chain
<1>4. ASSUME PollUnsettled PROVE TypeOK'
  <2>1. /\ poll' \in PollType
        /\ UNCHANGED <<chain, unread, db, root, stored, checks, faults>>
    <3>1. [Idle EXCEPT !.step = "read", !.unread = Transfers] \in PollType
      BY IdleType DEF PollType
    <3> QED  BY <1>4, <3>1 DEF PollUnsettled
  <2> QED  BY <1>1, <2>1, TypeParts DEF TypeOK, UnreadType, PollType, ChainType, chain
<1>5. ASSUME PollRead PROVE TypeOK'
  <2> DEFINE t == CHOOSE u \in poll.unread : TRUE
  <2>1. t \in Transfers /\ db[t] \in Item  BY <1>1, <1>5 DEF PollRead, PollReads, PollType
  <2>2. Seen(db[t]) \in PollType  BY <1>1, <2>1, SeenType
  <2>3. poll' \in PollType
    <3>1. Decide(Seen(db[t])) \in PollType  BY <2>2, DecideType
    <3>2. [Seen(db[t]) EXCEPT !.unread = @ \ {t}] \in PollType  BY <2>2 DEF PollType
    <3> QED  BY <1>5, <3>1, <3>2 DEF PollRead
  <2>4. root' \in Root /\ UNCHANGED <<chain, unread, db, stored, checks, faults>>
    <3>1. root' \in {root, [root EXCEPT !.allSettled = TRUE]}  BY <1>5 DEF PollRead
    <3> QED  BY <1>1, <1>5, <3>1 DEF PollRead, Root
  <2> QED  BY <1>1, <2>3, <2>4, TypeParts DEF TypeOK, UnreadType, PollType, ChainType, chain
<1>6. ASSUME NEW b \in Bonders, CheckTransferRootId(b) PROVE TypeOK'
  <2>1. poll' \in PollType  BY <1>1, <1>6, AskedType DEF CheckTransferRootId
  <2>2. /\ root' \in Root /\ mempool' \subseteq Bonders
        /\ recent' = recent
        /\ UNCHANGED <<bond, cleared, withdrawn, settlements, unread, db, stored, checks, faults>>
    <3>1. mempool \cup {b} \subseteq Bonders /\ [root EXCEPT !.allSettled = TRUE] \in Root
      BY <1>1 DEF ChainType, Root
    <3>2. \/ root' = [root EXCEPT !.allSettled = TRUE] /\ mempool' = mempool
          \/ root' = root /\ mempool' = mempool \cup {b}
      BY <1>6 DEF CheckTransferRootId
    <3>3. /\ recent' = recent
          /\ UNCHANGED <<bond, cleared, withdrawn, settlements, unread, db, stored, checks, faults>>
      BY <1>6 DEF CheckTransferRootId
    <3> QED  BY <1>1, <3>1, <3>2, <3>3 DEF ChainType
  <2> QED  BY <1>1, <2>1, <2>2, TypeParts DEF TypeOK, UnreadType, PollType, ChainType
<1> QED  BY <1>2, <1>3, <1>4, <1>5, <1>6 DEF Watchers

LEMMA FailuresType == TypeOK /\ Failures => TypeOK'
<1> SUFFICES ASSUME TypeOK, Failures PROVE TypeOK'  OBVIOUS
<1>1. /\ ChainType /\ unread \in UnreadType /\ db \in [Transfers -> Item] /\ root \in Root
      /\ stored \subseteq SettledEvent /\ checks \subseteq Check
      /\ poll \in PollType /\ faults \in Nat
  BY TypeParts
<1>2. ASSUME NEW f, Fault(f) PROVE faults' \in Nat  BY <1>1, <1>2 DEF Fault
<1>3. ASSUME NEW t \in Transfers, TransactionNotFound(t) PROVE TypeOK'
  <2>1. db' \in [Transfers -> Item] /\ faults' \in Nat
    BY <1>1, <1>2, <1>3 DEF TransactionNotFound, Item
  <2> QED  BY <1>1, <1>3, <2>1, TypeParts
           DEF TransactionNotFound, TypeOK, UnreadType, PollType, ChainType, chain
<1>4. ASSUME NEW b \in Bonders, CheckTransferRootIdFails(b) PROVE TypeOK'
  <2>1. poll' \in PollType /\ faults' \in Nat
    <3>1. Asked(b) /\ Fault("call")  BY <1>4 DEF CheckTransferRootIdFails
    <3> QED  BY <1>1, <1>2, <3>1, AskedType
  <2> QED  BY <1>1, <1>4, <2>1, TypeParts
           DEF CheckTransferRootIdFails, TypeOK, UnreadType, PollType, ChainType, chain
<1>5. ASSUME NEW e \in unread.settled, LoseSettled(e) PROVE TypeOK'
  <2>1. unread' \in UnreadType /\ faults' \in Nat
    BY <1>1, <1>2, <1>5 DEF LoseSettled, UnreadType
  <2> QED  BY <1>1, <1>5, <2>1, TypeParts
           DEF LoseSettled, TypeOK, UnreadType, PollType, ChainType, chain
<1>6. ASSUME ReadAgain PROVE TypeOK'
  <2>1. faults' \in Nat /\ UNCHANGED <<chain, unread, root, poll>>
    BY <1>2, <1>6 DEF ReadAgain
  <2>2. /\ db' \in [Transfers -> Item] /\ stored' \subseteq SettledEvent
        /\ checks' \subseteq Check
    <3>1. CASE \E t \in Transfers : TransferSent(t) \/ WithdrawalBonded(t) \/ Withdrew(t)
      BY <1>1, <3>1, HandlerTypes
    <3>2. CASE \E e \in SettledEvent : MultipleWithdrawalsSettled(e)
      BY <1>1, <3>2, HandlerTypes
    <3> QED  BY <1>1, <1>6, <3>1, <3>2 DEF ReadAgain, ChainType
  <2> QED  BY <1>1, <2>1, <2>2, TypeParts DEF TypeOK, UnreadType, PollType, ChainType, chain
<1>7. ASSUME Crash PROVE TypeOK'
  <2>1. {c.event : c \in {d \in checks : d.by = "event"}} \subseteq SettledEvent
    BY <1>1 DEF Check
  <2>2. unread' \in UnreadType
    <3> HIDE DEF Crash
    <3>1. PICK again \in SUBSET {c.event : c \in {d \in checks : d.by = "event"}} :
            unread' = [unread EXCEPT !.settled = @ \cup again]
      BY <1>7 DEF Crash
    <3>2. again \subseteq SettledEvent  BY <2>1
    <3> QED  BY <1>1, <3>1, <3>2 DEF UnreadType
  <2>3. poll' \in PollType /\ checks' \subseteq Check /\ faults' \in Nat
    <3>1. Fault("crash") /\ poll' = Idle /\ checks' = {}  BY <1>7 DEF Crash
    <3> QED  BY <1>2, <3>1, IdleType
  <2> QED  BY <1>1, <1>7, <2>2, <2>3, TypeParts
           DEF Crash, TypeOK, UnreadType, PollType, ChainType, chain
<1> QED  BY <1>3, <1>4, <1>5, <1>6, <1>7 DEF Failures

\* Only PollUnsettled starts to read, with all the transfers, and PollRead goes on while
\* one is left.
LEMMA PollReadsStep == TypeOK /\ PollReads /\ Next => PollReads'
<1> SUFFICES ASSUME TypeOK, PollReads, Next PROVE PollReads'  OBVIOUS
<1>1. CASE UNCHANGED poll  BY <1>1 DEF PollReads
<1>2. CASE PollUnsettled
  BY <1>2, TransfersAssumption, IdleType DEF PollUnsettled, PollReads, PollType
<1>3. CASE PollRead
  <2> DEFINE t == CHOOSE u \in poll.unread : TRUE
  <2>1. t \in poll.unread /\ db[t] \in Item /\ poll \in PollType
    BY <1>3, TypeParts DEF PollRead, PollReads, PollType
  <2>2. /\ Seen(db[t]) \in PollType /\ Seen(db[t]).unread = poll.unread
        /\ Decide(Seen(db[t])).step # "read"
    BY <2>1, SeenType, DecideType
  <2>3. CASE poll.unread = {t}  BY <1>3, <2>2, <2>3 DEF PollRead, PollReads
  <2>4. CASE poll.unread # {t}
    <3>1. poll' = [Seen(db[t]) EXCEPT !.unread = @ \ {t}]  BY <1>3, <2>4 DEF PollRead
    <3>2. poll'.unread = poll.unread \ {t}  BY <2>2, <3>1 DEF PollType
    <3> QED  BY <2>1, <2>4, <3>2 DEF PollReads
  <2> QED  BY <2>3, <2>4
<1>4. ASSUME NEW b \in Bonders, Asked(b) PROVE PollReads'
  BY <1>4, AskedType, TypeParts DEF PollReads
<1>5. CASE Crash  BY <1>5, IdleType DEF Crash, PollReads
<1>6. CASE Handlers
  BY <1>1, <1>6
  DEF Handlers, HandleTransferSent, HandleWithdrawalBonded, HandleWithdrew,
      HandleTransfersCommitted, HandleTransferRootSet, HandleMultipleWithdrawalsSettled,
      CheckRead, CheckWrite, CheckEnd
<1>7. CASE Watchers
  BY <1>1, <1>2, <1>3, <1>4, <1>7
  DEF Watchers, PopulateTransferDbItem, PopulateTransferRootDbItem, CheckTransferRootId
<1>8. CASE DestinationChain  BY <1>1, <1>8 DEF DestinationChain, Bond, Withdraw, Settle
<1>9. CASE Failures
  BY <1>1, <1>4, <1>5, <1>9
  DEF Failures, TransactionNotFound, CheckTransferRootIdFails, LoseSettled, ReadAgain
<1>10. CASE TwoWeeksPass  BY <1>1, <1>10 DEF TwoWeeksPass
<1> QED  BY <1>6, <1>7, <1>8, <1>9, <1>10 DEF Next

\* The parts of the state keep their types, and the poll never reads past the end of the
\* list of the root.
LEMMA TypeStep == TypeOK /\ PollReads /\ [Next]_vars => TypeOK' /\ PollReads'
<1> SUFFICES ASSUME TypeOK, PollReads, [Next]_vars PROVE TypeOK' /\ PollReads'  OBVIOUS
<1>1. CASE Next
  <2>1. ASSUME TwoWeeksPass PROVE TypeOK'
    <3>1. faults \in Nat /\ faults' \in Nat  BY <2>1, TypeParts DEF TwoWeeksPass, Fault
    <3>2. /\ recent' \in BOOLEAN
          /\ UNCHANGED <<bond, cleared, withdrawn, settlements, mempool, unread, db, root,
                         stored, checks, poll>>
      BY <2>1 DEF TwoWeeksPass
    <3> QED  BY <3>1, <3>2 DEF TypeOK
  <2> QED
    BY <1>1, <2>1, ChainStepType, HandlersType, WatchersType, FailuresType, PollReadsStep
       DEF Next
<1>2. CASE UNCHANGED vars
  BY <1>2, TypeParts DEF vars, chain, TypeOK, PollReads, ChainType, UnreadType
<1> QED  BY <1>1, <1>2

\* The state keeps its types.
THEOREM TypeCorrect == Spec => []TypeOK
<1>1. Init => TypeOK /\ PollReads  BY InitType, IdleType DEF Init, PollReads
<1> QED  BY <1>1, TypeStep, PTL DEF Spec

-----------------------------------------------------------------------------
\* The transfers that may be marked as settled, and those that the watcher need not look
\* at again.  Neither is ever left.
Safe == cleared \cup Late
Spent == cleared \cup withdrawn \cup Late \cup Unbondable

\* The node knows only of events the chain emitted, and a settlement cleared its bonds.
ChainInv ==
  /\ \A e \in settlements : e.transfers \subseteq cleared
  /\ stored \subseteq settlements
  /\ unread.settled \subseteq settlements /\ unread.withdrew \subseteq withdrawn
  /\ \A c \in checks : c.event \in settlements

\* What the items of the transfers say is true of the chain.
DbInv == \A t \in Transfers :
  /\ db[t].bonder # None => db[t].bonder = bond[t]
  /\ db[t].unbondable => t \in withdrawn \cup Unbondable
  /\ db[t].settled => t \in Safe

\* What a check has found remains true until it writes it.
CheckInv == \A c \in checks :
  /\ c.full => Transfers \subseteq cleared
  /\ c.settle \subseteq Safe
  /\ c.read /\ ~c.open => Transfers \subseteq Spent

\* A poll that has seen no open transfer has read only transfers that are spent.
PollInv == poll.step = "read" /\ ~poll.open => Transfers \ poll.unread \subseteq Spent

RootInv == root.allSettled => Transfers \subseteq Spent

SettleInv == ChainInv /\ DbInv /\ CheckInv /\ PollInv /\ RootInv

\* A bond, once made, stays with its bonder, and what was cleared, withdrawn or emitted
\* remains so.
Grow == /\ \A t \in Transfers : bond[t] # None => bond'[t] = bond[t]
        /\ cleared \subseteq cleared' /\ withdrawn \subseteq withdrawn'
        /\ settlements \subseteq settlements'

LEMMA SafeGrows ==
  ASSUME Grow
  PROVE  Safe \subseteq Safe' /\ Spent \subseteq Spent'
<1>1. ASSUME NEW t \in Late PROVE t \in cleared' \cup Late'
  <2>1. t \in Transfers /\ bond'[t] = bond[t] /\ bond[t] # None  BY DEF Late, Grow
  <2>2. PICK e \in settlements : e.bonder = bond[t]  BY DEF Late
  <2>3. e \in settlements' /\ e.bonder = bond'[t]  BY <2>1, <2>2 DEF Grow
  <2> QED  BY <2>1, <2>3 DEF Late
<1> QED  BY <1>1 DEF Safe, Spent, Grow

\* A transfer whose bonder is the one of a settlement is safe.
LEMMA SettledIsSafe ==
  ASSUME NEW t \in Transfers, NEW e \in settlements, bond[t] = e.bonder, bond[t] # None
  PROVE  t \in Safe
BY DEF Safe, Late

LEMMA ChainStepInv == TypeOK /\ SettleInv /\ DestinationChain => SettleInv'
<1> SUFFICES ASSUME TypeOK, SettleInv, DestinationChain PROVE SettleInv'  OBVIOUS
<1>1. UNCHANGED <<db, root, stored, checks, poll>>
  BY DEF DestinationChain, Bond, Withdraw, Settle
<1>2. ChainType /\ unread \in UnreadType  BY TypeParts
<1> DEFINE Known == /\ unread'.settled \subseteq settlements'
                    /\ unread'.withdrew \subseteq withdrawn'
                    /\ \A e \in settlements' : e.transfers \subseteq cleared'
<1>3. Grow /\ Known
  <2>1. ASSUME NEW t \in Transfers, NEW b \in Bonders, Bond(t, b) PROVE Grow /\ Known
    BY <1>2, <2>1 DEF Bond, Grow, SettleInv, ChainInv, ChainType, UnreadType
  <2>2. ASSUME NEW t \in Transfers, Withdraw(t) PROVE Grow /\ Known
    BY <1>2, <2>2 DEF Withdraw, Grow, SettleInv, ChainInv, ChainType, UnreadType
  <2>3. ASSUME NEW b \in Bonders, Settle(b) PROVE Grow /\ Known
    <3> DEFINE bonds == {t \in Transfers : bond[t] = b}
               event == [bonder |-> b, transfers |-> bonds \ cleared]
    <3>1. /\ cleared' = cleared \cup bonds /\ settlements' = settlements \cup {event}
          /\ unread' = [unread EXCEPT !.settled = @ \cup {event}]
          /\ UNCHANGED <<bond, withdrawn>>
      BY <2>3 DEF Settle
    <3>2. event.transfers \subseteq cleared'  BY <3>1
    <3> HIDE DEF event, bonds
    <3> QED  BY <1>2, <3>1, <3>2 DEF Grow, SettleInv, ChainInv, UnreadType
  <2> QED  BY <2>1, <2>2, <2>3 DEF DestinationChain
<1>4. Safe \subseteq Safe' /\ Spent \subseteq Spent' /\ cleared \subseteq cleared'
  BY <1>3, SafeGrows DEF Grow
<1>5. ChainInv'  BY <1>1, <1>3 DEF ChainInv, SettleInv, Grow
<1>6. DbInv'
  <2>1. ASSUME NEW t \in Transfers, db[t].bonder # None PROVE bond'[t] = bond[t]
    BY <1>3, <2>1 DEF SettleInv, DbInv, Grow
  <2> QED  BY <1>1, <1>3, <1>4, <2>1 DEF SettleInv, DbInv, Grow
<1>7. CheckInv'  BY <1>1, <1>4 DEF SettleInv, CheckInv
<1>8. PollInv' /\ RootInv'  BY <1>1, <1>4 DEF SettleInv, PollInv, RootInv
<1> QED  BY <1>5, <1>6, <1>7, <1>8 DEF SettleInv

\* What a step that leaves the chain alone need not be asked about.
LEMMA Kept ==
  ASSUME SettleInv, UNCHANGED chain
  PROVE  /\ Safe' = Safe /\ Spent' = Spent
         /\ /\ stored' \subseteq settlements /\ unread'.settled \subseteq settlements
            /\ unread'.withdrew \subseteq withdrawn
            /\ \A c \in checks' : c.event \in settlements
            => ChainInv'
         /\ UNCHANGED db => DbInv'
         /\ checks' \subseteq checks => CheckInv'
         /\ UNCHANGED poll \/ poll'.step # "read" => PollInv'
         /\ (root'.allSettled => root.allSettled) => RootInv'
<1>1. Safe' = Safe /\ Spent' = Spent  BY DEF Safe, Spent, Late, chain
<1>2. (/\ stored' \subseteq settlements /\ unread'.settled \subseteq settlements
       /\ unread'.withdrew \subseteq withdrawn
       /\ \A c \in checks' : c.event \in settlements) => ChainInv'
  BY DEF SettleInv, ChainInv, chain
<1>3. UNCHANGED db => DbInv'  BY <1>1 DEF SettleInv, DbInv, chain
<1>4. checks' \subseteq checks => CheckInv'  BY <1>1 DEF SettleInv, CheckInv, chain
<1>5. UNCHANGED poll \/ poll'.step # "read" => PollInv'  BY <1>1 DEF SettleInv, PollInv
<1>6. (root'.allSettled => root.allSettled) => RootInv'
  BY <1>1 DEF SettleInv, RootInv
<1> QED  BY <1>1, <1>2, <1>3, <1>4, <1>5, <1>6

\* The handlers keep what the db says true of the chain.
LEMMA HandlerInv ==
  ASSUME TypeOK, SettleInv, UNCHANGED chain
  PROVE  /\ \A t \in Transfers :
              TransferSent(t) \/ WithdrawalBonded(t) \/ (t \in withdrawn /\ Withdrew(t))
                => DbInv' /\ UNCHANGED <<stored, checks>>
         /\ \A e \in settlements : MultipleWithdrawalsSettled(e)
                => /\ UNCHANGED db /\ CheckInv' /\ stored' \subseteq settlements
                   /\ \A c \in checks' : c.event \in settlements
<1>1. ASSUME NEW t \in Transfers,
             TransferSent(t) \/ WithdrawalBonded(t) \/ (t \in withdrawn /\ Withdrew(t))
      PROVE  DbInv' /\ UNCHANGED <<stored, checks>>
  <2>1. db \in [Transfers -> Item]  BY TypeParts
  <2>2. UNCHANGED <<stored, checks>>  BY <1>1 DEF TransferSent, WithdrawalBonded, Withdrew
  <2>3. /\ \A u \in Transfers : db'[u].bonder = db[u].bonder
        /\ \A u \in Transfers : db'[u].settled => db[u].settled
        /\ \A u \in Transfers :
              db'[u].unbondable => db[u].unbondable \/ u \in withdrawn \cup Unbondable
    BY <1>1, <2>1 DEF TransferSent, WithdrawalBonded, Withdrew, Item
  <2>4. Safe' = Safe /\ UNCHANGED <<bond, withdrawn>>  BY Kept DEF chain
  <2> QED  BY <2>2, <2>3, <2>4 DEF DbInv, SettleInv
<1>2. ASSUME NEW e \in settlements, MultipleWithdrawalsSettled(e)
      PROVE  /\ UNCHANGED db /\ CheckInv' /\ stored' \subseteq settlements
             /\ \A c \in checks' : c.event \in settlements
  <2> DEFINE c1 == CheckTransferRootSettledState("event", e, stored')
  <2>1. UNCHANGED db /\ stored' = stored \cup {e} /\ checks' \subseteq checks \cup {c1}
    BY <1>2 DEF MultipleWithdrawalsSettled
  <2>2. stored' \subseteq settlements  BY <2>1 DEF SettleInv, ChainInv
  <2>3. e \in SettledEvent  BY TypeParts DEF ChainType
  <2>4. c1.event = e /\ ~c1.read /\ c1.settle = {} /\ c1.full = SumIsTotal(stored')
    BY <2>3, NewCheckType
  <2>5. c1.full => Transfers \subseteq cleared
    <3>1. SumIsTotal(stored') => Transfers \subseteq cleared
      <4> SUFFICES ASSUME UNION {d.transfers : d \in stored'} = Transfers
                   PROVE  Transfers \subseteq cleared
        BY DEF SumIsTotal
      <4>1. \A d \in stored' : d.transfers \subseteq cleared
        BY <2>2 DEF SettleInv, ChainInv
      <4> QED  BY <4>1
    <3> QED  BY <2>4, <3>1
  <2> HIDE DEF c1
  <2>6. cleared' = cleared /\ Safe' = Safe /\ Spent' = Spent  BY Kept DEF chain
  <2>7. CheckInv'  BY <2>1, <2>4, <2>5, <2>6 DEF CheckInv, SettleInv
  <2> QED  BY <2>1, <2>2, <2>4, <2>7 DEF SettleInv, ChainInv
<1> QED  BY <1>1, <1>2

LEMMA HandlersInv == TypeOK /\ SettleInv /\ Handlers => SettleInv'
<1> SUFFICES ASSUME TypeOK, SettleInv, Handlers PROVE SettleInv'  OBVIOUS
<1>1. UNCHANGED chain /\ UNCHANGED poll
  BY DEF Handlers, HandleTransferSent, HandleWithdrawalBonded, HandleWithdrew,
         HandleTransfersCommitted, HandleTransferRootSet, HandleMultipleWithdrawalsSettled,
         CheckRead, CheckWrite, CheckEnd
<1>2. /\ unread \in UnreadType /\ db \in [Transfers -> Item] /\ root \in Root
      /\ checks \subseteq Check
  BY TypeParts
<1>3. ChainInv /\ DbInv /\ CheckInv  BY DEF SettleInv
<1>4. PollInv'  BY <1>1, Kept
<1>5. ASSUME NEW t \in Transfers,
             HandleTransferSent(t) \/ HandleWithdrawalBonded(t) \/ HandleWithdrew(t)
      PROVE  SettleInv'
  <2>1. /\ TransferSent(t) \/ WithdrawalBonded(t) \/ (t \in withdrawn /\ Withdrew(t))
        /\ UNCHANGED root
        /\ unread'.settled \subseteq settlements /\ unread'.withdrew \subseteq withdrawn
    BY <1>2, <1>3, <1>5
    DEF HandleTransferSent, HandleWithdrawalBonded, HandleWithdrew, ChainInv, UnreadType
  <2>2. DbInv' /\ UNCHANGED <<stored, checks>>  BY <1>1, <2>1, HandlerInv
  <2> QED  BY <1>1, <1>3, <1>4, <2>1, <2>2, Kept DEF SettleInv, ChainInv
<1>6. ASSUME HandleTransfersCommitted \/ HandleTransferRootSet PROVE SettleInv'
  <2>1. /\ UNCHANGED <<db, stored, checks>> /\ root'.allSettled = root.allSettled
        /\ unread'.settled \subseteq settlements /\ unread'.withdrew \subseteq withdrawn
    BY <1>2, <1>3, <1>6
    DEF HandleTransfersCommitted, HandleTransferRootSet, ChainInv, UnreadType, Root
  <2> QED  BY <1>1, <1>3, <1>4, <2>1, Kept DEF SettleInv, ChainInv
<1>7. ASSUME NEW e \in unread.settled, HandleMultipleWithdrawalsSettled(e) PROVE SettleInv'
  <2>1. /\ e \in settlements /\ MultipleWithdrawalsSettled(e) /\ UNCHANGED root
        /\ unread'.settled \subseteq settlements /\ unread'.withdrew \subseteq withdrawn
    BY <1>2, <1>3, <1>7 DEF HandleMultipleWithdrawalsSettled, ChainInv, UnreadType
  <2>2. /\ UNCHANGED db /\ CheckInv' /\ stored' \subseteq settlements
        /\ \A c \in checks' : c.event \in settlements
    BY <1>1, <2>1, HandlerInv
  <2> QED  BY <1>1, <1>4, <2>1, <2>2, Kept DEF SettleInv
<1>8. ASSUME NEW c \in checks, CheckRead(c) PROVE SettleInv'
  <2>1. PICK c2 \in Check :
          /\ checks' = (checks \ {c}) \cup {c2}
          /\ c2.read /\ c2.full = c.full /\ c2.event = c.event
          /\ \A t \in c2.settle : db[t].bonded /\ db[t].bonder = c.event.bonder
          /\ c2.open = \E t \in Transfers : ~IsDone(db[t])
    BY <1>2, <1>8, ReadCheck
  <2>2. UNCHANGED <<unread, db, root, stored>>  BY <1>8 DEF CheckRead
  <2>3. c.event \in settlements  BY <1>3 DEF ChainInv
  <2>4. c2.settle \subseteq Safe
    <3> SUFFICES ASSUME NEW t \in c2.settle PROVE t \in Safe  OBVIOUS
    <3>1. t \in Transfers /\ db[t].bonder = c.event.bonder  BY <2>1 DEF Check
    <3>2. c.event.bonder \in Bonders  BY <1>2 DEF Check, SettledEvent
    <3>3. bond[t] = c.event.bonder /\ bond[t] # None
      BY <1>3, <3>1, <3>2, BondersAssumption DEF DbInv
    <3> QED  BY <2>3, <3>1, <3>3, SettledIsSafe
  <2>5. ~c2.open => Transfers \subseteq Spent
    BY <1>3, <2>1 DEF IsDone, DbInv, Spent, Safe
  <2>6. cleared' = cleared /\ Safe' = Safe /\ Spent' = Spent  BY <1>1, Kept DEF chain
  <2>7. CheckInv'  BY <1>3, <2>1, <2>4, <2>5, <2>6 DEF CheckInv
  <2>8. \A d \in checks' : d.event \in settlements  BY <1>3, <2>1, <2>3 DEF ChainInv
  <2> QED  BY <1>1, <1>3, <1>4, <2>2, <2>7, <2>8, Kept DEF SettleInv, ChainInv
<1>9. ASSUME NEW c \in checks, CheckEnd(c) PROVE SettleInv'
  <2>1. /\ UNCHANGED <<unread, db, stored>> /\ checks' = checks \ {c} /\ c.read
        /\ root'.allSettled = (c.full \/ ~c.open)
    BY <1>2, <1>9 DEF CheckEnd, Root
  <2>2. c.full \/ ~c.open => Transfers \subseteq Spent
    BY <1>3, <2>1 DEF CheckInv, Spent
  <2>3. RootInv'  BY <1>1, <2>1, <2>2, Kept DEF RootInv
  <2> QED  BY <1>1, <1>3, <1>4, <2>1, <2>3, Kept DEF SettleInv, ChainInv
<1>10. ASSUME NEW c \in checks, NEW t \in Transfers, CheckWrite(c, t) PROVE SettleInv'
  <2> DEFINE c2 == [c EXCEPT !.settle = @ \ {t}, !.unsettle = @ \ {t}]
  <2>1. /\ UNCHANGED <<unread, root, stored>> /\ checks' = (checks \ {c}) \cup {c2}
        /\ db' = [db EXCEPT ![t].settled = t \in c.settle]
    BY <1>10 DEF CheckWrite
  <2>2. /\ c2.event = c.event /\ c2.full = c.full /\ c2.read = c.read
        /\ c2.open = c.open /\ c2.settle \subseteq c.settle
    BY <1>2 DEF Check
  <2> HIDE DEF c2
  <2>3. cleared' = cleared /\ Safe' = Safe /\ Spent' = Spent /\ UNCHANGED <<bond, withdrawn>>
    BY <1>1, Kept DEF chain
  <2>4. CheckInv'  BY <1>3, <2>1, <2>2, <2>3 DEF CheckInv
  <2>5. /\ \A u \in Transfers : db'[u].bonder = db[u].bonder
        /\ \A u \in Transfers : db'[u].unbondable = db[u].unbondable
        /\ \A u \in Transfers \ {t} : db'[u].settled = db[u].settled
        /\ db'[t].settled => t \in c.settle
    <3> DEFINE isSettled == t \in c.settle
    <3>1. db' = [db EXCEPT ![t] = [db[t] EXCEPT !.settled = isSettled]]
      BY <1>2, <2>1
    <3> HIDE DEF isSettled
    <3>2. /\ [db[t] EXCEPT !.settled = isSettled].settled = isSettled
          /\ [db[t] EXCEPT !.settled = isSettled].bonder = db[t].bonder
          /\ [db[t] EXCEPT !.settled = isSettled].unbondable = db[t].unbondable
      BY <1>2 DEF Item
    <3> QED  BY <1>2, <3>1, <3>2 DEF isSettled
  <2>6. DbInv'  BY <1>3, <2>3, <2>5 DEF DbInv, CheckInv
  <2>7. \A d \in checks' : d.event \in settlements  BY <1>3, <2>1, <2>2 DEF ChainInv
  <2> QED  BY <1>1, <1>3, <1>4, <2>1, <2>4, <2>6, <2>7, Kept DEF SettleInv, ChainInv
<1> QED  BY <1>5, <1>6, <1>7, <1>8, <1>9, <1>10 DEF Handlers

LEMMA WatchersInv == TypeOK /\ PollReads /\ SettleInv /\ Watchers => SettleInv'
<1> SUFFICES ASSUME TypeOK, PollReads, SettleInv, Watchers PROVE SettleInv'  OBVIOUS
<1>1. /\ db \in [Transfers -> Item] /\ root \in Root /\ checks \subseteq Check
      /\ poll \in PollType /\ bond \in [Transfers -> Bonders \cup {None}]
  BY TypeParts DEF ChainType
<1>2. ChainInv /\ DbInv /\ CheckInv /\ PollInv /\ RootInv  BY DEF SettleInv
<1>3. ASSUME NEW t \in Transfers, PopulateTransferDbItem(t) PROVE SettleInv'
  <2>1. UNCHANGED chain /\ UNCHANGED <<unread, root, stored, checks, poll>>
    BY <1>3 DEF PopulateTransferDbItem
  <2>2. /\ \A u \in Transfers : db'[u].bonder \in {db[u].bonder, bond[u]}
        /\ \A u \in Transfers : db'[u].unbondable = db[u].unbondable
        /\ \A u \in Transfers : db'[u].settled = db[u].settled
    BY <1>1, <1>3 DEF PopulateTransferDbItem, Item
  <2>3. Safe' = Safe /\ UNCHANGED <<bond, withdrawn>>  BY <2>1, Kept DEF chain
  <2>4. DbInv'  BY <1>2, <2>2, <2>3 DEF DbInv
  <2> QED  BY <1>2, <2>1, <2>4, Kept DEF SettleInv, ChainInv
<1>4. ASSUME PopulateTransferRootDbItem PROVE SettleInv'
  <2>1. UNCHANGED chain /\ UNCHANGED <<unread, db, stored, poll>>
    BY <1>4 DEF PopulateTransferRootDbItem
  <2>2. root'.allSettled = root.allSettled
    BY <1>1, <1>4 DEF PopulateTransferRootDbItem, Root
  <2>3. \/ UNCHANGED checks
        \/ \E e \in stored :
             checks' = checks \cup {CheckTransferRootSettledState("root", e, stored)}
    BY <1>4 DEF PopulateTransferRootDbItem
  <2>4. CASE UNCHANGED checks
    BY <1>2, <2>1, <2>2, <2>4, Kept DEF SettleInv, ChainInv
  <2>5. ASSUME NEW e \in stored,
               checks' = checks \cup {CheckTransferRootSettledState("root", e, stored)}
        PROVE  SettleInv'
    <3> DEFINE c1 == CheckTransferRootSettledState("root", e, stored)
    <3>1. e \in settlements /\ e \in SettledEvent  BY <1>2, TypeParts DEF ChainInv
    <3>2. c1.event = e /\ ~c1.read /\ c1.settle = {} /\ c1.full = SumIsTotal(stored)
      BY <3>1, NewCheckType
    <3>3. c1.full => Transfers \subseteq cleared
      <4>1. SumIsTotal(stored) => Transfers \subseteq cleared
        <5> SUFFICES ASSUME UNION {d.transfers : d \in stored} = Transfers
                     PROVE  Transfers \subseteq cleared
          BY DEF SumIsTotal
        <5>1. \A d \in stored : d.transfers \subseteq cleared  BY <1>2 DEF ChainInv
        <5> QED  BY <5>1
      <4> QED  BY <3>2, <4>1
    <3>4. checks' = checks \cup {c1}  BY <2>5
    <3> HIDE DEF c1
    <3>5. cleared' = cleared /\ Safe' = Safe /\ Spent' = Spent  BY <2>1, Kept DEF chain
    <3>6. CheckInv'  BY <1>2, <3>2, <3>3, <3>4, <3>5 DEF CheckInv
    <3>7. \A c \in checks' : c.event \in settlements
      BY <1>2, <3>1, <3>2, <3>4 DEF ChainInv
    <3> QED  BY <1>2, <2>1, <2>2, <3>6, <3>7, Kept DEF SettleInv, ChainInv
  <2> QED  BY <2>3, <2>4, <2>5
<1>5. ASSUME PollUnsettled PROVE SettleInv'
  <2>1. UNCHANGED chain /\ UNCHANGED <<unread, db, root, stored, checks>>
    BY <1>5 DEF PollUnsettled
  <2>2. poll'.unread = Transfers
    BY <1>5, IdleType DEF PollUnsettled, PollType
  <2>3. PollInv'  BY <2>2 DEF PollInv
  <2> QED  BY <1>2, <2>1, <2>3, Kept DEF SettleInv, ChainInv
<1>6. ASSUME PollRead PROVE SettleInv'
  <2> DEFINE t == CHOOSE u \in poll.unread : TRUE
             seen == Seen(db[t])
  <2>1. /\ t \in poll.unread /\ t \in Transfers /\ db[t] \in Item /\ poll.step = "read"
    BY <1>1, <1>6 DEF PollRead, PollReads, PollType
  <2>2. UNCHANGED chain /\ UNCHANGED <<unread, db, stored, checks>>  BY <1>6 DEF PollRead
  <2>3. /\ seen \in PollType /\ seen.unread = poll.unread
        /\ seen.open = (poll.open \/ ~IsDone(db[t]))
    BY <1>1, <2>1, SeenType
  <2>4. Decide(seen).step # "read"  BY <2>3, DecideType
  <2>5. IsDone(db[t]) => t \in Spent  BY <1>2, <2>1 DEF IsDone, DbInv, Spent, Safe
  <2>6. ~seen.open => Transfers \ (poll.unread \ {t}) \subseteq Spent
    BY <1>2, <2>1, <2>3, <2>5 DEF PollInv
  <2>7. /\ poll' = IF poll.unread = {t} THEN Decide(seen)
                   ELSE [seen EXCEPT !.unread = @ \ {t}]
        /\ root' = IF poll.unread = {t} /\ seen.bonded /\ ~seen.open
                     THEN [root EXCEPT !.allSettled = TRUE] ELSE root
    BY <1>6 DEF PollRead
  <2> HIDE DEF seen, t
  <2>8. Spent' = Spent  BY <2>2, Kept
  <2>9. RootInv'
    <3>1. CASE poll.unread = {t} /\ seen.bonded /\ ~seen.open
      BY <2>6, <2>8, <3>1 DEF RootInv
    <3>2. CASE ~(poll.unread = {t} /\ seen.bonded /\ ~seen.open)
      BY <2>2, <2>7, <3>2, Kept
    <3> QED  BY <3>1, <3>2
  <2>10. PollInv'
    <3>1. CASE poll.unread = {t}  BY <2>2, <2>4, <2>7, <3>1, Kept
    <3>2. CASE poll.unread # {t}
      <4>1. poll'.unread = poll.unread \ {t} /\ poll'.open = seen.open
        BY <2>3, <2>7, <3>2 DEF PollType
      <4> QED  BY <2>6, <2>8, <4>1 DEF PollInv
    <3> QED  BY <3>1, <3>2
  <2> QED  BY <1>2, <2>2, <2>9, <2>10, Kept DEF SettleInv, ChainInv
<1>7. ASSUME NEW b \in Bonders, CheckTransferRootId(b) PROVE SettleInv'
  <2>1. /\ UNCHANGED <<bond, cleared, withdrawn, settlements>>
        /\ UNCHANGED <<unread, db, stored, checks>>
    BY <1>7 DEF CheckTransferRootId
  <2>2. Safe' = Safe /\ Spent' = Spent  BY <2>1 DEF Safe, Spent, Late
  <2>3. poll'.step # "read"  BY <1>1, <1>7, AskedType DEF CheckTransferRootId
  <2>4. root' = root \/ cleared \cup withdrawn = Transfers
    BY <1>7 DEF CheckTransferRootId
  <2>5. RootInv'  BY <1>2, <2>2, <2>4 DEF RootInv, Spent
  <2>6. ChainInv' /\ DbInv'  BY <1>2, <2>1, <2>2 DEF ChainInv, DbInv
  <2>7. CheckInv' /\ PollInv'  BY <1>2, <2>1, <2>2, <2>3 DEF CheckInv, PollInv
  <2> QED  BY <2>5, <2>6, <2>7 DEF SettleInv
<1> QED  BY <1>3, <1>4, <1>5, <1>6, <1>7 DEF Watchers

LEMMA FailuresInv == TypeOK /\ SettleInv /\ Failures => SettleInv'
<1> SUFFICES ASSUME TypeOK, SettleInv, Failures PROVE SettleInv'  OBVIOUS
<1>1. UNCHANGED chain /\ UNCHANGED root
  BY DEF Failures, TransactionNotFound, CheckTransferRootIdFails, LoseSettled, ReadAgain, Crash
<1>2. /\ unread \in UnreadType /\ db \in [Transfers -> Item] /\ checks \subseteq Check
      /\ poll \in PollType
  BY TypeParts
<1>3. ChainInv /\ DbInv /\ CheckInv  BY DEF SettleInv
<1>4. RootInv'  BY <1>1, Kept
<1>5. ASSUME NEW t \in Transfers, TransactionNotFound(t) PROVE SettleInv'
  <2>1. UNCHANGED <<unread, stored, checks, poll>>  BY <1>5 DEF TransactionNotFound
  <2>2. /\ \A u \in Transfers : db'[u].bonder = db[u].bonder
        /\ \A u \in Transfers : db'[u].unbondable = db[u].unbondable
        /\ \A u \in Transfers : db'[u].settled = db[u].settled
    BY <1>2, <1>5 DEF TransactionNotFound, Item
  <2>3. Safe' = Safe /\ UNCHANGED <<bond, withdrawn>>  BY <1>1, Kept DEF chain
  <2>4. DbInv'  BY <1>3, <2>2, <2>3 DEF DbInv
  <2> QED  BY <1>1, <1>3, <1>4, <2>1, <2>4, Kept DEF SettleInv, ChainInv
<1>6. ASSUME NEW b \in Bonders, CheckTransferRootIdFails(b) PROVE SettleInv'
  <2>1. UNCHANGED <<unread, db, stored, checks>> /\ Asked(b)
    BY <1>6 DEF CheckTransferRootIdFails
  <2>2. poll'.step # "read"  BY <1>2, <2>1, AskedType
  <2> QED  BY <1>1, <1>3, <1>4, <2>1, <2>2, Kept DEF SettleInv, ChainInv
<1>7. ASSUME NEW e \in unread.settled, LoseSettled(e) PROVE SettleInv'
  <2>1. UNCHANGED <<db, stored, checks, poll>>  BY <1>7 DEF LoseSettled
  <2>2. unread'.settled \subseteq settlements /\ unread'.withdrew \subseteq withdrawn
    BY <1>2, <1>3, <1>7 DEF LoseSettled, ChainInv, UnreadType
  <2> QED  BY <1>1, <1>3, <1>4, <2>1, <2>2, Kept DEF SettleInv, ChainInv
<1>8. ASSUME ReadAgain PROVE SettleInv'
  <2>1. UNCHANGED <<unread, poll>>  BY <1>8 DEF ReadAgain
  <2>2. \/ \E t \in Transfers :
             TransferSent(t) \/ WithdrawalBonded(t) \/ (t \in withdrawn /\ Withdrew(t))
        \/ \E e \in settlements : MultipleWithdrawalsSettled(e)
    <3>1. withdrawn \subseteq Transfers  BY TypeParts DEF ChainType
    <3> QED  BY <1>8, <3>1 DEF ReadAgain
  <2>3. ASSUME NEW t \in Transfers,
               TransferSent(t) \/ WithdrawalBonded(t) \/ (t \in withdrawn /\ Withdrew(t))
        PROVE  SettleInv'
    <3>1. DbInv' /\ UNCHANGED <<stored, checks>>  BY <1>1, <2>3, HandlerInv
    <3> QED  BY <1>1, <1>3, <1>4, <2>1, <3>1, Kept DEF SettleInv, ChainInv
  <2>4. ASSUME NEW e \in settlements, MultipleWithdrawalsSettled(e) PROVE SettleInv'
    <3>1. /\ UNCHANGED db /\ CheckInv' /\ stored' \subseteq settlements
          /\ \A c \in checks' : c.event \in settlements
      BY <1>1, <2>4, HandlerInv
    <3> QED  BY <1>1, <1>3, <1>4, <2>1, <3>1, Kept DEF SettleInv, ChainInv
  <2> QED  BY <2>2, <2>3, <2>4
<1>9. ASSUME Crash PROVE SettleInv'
  <2>1. UNCHANGED <<db, stored>> /\ checks' = {} /\ poll' = Idle  BY <1>9 DEF Crash
  <2>2. poll'.step # "read"  BY <2>1, IdleType
  <2>3. unread'.settled \subseteq settlements /\ unread'.withdrew \subseteq withdrawn
    <3>1. PICK again \in SUBSET {c.event : c \in {d \in checks : d.by = "event"}} :
            unread' = [unread EXCEPT !.settled = @ \cup again]
      BY <1>9 DEF Crash
    <3>2. again \subseteq settlements  BY <1>3 DEF ChainInv
    <3> QED  BY <1>2, <1>3, <3>1, <3>2 DEF ChainInv, UnreadType
  <2> QED  BY <1>1, <1>3, <1>4, <2>1, <2>2, <2>3, Kept DEF SettleInv, ChainInv
<1> QED  BY <1>5, <1>6, <1>7, <1>8, <1>9 DEF Failures

\* The invariant holds initially, and every step keeps it.
LEMMA InitInv == Init => SettleInv
BY IdleType DEF Init, SettleInv, ChainInv, DbInv, CheckInv, PollInv, RootInv

LEMMA StepInv == TypeOK /\ PollReads /\ SettleInv /\ [Next]_vars => SettleInv'
<1> SUFFICES ASSUME TypeOK, PollReads, SettleInv, [Next]_vars PROVE SettleInv'  OBVIOUS
<1>1. CASE Next
  <2>1. CASE TwoWeeksPass
    BY <2>1 DEF TwoWeeksPass, SettleInv, ChainInv, DbInv, CheckInv, PollInv, RootInv,
                Safe, Spent, Late
  <2> QED  BY <1>1, <2>1, ChainStepInv, HandlersInv, WatchersInv, FailuresInv DEF Next
<1>2. CASE UNCHANGED vars
  <2>1. UNCHANGED chain /\ UNCHANGED <<unread, db, root, stored, checks, poll>>
    BY <1>2 DEF vars
  <2> QED  BY <2>1, Kept DEF SettleInv, ChainInv
<1> QED  BY <1>1, <1>2

\* What the db, the checks and the poll say of the chain is true in every state.
THEOREM SettleInvariant == Spec => []SettleInv
<1>1. Init => TypeOK /\ PollReads /\ SettleInv
  BY InitType, InitInv, IdleType DEF Init, PollReads
<1> QED  BY <1>1, TypeStep, StepInv, PTL DEF Spec

\* A transfer is marked as settled only when its bond has been, or when it is late.
THEOREM MarkedIsClearedHolds == Spec => []MarkedIsCleared
<1>1. SettleInv => MarkedIsCleared
  BY DEF SettleInv, DbInv, MarkedIsCleared, Safe
<1> QED  BY <1>1, SettleInvariant, PTL

\* A root marked allSettled has no transfer left to settle but the late ones.
THEOREM AllSettledIsSpentHolds == Spec => []AllSettledIsSpent
<1>1. SettleInv => AllSettledIsSpent
  BY DEF SettleInv, RootInv, AllSettledIsSpent, Spent
<1> QED  BY <1>1, SettleInvariant, PTL

-----------------------------------------------------------------------------
(* Whom a settle transaction is sent for.  Why: the bonders a poll collects *)
(* were read from the chain, and a bond never leaves its bonder.            *)

HasBond(b) == \E t \in Transfers : bond[t] = b

CallsInv == /\ \A b \in poll.bonders \cup mempool : HasBond(b)
            /\ \A e \in settlements : HasBond(e.bonder)

\* A step after which no call is made or on its way that was not before.
LEMMA NoMoreCalls ==
  ASSUME CallsInv, \A t \in Transfers : bond[t] # None => bond'[t] = bond[t],
         None \notin poll.bonders \cup mempool,
         poll'.bonders \subseteq poll.bonders,
         mempool' \subseteq mempool \cup poll.bonders,
         \A e \in settlements' : e \in settlements \/ e.bonder \in mempool,
         \A e \in settlements : e.bonder # None
  PROVE  CallsInv'
<1>1. ASSUME NEW b, b # None, HasBond(b) PROVE HasBond(b)'
  BY <1>1 DEF HasBond
<1> QED  BY <1>1 DEF CallsInv

LEMMA CallsStep == TypeOK /\ PollReads /\ SettleInv /\ CallsInv /\ [Next]_vars => CallsInv'
<1> SUFFICES ASSUME TypeOK, PollReads, SettleInv, CallsInv, [Next]_vars PROVE CallsInv'
  OBVIOUS
<1>1. /\ poll \in PollType /\ bond \in [Transfers -> Bonders \cup {None}]
      /\ db \in [Transfers -> Item]
      /\ mempool \subseteq Bonders /\ settlements \subseteq SettledEvent
  BY TypeParts DEF ChainType
<1>2. /\ None \notin poll.bonders \cup mempool
      /\ \A e \in settlements : e.bonder # None
  BY <1>1, BondersAssumption DEF PollType, SettledEvent
<1>3. Idle.bonders = {}  BY DEF Idle
<1>4. ASSUME UNCHANGED chain, poll'.bonders \subseteq poll.bonders PROVE CallsInv'
  BY <1>2, <1>4, NoMoreCalls DEF chain
<1>5. CASE DestinationChain
  <2>1. ASSUME NEW t \in Transfers, NEW b \in Bonders, Bond(t, b) PROVE CallsInv'
    BY <1>1, <1>2, <2>1, NoMoreCalls DEF Bond
  <2>2. ASSUME NEW t \in Transfers, Withdraw(t) PROVE CallsInv'
    BY <1>2, <2>2, NoMoreCalls DEF Withdraw
  <2>3. ASSUME NEW b \in Bonders, Settle(b) PROVE CallsInv'
    <3> DEFINE event == [bonder |-> b, transfers |-> {t \in Transfers : bond[t] = b} \ cleared]
    <3>1. /\ settlements' = settlements \cup {event} /\ b \in mempool
          /\ mempool' = mempool \ {b} /\ UNCHANGED <<bond, poll>>
      BY <2>3 DEF Settle
    <3>2. event.bonder = b  OBVIOUS
    <3> HIDE DEF event
    <3> QED  BY <1>2, <3>1, <3>2, NoMoreCalls
  <2> QED  BY <1>5, <2>1, <2>2, <2>3 DEF DestinationChain
<1>6. CASE Handlers
  <2>1. UNCHANGED chain /\ UNCHANGED poll
    BY <1>6 DEF Handlers, HandleTransferSent, HandleWithdrawalBonded, HandleWithdrew,
                HandleTransfersCommitted, HandleTransferRootSet,
                HandleMultipleWithdrawalsSettled, CheckRead, CheckEnd, CheckWrite
  <2> QED  BY <1>4, <2>1
<1>7. CASE Failures
  <2>1. UNCHANGED chain
    BY <1>7 DEF Failures, TransactionNotFound, CheckTransferRootIdFails, LoseSettled,
                ReadAgain, Crash
  <2>2. poll'.bonders \subseteq poll.bonders
    <3>1. ASSUME NEW b \in Bonders, CheckTransferRootIdFails(b)
          PROVE  poll'.bonders \subseteq poll.bonders
      BY <1>1, <1>3, <3>1 DEF CheckTransferRootIdFails, Asked, PollType
    <3>2. CASE Crash  BY <1>3, <3>2 DEF Crash
    <3> QED
      BY <1>7, <3>1, <3>2 DEF Failures, TransactionNotFound, LoseSettled, ReadAgain
  <2> QED  BY <1>4, <2>1, <2>2
<1>8. CASE PollRead
  <2> DEFINE t == CHOOSE u \in poll.unread : TRUE
             seen == Seen(db[t])
  <2>1. t \in Transfers /\ db[t] \in Item
    BY <1>1, <1>8 DEF PollRead, PollReads, PollType
  <2>2. UNCHANGED chain  BY <1>8 DEF PollRead
  <2>3. seen \in PollType /\ seen.bonders \subseteq poll.bonders \cup ({db[t].bonder} \ {None})
    <3>1. seen \in PollType  BY <1>1, <2>1, SeenType
    <3>2. seen.bonders = IF db[t].settled THEN poll.bonders
                         ELSE poll.bonders \cup ({db[t].bonder} \ {None})
      BY <1>1 DEF Seen, PollType
    <3> QED  BY <3>1, <3>2
  <2>4. \A b \in seen.bonders : HasBond(b)
    BY <2>1, <2>3 DEF SettleInv, DbInv, HasBond, CallsInv
  <2>5. poll' = IF poll.unread = {t} THEN Decide(seen)
                ELSE [seen EXCEPT !.unread = @ \ {t}]
    BY <1>8 DEF PollRead
  <2> HIDE DEF seen, t
  <2>6. Decide(seen).bonders \subseteq seen.bonders
    BY <1>3, <2>3 DEF Decide, Idle, PollType
  <2>7. poll'.bonders \subseteq seen.bonders
    BY <2>3, <2>5, <2>6 DEF PollType
  <2> QED  BY <2>2, <2>4, <2>7 DEF CallsInv, HasBond, chain
<1>9. ASSUME NEW b \in Bonders, CheckTransferRootId(b) PROVE CallsInv'
  <2>1. b \in poll.bonders /\ poll'.bonders \subseteq poll.bonders
    BY <1>1, <1>3, <1>9 DEF CheckTransferRootId, Asked, PollType
  <2>2. mempool' \subseteq mempool \cup {b} /\ UNCHANGED <<bond, settlements>>
    BY <1>9 DEF CheckTransferRootId
  <2> QED  BY <1>2, <2>1, <2>2, NoMoreCalls
<1>10. CASE PollUnsettled
  BY <1>3, <1>4, <1>10 DEF PollUnsettled, Idle
<1>11. CASE PopulateTransferRootDbItem \/ \E t \in Transfers : PopulateTransferDbItem(t)
  BY <1>4, <1>11 DEF PopulateTransferRootDbItem, PopulateTransferDbItem
<1>12. CASE UNCHANGED vars
  BY <1>4, <1>12 DEF vars
<1>13. CASE TwoWeeksPass
  BY <1>2, <1>13, NoMoreCalls DEF TwoWeeksPass
<1> QED
  BY <1>5, <1>6, <1>7, <1>8, <1>9, <1>10, <1>11, <1>12, <1>13 DEF Next, Watchers

\* No transaction is spent on a bonder without a bond in the root, whatever the polls and
\* handlers of several bonders interleave: a settle call is pending only for one that bonded
\* a transfer of the root, and every MultipleWithdrawalsSettled event is of such a bonder.
THEOREM OnlyBondersSettle ==
  Spec => [](/\ \A b \in mempool : HasBond(b)
             /\ \A e \in settlements : HasBond(e.bonder))
<1>1. Init => TypeOK /\ PollReads /\ SettleInv /\ CallsInv
  BY InitType, InitInv, IdleType DEF Init, PollReads, CallsInv, Idle
<1>2. CallsInv => /\ \A b \in mempool : HasBond(b)
                  /\ \A e \in settlements : HasBond(e.bonder)
  BY DEF CallsInv
<1> QED  BY <1>1, <1>2, TypeStep, StepInv, CallsStep, PTL DEF Spec
=============================================================================
