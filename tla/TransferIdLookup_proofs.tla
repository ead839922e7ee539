----------------------- MODULE TransferIdLookup_proofs -----------------------
(* Theorems about TransferIdLookup and their proofs. *)
EXTENDS TransferIdLookup, TLAPS

-----------------------------------------------------------------------------
(* The invariant, of a log l and the transfers p that wait. *)

Indexes == 0 .. MaxPendingTransfers - 1

Event == [type : {"sent", "committed"}, chain : Chains, index : Indexes,
          ids : Seq(Nat), block : Nat \ {0}, tx : Nat]

IsSent(l, c, i) == l[i].type = "sent" /\ l[i].chain = c
IsCommit(l, c, i) == l[i].type = "committed" /\ l[i].chain = c

\* Blocks, and transactions of a block, follow each other.
IsOrdered(l) ==
  \A i, j \in 1 .. Len(l) : i <= j =>
    \/ l[i].block < l[j].block
    \/ l[i].block = l[j].block /\ l[i].tx <= l[j].tx

\* Before any place in the log and any block there is no commit or a latest one.
CommitsBefore(l, c, n, b) == {i \in 1 .. n : IsCommit(l, c, i) /\ l[i].block < b}
HasLatest(l) ==
  \A c \in Chains, n \in 0 .. Len(l), b \in Nat :
    \/ CommitsBefore(l, c, n, b) = {}
    \/ \E p \in CommitsBefore(l, c, n, b) :
         \A i \in CommitsBefore(l, c, n, b) : i <= p

\* ids are the transfers to c that were sent before place e and after every commit
\* before it, in their order.
IsList(l, ids, c, e) ==
  /\ ids \in Seq(1 .. e - 1)
  /\ \A n \in 1 .. Len(ids) :
       /\ n <= ids[n]
       /\ IsSent(l, c, ids[n])
       /\ l[ids[n]].index = n - 1
  /\ \A j, n \in 1 .. Len(ids) : j < n => ids[j] < ids[n]
  /\ \A i \in 1 .. e - 1, n \in 1 .. Len(ids) : IsCommit(l, c, i) => i < ids[n]
  /\ \A i \in 1 .. e - 1 : IsSent(l, c, i) =>
       \/ \E n \in 1 .. Len(ids) : ids[n] = i
       \/ \E q \in i + 1 .. e - 1 : IsCommit(l, c, q)

IsRoot(l, e) == l[e].ids # <<>> /\ IsList(l, l[e].ids, l[e].chain, e)

LogInv(l, p) ==
  /\ l \in Seq(Event)
  /\ p \in [Chains -> Seq(Nat)]
  /\ IsOrdered(l)
  /\ HasLatest(l)
  /\ \A c \in Chains :
       Len(p[c]) <= MaxPendingTransfers /\ IsList(l, p[c], c, Len(l) + 1)
  /\ \A e \in 1 .. Len(l) : l[e].type = "committed" => IsRoot(l, e)

Place == [block : Nat \ {0}, tx : Nat]
IsNext(l, place) ==
  l # <<>> => LET last == l[Len(l)] IN
                \/ last.block < place.block
                \/ last.block = place.block /\ last.tx <= place.tx

-----------------------------------------------------------------------------
(* What is appended leaves lists and order as they were. *)

\* A list of transfers does not depend on what comes after it.
LEMMA ListIsKept ==
  ASSUME NEW l \in Seq(Event), NEW v \in Event, NEW ids, NEW c, NEW e \in 1 .. Len(l) + 1,
         IsList(l, ids, c, e)
  PROVE  IsList(Append(l, v), ids, c, e)
<1> DEFINE l2 == Append(l, v)
<1>1. \A i \in 1 .. e - 1 : l2[i] = l[i]
  OBVIOUS
<1> HIDE DEF l2
<1>2. ids \in Seq(1 .. e - 1) /\ \A n \in 1 .. Len(ids) : ids[n] \in 1 .. e - 1
  BY DEF IsList
<1>3. \A i \in 1 .. e - 1 : /\ IsSent(l2, c, i) <=> IsSent(l, c, i)
                           /\ IsCommit(l2, c, i) <=> IsCommit(l, c, i)
  BY <1>1 DEF IsSent, IsCommit
<1>4. \A n \in 1 .. Len(ids) :
        n <= ids[n] /\ IsSent(l2, c, ids[n]) /\ l2[ids[n]].index = n - 1
  BY <1>1, <1>2 DEF IsList, IsSent, IsCommit
<1>5. \A i \in 1 .. e - 1, n \in 1 .. Len(ids) : IsCommit(l2, c, i) => i < ids[n]
  BY <1>1 DEF IsList, IsCommit
<1>6. ASSUME NEW i \in 1 .. e - 1, IsSent(l2, c, i)
      PROVE  \/ \E n \in 1 .. Len(ids) : ids[n] = i
             \/ \E q \in i + 1 .. e - 1 : IsCommit(l2, c, q)
  <2>1. \/ \E n \in 1 .. Len(ids) : ids[n] = i
        \/ \E q \in i + 1 .. e - 1 : IsCommit(l, c, q)
    BY <1>1, <1>6 DEF IsList, IsSent, IsCommit
  <2>2. \A q \in i + 1 .. e - 1 : q \in 1 .. e - 1
    OBVIOUS
  <2> QED
    BY <1>3, <2>1, <2>2
<1>7. IsList(l2, ids, c, e)
  BY <1>2, <1>4, <1>5, <1>6 DEF IsList
<1> QED
  BY <1>7 DEF l2

\* An event of another destination does not change what waits.
LEMMA ListIsExtended ==
  ASSUME NEW l \in Seq(Event), NEW v \in Event, NEW ids, NEW c,
         IsList(l, ids, c, Len(l) + 1), v.chain # c
  PROVE  IsList(Append(l, v), ids, c, Len(l) + 2)
<1> DEFINE l2 == Append(l, v)
<1>1. IsList(l2, ids, c, Len(l) + 1)
  BY ListIsKept
<1>2. l2[Len(l) + 1] = v
  OBVIOUS
<1>3. ~IsSent(l2, c, Len(l) + 1) /\ ~IsCommit(l2, c, Len(l) + 1)
  BY <1>2 DEF IsSent, IsCommit
<1> HIDE DEF l2
<1>4. ids \in Seq(1 .. (Len(l) + 2) - 1)
  BY <1>1 DEF IsList
<1>5. \A i \in 1 .. (Len(l) + 2) - 1 :
        IsSent(l2, c, i) \/ IsCommit(l2, c, i) => i \in 1 .. (Len(l) + 1) - 1
  BY <1>3
<1>6. \A i \in 1 .. (Len(l) + 2) - 1, n \in 1 .. Len(ids) : IsCommit(l2, c, i) => i < ids[n]
  BY <1>1, <1>5 DEF IsList
<1>7. ASSUME NEW i \in 1 .. (Len(l) + 2) - 1, IsSent(l2, c, i)
      PROVE  \/ \E n \in 1 .. Len(ids) : ids[n] = i
             \/ \E q \in i + 1 .. (Len(l) + 2) - 1 : IsCommit(l2, c, q)
  <2>1. \/ \E n \in 1 .. Len(ids) : ids[n] = i
        \/ \E q \in i + 1 .. (Len(l) + 1) - 1 : IsCommit(l2, c, q)
    BY <1>1, <1>5, <1>7 DEF IsList
  <2> QED
    BY <2>1
<1>8. IsList(l2, ids, c, Len(l) + 2)
  BY <1>1, <1>4, <1>6, <1>7 DEF IsList
<1> QED
  BY <1>8 DEF l2

LEMMA OrderIsKept ==
  ASSUME NEW l \in Seq(Event), NEW v \in Event, IsOrdered(l),
         IsNext(l, [block |-> v.block, tx |-> v.tx])
  PROVE  IsOrdered(Append(l, v))
<1> DEFINE l2 == Append(l, v)
<1>1. Len(l2) = Len(l) + 1 /\ l2[Len(l) + 1] = v /\ \A i \in 1 .. Len(l) : l2[i] = l[i]
  OBVIOUS
<1>2. \A i \in 1 .. Len(l) : l[i].block \in Nat /\ l[i].tx \in Nat
  <2>1. \A i \in 1 .. Len(l) : l[i] \in Event
    OBVIOUS
  <2> QED
    BY <2>1 DEF Event
<1>3. v.block \in Nat /\ v.tx \in Nat
  BY DEF Event
<1> HIDE DEF l2
<1>4. \A i \in 1 .. Len(l) : \/ l2[i].block < v.block
                             \/ l2[i].block = v.block /\ l2[i].tx <= v.tx
  <2> TAKE i \in 1 .. Len(l)
  <2>1. l # <<>> /\ Len(l) \in 1 .. Len(l)
    OBVIOUS
  <2>2. \/ l[i].block < l[Len(l)].block
        \/ l[i].block = l[Len(l)].block /\ l[i].tx <= l[Len(l)].tx
    BY <2>1 DEF IsOrdered
  <2>3. \/ l[Len(l)].block < v.block
        \/ l[Len(l)].block = v.block /\ l[Len(l)].tx <= v.tx
    BY <2>1 DEF IsNext
  <2> QED
    BY <1>1, <1>2, <1>3, <2>1, <2>2, <2>3
<1>5. SUFFICES ASSUME NEW i \in 1 .. Len(l2), NEW j \in 1 .. Len(l2), i <= j
               PROVE  \/ l2[i].block < l2[j].block
                      \/ l2[i].block = l2[j].block /\ l2[i].tx <= l2[j].tx
  BY DEF IsOrdered, l2
<1>6. CASE j = Len(l) + 1
  <2>1. CASE i = j
    BY <1>1, <1>3, <1>6, <2>1
  <2>2. CASE i # j
    BY <1>1, <1>4, <1>6, <2>2
  <2> QED
    BY <2>1, <2>2
<1>7. CASE j # Len(l) + 1
  <2>1. i \in 1 .. Len(l) /\ j \in 1 .. Len(l)
    BY <1>1, <1>5, <1>7
  <2> QED
    BY <1>1, <1>5, <2>1 DEF IsOrdered
<1> QED
  BY <1>6, <1>7

LEMMA LatestIsKept ==
  ASSUME NEW l \in Seq(Event), NEW v \in Event, HasLatest(l)
  PROVE  HasLatest(Append(l, v))
<1> DEFINE l2 == Append(l, v)
<1>1. Len(l2) = Len(l) + 1 /\ l2[Len(l) + 1] = v /\ \A i \in 1 .. Len(l) : l2[i] = l[i]
  OBVIOUS
<1> HIDE DEF l2
<1> SUFFICES ASSUME NEW c \in Chains, NEW n \in 0 .. Len(l2), NEW b \in Nat
             PROVE  \/ CommitsBefore(l2, c, n, b) = {}
                    \/ \E p \in CommitsBefore(l2, c, n, b) :
                         \A i \in CommitsBefore(l2, c, n, b) : i <= p
  BY DEF HasLatest, l2
<1>2. ASSUME NEW k \in 0 .. Len(l)
      PROVE  CommitsBefore(l2, c, k, b) = CommitsBefore(l, c, k, b)
  BY <1>1 DEF CommitsBefore, IsCommit
<1>3. CASE n \in 0 .. Len(l)
  <2>1. CommitsBefore(l2, c, n, b) = CommitsBefore(l, c, n, b)
    BY <1>2, <1>3
  <2> QED
    BY <1>3, <2>1 DEF HasLatest
<1>4. CASE n = Len(l) + 1
  <2>1. CASE IsCommit(l2, c, n) /\ l2[n].block < b
    <3>1. n \in CommitsBefore(l2, c, n, b)
      BY <1>4, <2>1 DEF CommitsBefore
    <3>2. \A i \in CommitsBefore(l2, c, n, b) : i <= n
      BY <1>4 DEF CommitsBefore
    <3> QED
      BY <3>1, <3>2
  <2>2. CASE ~(IsCommit(l2, c, n) /\ l2[n].block < b)
    <3>1. CommitsBefore(l2, c, n, b) = CommitsBefore(l2, c, Len(l), b)
      BY <1>4, <2>2 DEF CommitsBefore
    <3>2. CommitsBefore(l2, c, n, b) = CommitsBefore(l, c, Len(l), b)
      BY <1>2, <3>1
    <3> QED
      BY <3>2 DEF HasLatest
  <2> QED
    BY <2>1, <2>2
<1> QED
  BY <1>1, <1>3, <1>4

-----------------------------------------------------------------------------
(* The calls of the bridge keep the invariant. *)

\* The lists of the commits that were there already.
LEMMA RootsAreKept ==
  ASSUME NEW l, NEW p, NEW v \in Event, LogInv(l, p),
         NEW e \in 1 .. Len(l), Append(l, v)[e].type = "committed"
  PROVE  IsRoot(Append(l, v), e)
<1>1. l \in Seq(Event) /\ Append(l, v)[e] = l[e]
  BY DEF LogInv
<1>2. IsRoot(l, e)
  BY <1>1 DEF LogInv
<1>3. IsList(Append(l, v), l[e].ids, l[e].chain, e)
  BY <1>1, <1>2, ListIsKept DEF IsRoot
<1> QED
  BY <1>1, <1>2, <1>3 DEF IsRoot

\* A commit takes what waits for its destination.
LEMMA CommitKeepsInv ==
  ASSUME NEW l, NEW p, LogInv(l, p), NEW c \in Chains, p[c] # <<>>,
         NEW place \in Place, IsNext(l, place)
  PROVE  LogInv(Append(l, TransfersCommitted(c, p[c], place)), [p EXCEPT ![c] = <<>>])
<1> DEFINE v == TransfersCommitted(c, p[c], place)
           l2 == Append(l, v)
           p2 == [p EXCEPT ![c] = <<>>]
<1>1. l \in Seq(Event) /\ p \in [Chains -> Seq(Nat)]
  BY DEF LogInv
<1>2. v \in Event /\ v.type = "committed" /\ v.chain = c /\ v.ids = p[c]
      /\ v.block = place.block /\ v.tx = place.tx
  BY <1>1, LookupAssumption DEF TransfersCommitted, Event, Indexes, Place
<1>3. place = [block |-> v.block, tx |-> v.tx]
  BY <1>2 DEF Place
<1> HIDE DEF v
<1>4. l2 \in Seq(Event) /\ Len(l2) = Len(l) + 1 /\ l2[Len(l) + 1] = v
  BY <1>1, <1>2
<1>5. IsOrdered(l2)
  BY <1>1, <1>2, <1>3, OrderIsKept DEF LogInv
<1>6. HasLatest(l2)
  BY <1>1, <1>2, LatestIsKept DEF LogInv
<1>7. p2 \in [Chains -> Seq(Nat)]
  BY <1>1
<1>8. ASSUME NEW d \in Chains
      PROVE  Len(p2[d]) <= MaxPendingTransfers /\ IsList(l2, p2[d], d, Len(l2) + 1)
  <2>1. CASE d = c
    <3>1. p2[d] = <<>> /\ Len(p2[d]) <= MaxPendingTransfers
      BY <1>1, <2>1, LookupAssumption
    <3>2. \A i \in 1 .. Len(l) + 1 : IsSent(l2, c, i) => i \in 1 .. Len(l)
      BY <1>2, <1>4 DEF IsSent
    <3>3. IsCommit(l2, c, Len(l) + 1)
      BY <1>2, <1>4 DEF IsCommit
    <3>4. \A i \in 1 .. (Len(l) + 2) - 1 : IsSent(l2, c, i) =>
            \E q \in i + 1 .. (Len(l) + 2) - 1 : IsCommit(l2, c, q)
      BY <1>1, <3>2, <3>3
    <3>5. IsList(l2, <<>>, c, Len(l) + 2)
      BY <1>1, <3>4 DEF IsList
    <3> QED
      BY <1>1, <1>4, <2>1, <3>1, <3>5
  <2>2. CASE d # c
    <3>1. p2[d] = p[d] /\ Len(p[d]) <= MaxPendingTransfers /\ IsList(l, p[d], d, Len(l) + 1)
      BY <1>1, <2>2 DEF LogInv
    <3>2. IsList(l2, p[d], d, Len(l) + 2)
      BY <1>1, <1>2, <2>2, <3>1, ListIsExtended
    <3> QED
      BY <1>1, <1>4, <3>1, <3>2
  <2> QED
    BY <2>1, <2>2
<1>9. ASSUME NEW e \in 1 .. Len(l2), l2[e].type = "committed"
      PROVE  IsRoot(l2, e)
  <2>1. CASE e = Len(l) + 1
    <3>1. IsList(l, p[c], c, e)
      BY <2>1 DEF LogInv
    <3>2. IsList(l2, p[c], c, e)
      BY <1>1, <1>2, <2>1, <3>1, ListIsKept
    <3> QED
      BY <1>2, <1>4, <2>1, <3>2 DEF IsRoot
  <2>2. CASE e # Len(l) + 1
    BY <1>2, <1>4, <1>9, <2>2, RootsAreKept
  <2> QED
    BY <2>1, <2>2
<1>10. LogInv(l2, p2)
  BY <1>4, <1>5, <1>6, <1>7, <1>8, <1>9 DEF LogInv
<1> QED
  BY <1>10 DEF v

\* A transfer goes to the end of what waits for its destination.
LEMMA SendKeepsInv ==
  ASSUME NEW l, NEW p, LogInv(l, p), NEW c \in Chains, Len(p[c]) < MaxPendingTransfers,
         NEW place \in Place, IsNext(l, place)
  PROVE  LogInv(Append(l, TransferSent(c, Len(p[c]), place)),
                [p EXCEPT ![c] = Append(p[c], Len(l) + 1)])
<1> DEFINE v == TransferSent(c, Len(p[c]), place)
           l2 == Append(l, v)
           ids == p[c]
           ids2 == Append(ids, Len(l) + 1)
           p2 == [p EXCEPT ![c] = ids2]
<1>1. l \in Seq(Event) /\ p \in [Chains -> Seq(Nat)]
  BY DEF LogInv
<1>2. v \in Event /\ v.type = "sent" /\ v.chain = c /\ v.index = Len(p[c])
      /\ v.block = place.block /\ v.tx = place.tx
  <2>1. Len(p[c]) \in Indexes
    BY <1>1, LookupAssumption DEF Indexes
  <2> QED
    BY <2>1 DEF TransferSent, Event, Place
<1>3. place = [block |-> v.block, tx |-> v.tx]
  BY <1>2 DEF Place
<1> HIDE DEF v
<1>4. l2 \in Seq(Event) /\ Len(l2) = Len(l) + 1 /\ l2[Len(l) + 1] = v
  BY <1>1, <1>2
<1>5. IsOrdered(l2)
  BY <1>1, <1>2, <1>3, OrderIsKept DEF LogInv
<1>6. HasLatest(l2)
  BY <1>1, <1>2, LatestIsKept DEF LogInv
<1>7. p2 \in [Chains -> Seq(Nat)]
  BY <1>1
<1>8. IsList(l2, ids2, c, Len(l) + 2)
  <2>1. IsList(l, ids, c, Len(l) + 1)
    BY DEF LogInv
  <2>2. IsList(l2, ids, c, Len(l) + 1)
    BY <1>1, <1>2, <2>1, ListIsKept
  <2>3. IsSent(l2, c, Len(l) + 1) /\ ~IsCommit(l2, c, Len(l) + 1)
        /\ l2[Len(l) + 1].index = Len(ids)
    BY <1>2, <1>4 DEF IsSent, IsCommit
  <2> HIDE DEF l2, ids
  <2>4. ids \in Seq(1 .. Len(l)) /\ Len(l) \in Nat
    BY <1>1, <2>1 DEF IsList
  <2>5. /\ ids2 \in Seq(1 .. (Len(l) + 2) - 1)
        /\ Len(ids2) = Len(ids) + 1
        /\ ids2[Len(ids) + 1] = Len(l) + 1
        /\ \A n \in 1 .. Len(ids) : ids2[n] = ids[n] /\ ids[n] \in 1 .. Len(l)
    BY <2>4
  <2> HIDE DEF ids2
  <2>6. Len(ids) <= Len(l)
    <3>1. CASE Len(ids) = 0
      BY <2>4, <3>1
    <3>2. CASE Len(ids) # 0
      <4>1. Len(ids) \in 1 .. Len(ids)
        BY <2>4, <3>2
      <4>2. Len(ids) <= ids[Len(ids)]
        BY <2>2, <4>1 DEF IsList
      <4> QED
        BY <2>4, <2>5, <4>1, <4>2
    <3> QED
      BY <3>1, <3>2
  <2>7. \A n \in 1 .. Len(ids2) :
          n <= ids2[n] /\ IsSent(l2, c, ids2[n]) /\ l2[ids2[n]].index = n - 1
    <3> TAKE n \in 1 .. Len(ids2)
    <3>1. CASE n = Len(ids) + 1
      BY <2>3, <2>4, <2>5, <2>6, <3>1
    <3>2. CASE n # Len(ids) + 1
      <4>1. n \in 1 .. Len(ids)
        BY <2>4, <2>5, <3>2
      <4> QED
        BY <2>2, <2>5, <4>1 DEF IsList
    <3> QED
      BY <3>1, <3>2
  <2>8. \A j, n \in 1 .. Len(ids2) : j < n => ids2[j] < ids2[n]
    <3> SUFFICES ASSUME NEW j \in 1 .. Len(ids2), NEW n \in 1 .. Len(ids2), j < n
                 PROVE  ids2[j] < ids2[n]
      OBVIOUS
    <3>1. j \in 1 .. Len(ids)
      BY <2>4, <2>5
    <3>2. CASE n = Len(ids) + 1
      BY <2>4, <2>5, <3>1, <3>2
    <3>3. CASE n # Len(ids) + 1
      <4>1. n \in 1 .. Len(ids)
        BY <2>4, <2>5, <3>3
      <4> QED
        BY <2>2, <2>5, <3>1, <4>1 DEF IsList
    <3> QED
      BY <3>2, <3>3
  <2>9. ASSUME NEW i \in 1 .. (Len(l) + 2) - 1, NEW n \in 1 .. Len(ids2), IsCommit(l2, c, i)
        PROVE  i < ids2[n]
    <3>1. i \in 1 .. Len(l)
      BY <2>3, <2>4, <2>9
    <3>2. CASE n = Len(ids) + 1
      BY <2>4, <2>5, <3>1, <3>2
    <3>3. CASE n # Len(ids) + 1
      <4>1. n \in 1 .. Len(ids)
        BY <2>4, <2>5, <3>3
      <4>2. i \in 1 .. (Len(l) + 1) - 1
        BY <2>4, <3>1
      <4>3. i < ids[n]
        BY <2>2, <2>9, <4>1, <4>2 DEF IsList
      <4> QED
        BY <2>5, <4>1, <4>3
    <3> QED
      BY <3>2, <3>3
  <2>10. ASSUME NEW i \in 1 .. (Len(l) + 2) - 1, IsSent(l2, c, i)
         PROVE  \/ \E n \in 1 .. Len(ids2) : ids2[n] = i
                \/ \E q \in i + 1 .. (Len(l) + 2) - 1 : IsCommit(l2, c, q)
    <3>1. CASE i = Len(l) + 1
      BY <2>4, <2>5, <3>1
    <3>2. CASE i # Len(l) + 1
      <4>1. i \in 1 .. (Len(l) + 1) - 1
        BY <2>4, <3>2
      <4>2. \/ \E n \in 1 .. Len(ids) : ids[n] = i
            \/ \E q \in i + 1 .. (Len(l) + 1) - 1 : IsCommit(l2, c, q)
        BY <2>2, <2>10, <4>1 DEF IsList
      <4> QED
        BY <2>4, <2>5, <4>2
    <3> QED
      BY <3>1, <3>2
  <2> QED
    BY <2>5, <2>7, <2>8, <2>9, <2>10 DEF IsList
<1>9. ASSUME NEW d \in Chains
      PROVE  Len(p2[d]) <= MaxPendingTransfers /\ IsList(l2, p2[d], d, Len(l2) + 1)
  <2>1. CASE d = c
    <3>1. p2[d] = ids2 /\ Len(ids2) <= MaxPendingTransfers
      BY <1>1, <2>1, LookupAssumption
    <3> QED
      BY <1>1, <1>4, <1>8, <2>1, <3>1
  <2>2. CASE d # c
    <3>1. p2[d] = p[d] /\ Len(p[d]) <= MaxPendingTransfers /\ IsList(l, p[d], d, Len(l) + 1)
      BY <1>1, <2>2 DEF LogInv
    <3>2. IsList(l2, p[d], d, Len(l) + 2)
      BY <1>1, <1>2, <2>2, <3>1, ListIsExtended
    <3> QED
      BY <1>1, <1>4, <3>1, <3>2
  <2> QED
    BY <2>1, <2>2
<1>10. ASSUME NEW e \in 1 .. Len(l2), l2[e].type = "committed"
       PROVE  IsRoot(l2, e)
  <2>1. e # Len(l) + 1
    BY <1>2, <1>4, <1>10
  <2> QED
    BY <1>2, <1>4, <1>10, <2>1, RootsAreKept
<1>11. LogInv(l2, p2)
  BY <1>4, <1>5, <1>6, <1>7, <1>9, <1>10 DEF LogInv
<1> QED
  BY <1>11 DEF v

-----------------------------------------------------------------------------
(* The invariant of the specification. *)

Inv == LogInv(log, pending) /\ Len(log) <= MaxEvents

LEMMA PlacesAreNext ==
  ASSUME log \in Seq(Event), NEW place \in Places
  PROVE  place \in Place /\ IsNext(log, place)
<1>1. CASE log = <<>>
  BY <1>1 DEF Places, Place, IsNext, BridgeDeployedBlockNumber
<1>2. CASE log # <<>>
  <2>1. log[Len(log)] \in Event
    BY <1>2
  <2>2. log[Len(log)].block \in Nat \ {0} /\ log[Len(log)].tx \in Nat
    BY <2>1 DEF Event
  <2> QED
    BY <1>2, <2>2 DEF Places, Place, IsNext
<1> QED
  BY <1>1, <1>2

LEMMA InitInv == Init => Inv
<1> SUFFICES ASSUME Init PROVE Inv
  OBVIOUS
<1>1. log \in Seq(Event) /\ Len(log) = 0 /\ Len(log) <= MaxEvents
  BY LookupAssumption DEF Init
<1>2. pending \in [Chains -> Seq(Nat)]
  BY DEF Init
<1>3. IsOrdered(log)
  BY <1>1 DEF IsOrdered
<1>4. HasLatest(log)
  BY <1>1 DEF HasLatest, CommitsBefore
<1>5. \A c \in Chains :
        Len(pending[c]) <= MaxPendingTransfers /\ IsList(log, pending[c], c, Len(log) + 1)
  <2> TAKE c \in Chains
  <2>1. pending[c] = <<>> /\ Len(pending[c]) = 0
    BY DEF Init
  <2>2. 1 .. (Len(log) + 1) - 1 = {}
    BY <1>1
  <2>3. pending[c] \in Seq(1 .. (Len(log) + 1) - 1)
    BY <2>1
  <2>4. 1 .. Len(pending[c]) = {}
    BY <2>1
  <2>5. IsList(log, pending[c], c, Len(log) + 1)
    BY <2>2, <2>3, <2>4 DEF IsList
  <2> QED
    BY <2>1, <2>5, LookupAssumption
<1> QED
  BY <1>1, <1>2, <1>3, <1>4, <1>5 DEF Inv, LogInv

LEMMA NextInv == Inv /\ [Next]_vars => Inv'
<1> SUFFICES ASSUME Inv, [Next]_vars PROVE Inv'
  OBVIOUS
<1>1. log \in Seq(Event) /\ pending \in [Chains -> Seq(Nat)] /\ Len(log) <= MaxEvents
  BY DEF Inv, LogInv
<1>2. ASSUME NEW c \in Chains, Send(c) PROVE Inv'
  <2>1. PICK place \in Places :
          LET full == Len(pending[c]) >= MaxPendingTransfers
              waiting == IF full THEN <<>> ELSE pending[c]
              committed == IF full
                           THEN Append(log, TransfersCommitted(c, pending[c], place))
                           ELSE log
          IN /\ log' = Append(committed, TransferSent(c, Len(waiting), place))
             /\ pending' = [pending EXCEPT ![c] = Append(waiting, Len(committed) + 1)]
    BY <1>2 DEF Send
  <2>2. place \in Place /\ IsNext(log, place)
    BY <1>1, PlacesAreNext
  <2>3. Len(log) + 2 <= MaxEvents
    BY <1>2 DEF Send
  <2>4. CASE Len(pending[c]) >= MaxPendingTransfers
    <3> DEFINE l2 == Append(log, TransfersCommitted(c, pending[c], place))
               p2 == [pending EXCEPT ![c] = <<>>]
    <3>1. pending[c] # <<>>
      BY <2>4, LookupAssumption
    <3>2. LogInv(l2, p2)
      BY <2>2, <3>1, CommitKeepsInv DEF Inv
    <3>3. Len(l2) = Len(log) + 1 /\ l2[Len(l2)] = TransfersCommitted(c, pending[c], place)
      BY <1>1
    <3>4. IsNext(l2, place)
      BY <2>2, <3>3 DEF IsNext, TransfersCommitted, Place
    <3>5. p2[c] = <<>>
      BY <1>1
    <3>6. log' = Append(l2, TransferSent(c, 0, place))
      BY <2>1, <2>4
    <3>7. pending' = [p2 EXCEPT ![c] = Append(<<>>, Len(l2) + 1)]
      BY <1>1, <2>1, <2>4
    <3>8. l2 \in Seq(Event)
      BY <3>2 DEF LogInv
    <3> HIDE DEF l2, p2
    <3>9. LogInv(log', pending')
      <4>1. Len(p2[c]) = 0 /\ 0 < MaxPendingTransfers
        BY <3>5, LookupAssumption
      <4>2. LogInv(Append(l2, TransferSent(c, Len(p2[c]), place)),
                   [p2 EXCEPT ![c] = Append(p2[c], Len(l2) + 1)])
        BY <2>2, <3>2, <3>4, <4>1, SendKeepsInv
      <4> QED
        BY <3>5, <3>6, <3>7, <4>1, <4>2
    <3>10. Len(log') <= MaxEvents
      BY <1>1, <2>3, <3>3, <3>6, <3>8, LookupAssumption
    <3> QED
      BY <3>9, <3>10 DEF Inv
  <2>5. CASE ~(Len(pending[c]) >= MaxPendingTransfers)
    <3>1. Len(pending[c]) < MaxPendingTransfers
      BY <1>1, <2>5, LookupAssumption
    <3>2. /\ log' = Append(log, TransferSent(c, Len(pending[c]), place))
          /\ pending' = [pending EXCEPT ![c] = Append(pending[c], Len(log) + 1)]
      BY <2>1, <2>5
    <3>3. LogInv(log', pending')
      BY <2>2, <3>1, <3>2, SendKeepsInv DEF Inv
    <3>4. Len(log') <= MaxEvents
      BY <1>1, <2>3, <3>2, LookupAssumption
    <3> QED
      BY <3>3, <3>4 DEF Inv
  <2> QED
    BY <2>4, <2>5
<1>3. ASSUME NEW c \in Chains, CommitTransfers(c) PROVE Inv'
  <2>1. PICK place \in Places : log' = Append(log, TransfersCommitted(c, pending[c], place))
    BY <1>3 DEF CommitTransfers
  <2>2. place \in Place /\ IsNext(log, place)
    BY <1>1, PlacesAreNext
  <2>3. /\ pending[c] # <<>> /\ pending' = [pending EXCEPT ![c] = <<>>]
        /\ Len(log) < MaxEvents
    BY <1>3 DEF CommitTransfers
  <2>4. LogInv(log', pending')
    BY <2>1, <2>2, <2>3, CommitKeepsInv DEF Inv
  <2>5. Len(log') <= MaxEvents
    BY <1>1, <2>1, <2>3, LookupAssumption
  <2> QED
    BY <2>4, <2>5 DEF Inv
<1>4. CASE UNCHANGED vars
  BY <1>4 DEF vars, Inv
<1> QED
  BY <1>2, <1>3, <1>4 DEF Next

LEMMA InvHolds == Spec => []Inv
<1> QED
  BY InitInv, NextInv, PTL DEF Spec

-----------------------------------------------------------------------------
(* What was found sorts into the list of the root. *)

\* What the invariant says of a commit.
LEMMA RootFacts ==
  ASSUME Inv, NEW e \in Commits
  PROVE  /\ e \in 1 .. Len(log) /\ log \in Seq(Event)
         /\ log[e].ids \in Seq(1 .. e - 1) /\ log[e].ids # <<>>
         /\ IsList(log, log[e].ids, log[e].chain, e)
         /\ \A i \in 1 .. Len(log) : log[i].block \in Nat /\ log[i].tx \in Nat
                                    /\ log[i].index \in Nat /\ log[i].chain \in Chains
<1>1. log \in Seq(Event)
  BY DEF Inv, LogInv
<1>2. e \in 1 .. Len(log) /\ log[e].type = "committed"
  BY <1>1 DEF Commits
<1>3. IsRoot(log, e)
  BY <1>2 DEF Inv, LogInv
<1>4. ASSUME NEW i \in 1 .. Len(log)
      PROVE  /\ log[i].block \in Nat /\ log[i].tx \in Nat
             /\ log[i].index \in Nat /\ log[i].chain \in Chains
  <2>1. log[i] \in Event
    BY <1>1
  <2> QED
    BY <2>1, LookupAssumption DEF Event, Indexes
<1> QED
  BY <1>1, <1>2, <1>3, <1>4 DEF IsRoot, IsList

\* A search for the commit e that found its transfers, read those of earlier blocks at
\* the start at the earliest, and sorts what was sent later after it.
IsSearch(items, e, startBlock, order) ==
  /\ items \subseteq {i \in 1 .. Len(log) : IsSent(log, log[e].chain, i)}
  /\ Own(e) \subseteq items
  /\ startBlock \in Nat
  /\ \A i \in items : startBlock <= log[i].block /\ order[i] \in Int
  /\ \A i \in OfRootsAfter(items, e), j \in Own(e) :
       log[i].index = log[j].index => ~IsBefore(i, j, order)

LEMMA SearchIsSorted ==
  ASSUME Inv, NEW e \in Commits, NEW items, NEW startBlock, NEW order,
         IsSearch(items, e, startBlock, order), CanBeToldApart(items, e)
  PROVE  GetSortedTransferIds(items, startBlock, order) = log[e].ids
<1> DEFINE ids == log[e].ids
           length == Len(ids)
           Before(n) == {i \in OfRootsBefore(items, e) : log[i].index = n}
           After(n) == {i \in OfRootsAfter(items, e) : log[i].index = n}
<1>1. /\ e \in 1 .. Len(log) /\ Len(log) \in Nat
      /\ ids \in Seq(1 .. e - 1) /\ ids # <<>>
      /\ \A i \in 1 .. Len(log) : log[i].block \in Nat /\ log[i].tx \in Nat
                                 /\ log[i].index \in Nat
  BY RootFacts
<1>2. IsList(log, ids, log[e].chain, e)
  BY RootFacts
<1>3. IsOrdered(log)
  BY DEF Inv, LogInv
<1>4. ~IsSent(log, log[e].chain, e)
  BY DEF Commits, IsSent
<1> HIDE DEF ids
<1>5. /\ length \in Nat \ {0} /\ length <= Len(log)
      /\ \A n \in 1 .. length : ids[n] \in 1 .. e - 1 /\ log[ids[n]].index = n - 1
                               /\ ids[n] \in Own(e) /\ ids[n] \in items
  <2>1. length \in Nat \ {0} /\ \A n \in 1 .. length : ids[n] \in 1 .. e - 1
    BY <1>1
  <2>2. \A n \in 1 .. length : n <= ids[n] /\ log[ids[n]].index = n - 1
    BY <1>2 DEF IsList
  <2>3. length \in 1 .. length
    BY <2>1
  <2>4. length <= ids[length] /\ ids[length] \in 1 .. e - 1
    BY <2>1, <2>2, <2>3
  <2>5. \A n \in 1 .. length : ids[n] \in Own(e)
    BY <1>1 DEF Own, ids
  <2>6. length <= Len(log)
    BY <1>1, <2>1, <2>4
  <2> QED
    BY <2>1, <2>2, <2>5, <2>6 DEF IsSearch
<1>6. \A i \in Own(e) : \E n \in 1 .. length : ids[n] = i
  BY <1>1 DEF Own, ids
\* The transfers with one index: one of this root, and those of the roots around it.
<1>7. ASSUME NEW n \in 0 .. length - 1
      PROVE  WithIndex(items, n) = {ids[n + 1]} \cup Before(n) \cup After(n)
  <2>1. n + 1 \in 1 .. length
    BY <1>5
  <2>2. ids[n + 1] \in WithIndex(items, n)
    BY <1>5, <2>1 DEF WithIndex
  <2>3. Before(n) \cup After(n) \subseteq WithIndex(items, n)
    BY DEF WithIndex, OfRootsBefore, OfRootsAfter
  <2>4. ASSUME NEW i \in WithIndex(items, n), i \notin Before(n), i \notin After(n)
        PROVE  i = ids[n + 1]
    <3>1. i \in items /\ log[i].index = n /\ i \in 1 .. Len(log) /\ i # e
      BY <1>4, <2>4 DEF WithIndex, IsSearch
    <3>2. i \in Own(e)
      BY <1>1, <2>4, <3>1 DEF OfRootsBefore, OfRootsAfter
    <3>3. PICK k \in 1 .. length : ids[k] = i
      BY <1>6, <3>2
    <3>4. k - 1 = n
      BY <1>5, <3>1, <3>3
    <3> QED
      BY <1>5, <3>3, <3>4
  <2> QED
    BY <2>2, <2>3, <2>4
<1>8. Length(items) = length
  <2>1. WithIndex(items, length) = {}
    <3> SUFFICES ASSUME NEW i \in items, log[i].index = length PROVE FALSE
      BY DEF WithIndex
    <3>1. i \in 1 .. Len(log) /\ i # e
      BY <1>4 DEF IsSearch
    <3>2. CASE i \in Own(e)
      BY <1>5, <1>6, <3>2
    <3>3. CASE i \notin Own(e)
      <4>1. i \in OfRootsBefore(items, e) \/ i \in OfRootsAfter(items, e)
        BY <1>1, <3>1, <3>3 DEF OfRootsBefore, OfRootsAfter
      <4> QED
        BY <1>5, <4>1 DEF CanBeToldApart, ids
    <3> QED
      BY <3>2, <3>3
  <2>2. \A n \in 0 .. length - 1 : WithIndex(items, n) # {}
    BY <1>7
  <2>3. IsLength(items, length) /\ length \in 0 .. Len(log)
    BY <1>1, <1>5, <2>1, <2>2 DEF IsLength
  <2>4. ASSUME NEW n \in 0 .. Len(log), IsLength(items, n) PROVE n = length
    <3>1. ~(n < length)
      BY <1>5, <2>2, <2>4 DEF IsLength
    <3>2. ~(length < n)
      BY <1>5, <2>1, <2>4 DEF IsLength
    <3> QED
      BY <1>5, <3>1, <3>2
  <2> QED
    BY <2>3, <2>4 DEF Length
\* Later transfers of the log are not in earlier blocks.
<1>9. \A i, j \in 1 .. Len(log) : i <= j => log[i].block <= log[j].block
  <2> SUFFICES ASSUME NEW i \in 1 .. Len(log), NEW j \in 1 .. Len(log), i <= j
               PROVE  log[i].block <= log[j].block
    OBVIOUS
  <2>1. log[i].block < log[j].block \/ log[i].block = log[j].block
    BY <1>3 DEF IsOrdered
  <2> QED
    BY <1>1, <2>1
<1>10. \A n \in 1 .. length : log[ids[1]].block <= log[ids[n]].block
  <2> TAKE n \in 1 .. length
  <2>1. ids[1] <= ids[n]
    <3>1. 1 \in 1 .. length /\ ids[1] \in Int /\ ids[n] \in Int
      BY <1>5
    <3>2. n = 1 \/ 1 < n
      BY <1>5
    <3>3. 1 < n => ids[1] < ids[n]
      BY <1>2, <3>1 DEF IsList
    <3> QED
      BY <3>1, <3>2, <3>3
  <2>2. ids[1] \in 1 .. Len(log) /\ ids[n] \in 1 .. Len(log)
    BY <1>1, <1>5
  <2> QED
    BY <1>9, <2>1, <2>2
\* With no transfer of a root before, the one of this root comes first.
<1>11. ASSUME NEW n \in 0 .. length - 1, Before(n) = {}
       PROVE  Seen(items, n, order) = ids[n + 1]
  <2> DEFINE own == ids[n + 1]
  <2>1. n + 1 \in 1 .. length /\ own \in items /\ own \in Own(e) /\ log[own].index = n
        /\ own \in 1 .. e - 1
    BY <1>5
  <2>2. own \in 1 .. Len(log)
    BY <1>1, <2>1
  <2> HIDE DEF own
  <2>3. WithIndex(items, n) = {own} \cup After(n)
    BY <1>7, <1>11 DEF own
  <2>4. log[own].block \in Nat /\ order[own] \in Int
    BY <1>1, <2>1, <2>2 DEF IsSearch
  <2>5. IsBefore(own, own, order)
    BY <2>4 DEF IsBefore
  <2>6. ASSUME NEW i \in After(n)
        PROVE  IsBefore(own, i, order) /\ ~IsBefore(i, own, order)
    <3>1. ~IsBefore(i, own, order)
      BY <2>1, <2>6 DEF IsSearch
    <3>2. log[i].block \in Nat /\ order[i] \in Int
      BY <1>1, <2>6 DEF IsSearch, OfRootsAfter
    <3> QED
      BY <2>4, <3>1, <3>2 DEF IsBefore
  <2> QED
    BY <2>3, <2>5, <2>6 DEF Seen, First, own
\* A transfer of a root before is in an earlier block than all of this root.
<1>12. ASSUME NEW n \in 0 .. length - 1, NEW i \in Before(n)
       PROVE  /\ n > 0 /\ After(n) = {}
              /\ log[i].block < log[ids[1]].block
              /\ startBlock <= log[i].block
  BY <1>1, <1>5, <1>12 DEF CanBeToldApart, OfRootsBefore, IsSearch, ids
<1>13. log[Seen(items, 0, order)].block = log[ids[1]].block
  <2>1. 0 \in 0 .. length - 1
    BY <1>5
  <2>2. Before(0) = {}
    BY <1>12, <2>1
  <2> QED
    BY <1>11, <2>1, <2>2
<1> DEFINE IsReplaced(n) ==
             /\ Replacements(items, n, startBlock) # {}
             /\ \/ n > LateIndex
                \/ \E i \in WithIndex(items, n) :
                     log[i].block < log[Seen(items, 0, order)].block
           Sorted(n) == IF IsReplaced(n)
                        THEN Last(Replacements(items, n, startBlock), order)
                        ELSE Seen(items, n, order)
<1>14. ASSUME NEW n \in 0 .. length - 1
       PROVE  Sorted(n) = ids[n + 1]
  <2> DEFINE own == ids[n + 1]
  <2>1. n + 1 \in 1 .. length /\ own \in items /\ own \in Own(e) /\ log[own].index = n
        /\ own \in 1 .. e - 1 /\ log[ids[1]].block <= log[own].block
    BY <1>5, <1>10
  <2>2. own \in 1 .. Len(log) /\ ids[1] \in 1 .. Len(log)
    BY <1>1, <1>5, <2>1
  <2>3. log[own].block \in Nat /\ order[own] \in Int /\ log[ids[1]].block \in Nat
    BY <1>1, <2>1, <2>2 DEF IsSearch
  <2>4. WithIndex(items, n) = {own} \cup Before(n) \cup After(n)
    BY <1>7
  <2> HIDE DEF own
  <2>5. CASE Before(n) # {}
    <3>1. PICK j \in Before(n) : TRUE
      BY <2>5
    <3>2. ASSUME NEW i \in Before(n)
          PROVE  log[i].block \in Nat /\ log[i].block < log[own].block
      <4>1. i \in 1 .. Len(log)
        BY <3>2 DEF OfRootsBefore, IsSearch
      <4>2. log[i].block < log[ids[1]].block /\ log[i].block \in Nat
        BY <1>1, <1>12, <3>2, <4>1
      <4> QED
        BY <2>1, <2>3, <4>2
    <3>3. After(n) = {} /\ startBlock <= log[j].block /\ log[j].block < log[ids[1]].block
      BY <1>12, <3>1
    <3>4. startBlock \in Nat
      BY DEF IsSearch
    <3>5. log[own].block > startBlock /\ log[j].block < log[own].block
      BY <2>3, <3>1, <3>2, <3>3, <3>4
    <3>6. own \in Replacements(items, n, startBlock)
      BY <2>4, <3>1, <3>5 DEF Replacements
    <3>7. Replacements(items, n, startBlock) \subseteq {own} \cup Before(n)
      BY <2>4, <3>3 DEF Replacements
    <3>8. \A i \in Before(n) : IsBefore(i, own, order) /\ ~IsBefore(own, i, order)
      BY <2>3, <3>2 DEF IsBefore
    <3>9. IsBefore(own, own, order)
      BY <2>3 DEF IsBefore
    <3>10. Last(Replacements(items, n, startBlock), order) = own
      BY <3>6, <3>7, <3>8, <3>9 DEF Last
    <3>11. IsReplaced(n)
      BY <1>13, <2>4, <3>1, <3>3, <3>6
    <3> QED
      BY <3>10, <3>11 DEF own
  <2>6. CASE Before(n) = {}
    <3>1. ASSUME NEW i \in After(n)
          PROVE  /\ log[i].block \in Nat /\ log[own].block <= log[i].block
                 /\ ~(n > LateIndex)
      <4>1. i \in 1 .. Len(log) /\ i > e
        BY <3>1 DEF OfRootsAfter, IsSearch
      <4>2. own <= i
        BY <1>1, <2>1, <4>1
      <4>3. log[i].block \in Nat /\ log[own].block <= log[i].block
        BY <1>1, <1>9, <2>2, <4>1, <4>2
      <4>4. n <= LateIndex
        BY <3>1 DEF CanBeToldApart
      <4> QED
        BY <4>3, <4>4, LookupAssumption
    <3>2. \A i \in WithIndex(items, n) : ~(log[i].block < log[ids[1]].block)
      BY <2>1, <2>3, <2>4, <2>6, <3>1
    <3>3. ~IsReplaced(n)
      <4>1. CASE After(n) = {}
        <5>1. Replacements(items, n, startBlock) = {}
          BY <2>3, <2>4, <2>6, <4>1 DEF Replacements
        <5> QED
          BY <5>1
      <4>2. CASE After(n) # {}
        BY <1>13, <3>1, <3>2, <4>2
      <4> QED
        BY <4>1, <4>2
    <3> QED
      BY <1>11, <2>6, <3>3
  <2> QED
    BY <2>5, <2>6
<1>15. GetSortedTransferIds(items, startBlock, order) = [n \in 1 .. length |-> Sorted(n - 1)]
  BY <1>8 DEF GetSortedTransferIds
<1> HIDE DEF Sorted
<1>16. \A n \in 1 .. length : Sorted(n - 1) = ids[n]
  <2> TAKE n \in 1 .. length
  <2>1. n - 1 \in 0 .. length - 1 /\ (n - 1) + 1 = n
    BY <1>5
  <2> QED
    BY <1>14, <2>1
<1>17. ids = [n \in 1 .. length |-> ids[n]]
  BY <1>1
<1> QED
  BY <1>15, <1>16, <1>17 DEF ids

-----------------------------------------------------------------------------
(* The two searches. *)

\* A quotient and its remainder.
LEMMA Quotient ==
  ASSUME NEW a \in Nat, NEW d \in Nat \ {0}, NEW q \in Int, q = a \div d
  PROVE  q \in Nat /\ q * d <= a /\ a < q * d + d
BY SMTT(30)

\* A quotient is no more than what is divided.
LEMMA QuotientIsSmall ==
  ASSUME NEW q \in Nat, NEW d \in Nat \ {0}
  PROVE  q * d \in Nat /\ q <= q * d
<1>1. q * d \in Nat
  OBVIOUS
<1>2. PICK e \in Nat : d = e + 1
  <2>1. d - 1 \in Nat /\ d = (d - 1) + 1
    OBVIOUS
  <2> QED
    BY <2>1
<1>3. q * e \in Nat /\ q * (e + 1) = q * e + q
  BY <1>2
<1> QED
  BY <1>1, <1>2, <1>3

\* The batches cover the blocks from start to end.
LEMMA BatchesCover ==
  ASSUME NEW start \in Nat, NEW end \in Nat
  PROVE  BatchesDownTo(start, end) = start .. end
<1> SUFFICES ASSUME NEW b \in start .. end
             PROVE  \E k \in 0 .. end - start :
                      LastOfBatch(end, k) - BatchBlocks <= b /\ b <= LastOfBatch(end, k)
  BY DEF BatchesDownTo
<1>1. PICK size \in Nat \ {0} : size = BatchBlocks + 1
  BY LookupAssumption
<1>2. end - b \in Nat
  OBVIOUS
<1>3. PICK k \in Int : k = (end - b) \div size
  BY <1>1, <1>2
<1>4. k \in Nat /\ k * size <= end - b /\ end - b < k * size + size
  BY <1>1, <1>2, <1>3, Quotient
<1>5. PICK m \in Nat : m = k * size /\ k <= m
  BY <1>1, <1>4, QuotientIsSmall
<1>6. LastOfBatch(end, k) = end - m
  BY <1>1, <1>5 DEF LastOfBatch
<1>7. BatchBlocks \in Nat /\ m <= end - b /\ end - b < m + BatchBlocks + 1
  BY <1>1, <1>4, <1>5, LookupAssumption
<1>8. k \in 0 .. end - start
  BY <1>4, <1>5, <1>7
<1>9. end - m - BatchBlocks <= b /\ b <= end - m
  BY <1>7
<1> QED
  BY <1>6, <1>8, <1>9

\* The latest of some commits is before some place and block, when there is one.
LEMMA LatestIs ==
  ASSUME Inv, NEW c \in Chains, NEW n \in 0 .. Len(log), NEW b \in Nat,
         CommitsBefore(log, c, n, b) # {}
  PROVE  Latest(CommitsBefore(log, c, n, b)) \in CommitsBefore(log, c, n, b)
<1> DEFINE S == CommitsBefore(log, c, n, b)
<1>1. PICK p \in S : \A i \in S : i <= p
  BY DEF Inv, LogInv, HasLatest
<1> QED
  BY <1>1 DEF Latest

\* A search from the latest commit before some block on: the transfers of e are in reach.
LEMMA StartIs ==
  ASSUME Inv, NEW e \in Commits, NEW b \in Nat, NEW n \in 0 .. Len(log), NEW commits,
         commits = CommitsBefore(log, log[e].chain, n, b),
         n < e \/ b <= log[e].block
  PROVE  /\ StartBlock(commits) \in Nat
         /\ commits # {} => Latest(commits) \in 1 .. e - 1
         /\ \A o \in Own(e) :
              /\ StartBlock(commits) <= log[o].block /\ log[o].block <= log[e].block
              /\ commits # {} => Latest(commits) < o
              /\ o \in 1 .. e - 1
<1>1. /\ e \in 1 .. Len(log) /\ log \in Seq(Event)
      /\ log[e].ids \in Seq(1 .. e - 1)
      /\ IsList(log, log[e].ids, log[e].chain, e)
      /\ \A i \in 1 .. Len(log) : log[i].block \in Nat /\ log[i].chain \in Chains
  BY RootFacts
<1>2. ASSUME NEW i \in 1 .. Len(log), NEW j \in 1 .. Len(log), i <= j
      PROVE  log[i].block <= log[j].block
  <2>1. log[i].block < log[j].block \/ log[i].block = log[j].block
    BY <1>2 DEF Inv, LogInv, IsOrdered
  <2> QED
    BY <1>1, <2>1
<1>3. ASSUME commits # {}
      PROVE  /\ Latest(commits) \in 1 .. e - 1
             /\ IsCommit(log, log[e].chain, Latest(commits))
  <2>1. Latest(commits) \in commits
    BY <1>1, <1>3, LatestIs
  <2>2. Latest(commits) \in 1 .. n /\ IsCommit(log, log[e].chain, Latest(commits))
        /\ log[Latest(commits)].block < b
    BY <2>1 DEF CommitsBefore
  <2>3. CASE n < e
    BY <1>1, <2>2, <2>3
  <2>4. CASE b <= log[e].block
    <3>1. Latest(commits) \in 1 .. Len(log)
      BY <1>1, <2>2
    <3>2. ~(e <= Latest(commits))
      BY <1>1, <1>2, <2>2, <2>4, <3>1
    <3> QED
      BY <1>1, <2>2, <3>1, <3>2
  <2> QED
    BY <2>2, <2>3, <2>4
<1>4. ASSUME NEW o \in Own(e)
      PROVE  /\ o \in 1 .. e - 1 /\ o \in 1 .. Len(log)
             /\ commits # {} => Latest(commits) < o
             /\ log[o].block <= log[e].block
  <2>0. DOMAIN log[e].ids = 1 .. Len(log[e].ids)
    BY <1>1
  <2>1. PICK k \in 1 .. Len(log[e].ids) : o = log[e].ids[k]
    BY <1>4, <2>0 DEF Own
  <2>2. o \in 1 .. e - 1 /\ o \in 1 .. Len(log) /\ o <= e
    BY <1>1, <2>1
  <2>3. commits # {} => Latest(commits) < o
    BY <1>1, <1>3, <2>1 DEF IsList
  <2>4. log[o].block <= log[e].block
    BY <1>1, <1>2, <2>2
  <2> QED
    BY <2>2, <2>3, <2>4
<1>5. CASE commits = {}
  <2>1. StartBlock(commits) = 1
    BY <1>5 DEF StartBlock, BridgeDeployedBlockNumber
  <2>2. \A i \in 1 .. Len(log) : log[i].block \in Nat \ {0}
    <3> TAKE i \in 1 .. Len(log)
    <3>1. log[i] \in Event
      BY <1>1
    <3> QED
      BY <3>1 DEF Event
  <2>3. \A i \in 1 .. Len(log) : 1 <= log[i].block
    BY <2>2
  <2> QED
    BY <1>4, <1>5, <2>1, <2>3
<1>6. CASE commits # {}
  <2>1. StartBlock(commits) = log[Latest(commits)].block
    BY <1>6 DEF StartBlock
  <2>2. Latest(commits) \in 1 .. e - 1 /\ Latest(commits) \in 1 .. Len(log)
    BY <1>1, <1>3, <1>6
  <2>3. \A o \in Own(e) : log[Latest(commits)].block <= log[o].block
    BY <1>2, <1>4, <1>6, <2>2
  <2> QED
    BY <1>1, <1>4, <1>6, <2>1, <2>2, <2>3
<1> QED
  BY <1>5, <1>6

\* The first search of the watcher finds the commits before.
LEMMA PriorCommitsAre ==
  ASSUME Inv, NEW e \in Commits
  PROVE  PriorCommits(e) = CommitsBefore(log, log[e].chain, e - 1, log[e].block + 1)
<1> DEFINE c == log[e].chain
           commits == PriorCommits(e)
<1>1. /\ e \in 1 .. Len(log) /\ log \in Seq(Event)
      /\ \A i \in 1 .. Len(log) : log[i].block \in Nat /\ log[i].tx \in Nat
                                 /\ log[i].chain \in Chains
  BY RootFacts
<1>2. \A i \in 1 .. Len(log) : log[i].block \in Nat \ {0}
  <2> TAKE i \in 1 .. Len(log)
  <2>1. log[i] \in Event
    BY <1>1
  <2> QED
    BY <2>1 DEF Event
<1>3. \A i, j \in 1 .. Len(log) : i <= j =>
        \/ log[i].block < log[j].block
        \/ log[i].block = log[j].block /\ log[i].tx <= log[j].tx
  BY DEF Inv, LogInv, IsOrdered
<1>4. BatchesDownTo(BridgeDeployedBlockNumber, log[e].block) = 1 .. log[e].block
  BY <1>1, BatchesCover DEF BridgeDeployedBlockNumber
<1>5. \A i \in 1 .. Len(log) : i < e => log[i].block \in 1 .. log[e].block
  BY <1>1, <1>2, <1>3
<1>6. commits = {i \in 1 .. Len(log) : /\ IsCommit(log, c, i) /\ i < e
                                      /\ log[i].block \in 1 .. log[e].block}
  BY <1>1, <1>4 DEF PriorCommits, Events, IsCommit
<1>7. \A i \in 1 .. Len(log) : i < e =>
        (log[i].block \in 1 .. log[e].block /\ log[i].block < log[e].block + 1)
  BY <1>1, <1>5
<1>8. \A i : i \in 1 .. e - 1 <=> i \in 1 .. Len(log) /\ i < e
  BY <1>1
<1> QED
  BY <1>6, <1>7, <1>8 DEF CommitsBefore

\* The search of the watcher is one.
LEMMA TransfersBetweenIsSearch ==
  ASSUME Inv, NEW e \in Commits
  PROVE  IsSearch(TransfersBetween(e), e, StartBlock(PriorCommits(e)), [i \in DOMAIN log |-> i])
<1> DEFINE c == log[e].chain
           commits == PriorCommits(e)
           start == StartBlock(commits)
           items == TransfersBetween(e)
           order == [i \in DOMAIN log |-> i]
<1>1. /\ e \in 1 .. Len(log) /\ log \in Seq(Event)
      /\ IsList(log, log[e].ids, log[e].chain, e)
      /\ log[e].ids \in Seq(1 .. e - 1)
      /\ \A i \in 1 .. Len(log) : log[i].block \in Nat /\ log[i].tx \in Nat
                                 /\ log[i].chain \in Chains
  BY RootFacts
<1>2. \A i \in 1 .. Len(log) : log[i].block \in Nat \ {0}
  <2> TAKE i \in 1 .. Len(log)
  <2>1. log[i] \in Event
    BY <1>1
  <2> QED
    BY <2>1 DEF Event
<1>3. \A i, j \in 1 .. Len(log) : i <= j =>
        \/ log[i].block < log[j].block
        \/ log[i].block = log[j].block /\ log[i].tx <= log[j].tx
  BY DEF Inv, LogInv, IsOrdered
<1>4. commits = CommitsBefore(log, c, e - 1, log[e].block + 1)
  BY PriorCommitsAre
<1>5. /\ start \in Nat
      /\ commits # {} => Latest(commits) \in 1 .. e - 1
      /\ \A o \in Own(e) :
           /\ start <= log[o].block /\ log[o].block <= log[e].block
           /\ commits # {} => Latest(commits) < o
           /\ o \in 1 .. e - 1
  <2>1. PICK n \in 0 .. Len(log) : n = e - 1
    BY <1>1
  <2>2. PICK b \in Nat : b = log[e].block + 1
    BY <1>1
  <2>3. n < e
    BY <1>1, <2>1
  <2>4. commits = CommitsBefore(log, log[e].chain, n, b)
    BY <1>4, <2>1, <2>2
  <2> QED
    BY <2>3, <2>4, StartIs
<1> HIDE DEF commits, start
<1>6. items = {i \in 1 .. Len(log) : /\ IsSent(log, c, i) /\ IsBetween(i, e, commits)
                                    /\ log[i].block \in start .. log[e].block}
  <2>1. BatchesDownTo(start, log[e].block) = start .. log[e].block
    BY <1>1, <1>5, BatchesCover
  <2> QED
    BY <1>1, <2>1 DEF TransfersBetween, Events, IsSent, commits, start
<1> HIDE DEF items
<1>7. ASSUME NEW o \in Own(e) PROVE o \in items
  <2>1. o \in 1 .. e - 1 /\ o \in 1 .. Len(log) /\ o < e
    BY <1>1, <1>5, <1>7
  <2>2. IsSent(log, c, o)
    <3>1. PICK k \in 1 .. Len(log[e].ids) : o = log[e].ids[k]
      BY <1>1, <1>7 DEF Own
    <3> QED
      BY <1>1, <3>1 DEF IsList
  <2>3. log[o].block \in start .. log[e].block
    BY <1>1, <1>5, <1>7, <2>1
  <2>4. IsBetween(o, e, commits)
    <3>1. commits # {} /\ log[o].block = log[Latest(commits)].block
            => log[o].tx >= log[Latest(commits)].tx
      <4> SUFFICES ASSUME commits # {}, log[o].block = log[Latest(commits)].block
                   PROVE  log[o].tx >= log[Latest(commits)].tx
        OBVIOUS
      <4>0. commits # {}
        OBVIOUS
      <4>1. Latest(commits) \in 1 .. Len(log) /\ Latest(commits) <= o
        <5>1. Latest(commits) \in 1 .. e - 1 /\ Latest(commits) < o
          BY <1>5, <1>7, <4>0
        <5> QED
          BY <1>1, <2>1, <5>1
      <4>2. log[Latest(commits)].tx <= log[o].tx
        BY <1>1, <1>3, <2>1, <4>1
      <4> QED
        BY <1>1, <2>1, <4>1, <4>2
    <3>2. log[o].block = log[e].block => log[o].tx <= log[e].tx
      BY <1>1, <1>3, <2>1
    <3> QED
      BY <3>1, <3>2 DEF IsBetween
  <2> QED
    BY <1>6, <2>1, <2>2, <2>3, <2>4
<1>8. ASSUME NEW i \in items
      PROVE  start <= log[i].block /\ order[i] \in Int /\ i \in 1 .. Len(log)
             /\ IsSent(log, log[e].chain, i)
  BY <1>1, <1>5, <1>6
<1>9. ASSUME NEW i \in OfRootsAfter(items, e), NEW j \in Own(e)
      PROVE  ~IsBefore(i, j, order)
  <2>1. i \in 1 .. Len(log) /\ i > e
    BY <1>8 DEF OfRootsAfter
  <2>2. j \in 1 .. Len(log) /\ j < i
    BY <1>1, <1>5, <2>1
  <2>3. order[i] = i /\ order[j] = j
    BY <1>1, <2>1, <2>2
  <2>4. ~(log[i].block < log[j].block)
    <3>1. log[j].block < log[i].block \/ log[j].block = log[i].block
      BY <1>1, <1>3, <2>1, <2>2
    <3>2. log[i].block \in Nat /\ log[j].block \in Nat
      BY <1>1, <2>1, <2>2
    <3> QED
      BY <3>1, <3>2
  <2> QED
    BY <2>1, <2>2, <2>3, <2>4 DEF IsBefore
<1>10. IsSearch(items, e, start, order)
  BY <1>5, <1>7, <1>8, <1>9 DEF IsSearch
<1> QED
  BY <1>10 DEF items, start, commits

\* So is the one of theGraph, when later transfers are in later blocks.
LEMMA TransfersOfBlocksIsSearch ==
  ASSUME Inv, NEW e \in Commits, NEW order \in IdOrders,
         CanBeToldApart(TransfersOfBlocks(e), e), IsSentLater(TransfersOfBlocks(e), e)
  PROVE  IsSearch(TransfersOfBlocks(e), e, StartBlock(PriorBlockCommits(e)), order)
<1> DEFINE c == log[e].chain
           commits == PriorBlockCommits(e)
           start == StartBlock(commits)
           items == TransfersOfBlocks(e)
<1>1. /\ e \in 1 .. Len(log) /\ log \in Seq(Event)
      /\ IsList(log, log[e].ids, log[e].chain, e)
      /\ log[e].ids \in Seq(1 .. e - 1)
      /\ \A i \in 1 .. Len(log) : log[i].block \in Nat /\ log[i].chain \in Chains
  BY RootFacts
<1>2. commits = CommitsBefore(log, c, Len(log), log[e].block)
  <2>1. \A i \in 1 .. Len(log) : log[i].block \in 0 .. log[e].block - 1
                               <=> log[i].block < log[e].block
    BY <1>1
  <2> QED
    BY <1>1, <2>1 DEF PriorBlockCommits, Events, CommitsBefore, IsCommit
<1>3. /\ start \in Nat
      /\ \A o \in Own(e) : /\ start <= log[o].block /\ log[o].block <= log[e].block
                           /\ o \in 1 .. e - 1
  <2>1. Len(log) \in 0 .. Len(log) /\ log[e].block \in Nat /\ log[e].block <= log[e].block
    BY <1>1
  <2> QED
    BY <1>1, <1>2, <2>1, StartIs
<1> HIDE DEF commits, start
<1>4. items = {i \in 1 .. Len(log) : /\ IsSent(log, c, i)
                                    /\ log[i].block \in start .. log[e].block}
  BY <1>1 DEF TransfersOfBlocks, Events, IsSent, commits, start
<1>5. CanBeToldApart(items, e) /\ IsSentLater(items, e)
  OBVIOUS
<1> HIDE DEF items
<1>6. ASSUME NEW o \in Own(e)
      PROVE  o \in items /\ o \in 1 .. Len(log)
             /\ \E k \in 1 .. Len(log[e].ids) : o = log[e].ids[k] /\ log[o].index = k - 1
  <2>1. o \in 1 .. Len(log)
    BY <1>1, <1>3, <1>6
  <2>2. PICK k \in 1 .. Len(log[e].ids) : o = log[e].ids[k]
    BY <1>1, <1>6 DEF Own
  <2>3. IsSent(log, c, o) /\ log[o].index = k - 1
    BY <1>1, <2>2 DEF IsList
  <2>4. log[o].block \in start .. log[e].block
    BY <1>1, <1>3, <1>6, <2>1
  <2> QED
    BY <1>4, <2>1, <2>2, <2>3, <2>4
<1>7. ASSUME NEW i \in items
      PROVE  start <= log[i].block /\ order[i] \in Int /\ i \in 1 .. Len(log)
             /\ IsSent(log, log[e].chain, i)
  <2>1. i \in 1 .. Len(log) /\ IsSent(log, c, i) /\ log[i].block \in start .. log[e].block
    BY <1>4
  <2>2. i \in 1 .. MaxEvents /\ order \in [1 .. MaxEvents -> Int]
    BY <1>1, <2>1, LookupAssumption DEF Inv
  <2> QED
    BY <1>1, <1>3, <2>1, <2>2
<1>8. ASSUME NEW i \in OfRootsAfter(items, e), NEW j \in Own(e), log[i].index = log[j].index
      PROVE  ~IsBefore(i, j, order)
  <2>1. PICK k \in 1 .. Len(log[e].ids) : j = log[e].ids[k] /\ log[j].index = k - 1
    BY <1>6
  <2>2. log[e].ids[log[i].index + 1] = j
    BY <1>8, <2>1
  <2>3. log[i].block > log[j].block
    BY <1>5, <2>2 DEF IsSentLater
  <2>4. log[i].block \in Nat /\ log[j].block \in Nat
    BY <1>1, <1>6, <1>7 DEF OfRootsAfter
  <2> QED
    BY <2>3, <2>4 DEF IsBefore
<1>9. IsSearch(items, e, start, order)
  BY <1>3, <1>6, <1>7, <1>8 DEF IsSearch
<1> QED
  BY <1>9 DEF items, start, commits

\* A commit with a block of its own is searched without a throw: the search begins before.
LEMMA SearchIsTaken ==
  ASSUME Inv, NEW e \in Commits, HasSearchableBlock(e)
  PROVE  IsSearchable(e)
<1> DEFINE commits == PriorCommits(e)
<1>1. /\ e \in 1 .. Len(log) /\ log \in Seq(Event)
      /\ \A i \in 1 .. Len(log) : log[i].block \in Nat
  BY RootFacts
<1>2. log[e].block \in Nat \ {0}
  <2>1. log[e] \in Event
    BY <1>1
  <2> QED
    BY <2>1 DEF Event
<1>3. IsBatchInput(BridgeDeployedBlockNumber, log[e].block)
  BY <1>2 DEF HasSearchableBlock, IsBatchInput, BridgeDeployedBlockNumber
<1>4. CASE commits = {}
  BY <1>3, <1>4 DEF IsSearchable, StartBlock
<1>5. CASE commits # {}
  <2> DEFINE last == Latest(commits)
  <2>1. last \in commits
    <3>1. PICK n \in 0 .. Len(log) : n = e - 1
      BY <1>1
    <3>2. PICK b \in Nat : b = log[e].block + 1
      BY <1>2
    <3>3. commits = CommitsBefore(log, log[e].chain, n, b)
      BY <3>1, <3>2, PriorCommitsAre
    <3> QED
      BY <1>5, <3>3, LatestIs, RootFacts
  <2>2. last \in Commits /\ last < e /\ log[last].chain = log[e].chain
    BY <1>1, <2>1 DEF PriorCommits, Events, Commits
  <2>3. log[last].block # log[e].block
    BY <2>2 DEF HasSearchableBlock
  <2>4. last \in 1 .. Len(log)
    BY <1>1, <2>2 DEF Commits
  <2>5. log[last].block <= log[e].block
    BY <1>1, <2>2, <2>4 DEF Inv, LogInv, IsOrdered
  <2>6. StartBlock(commits) < log[e].block
    BY <1>1, <1>5, <2>3, <2>4, <2>5 DEF StartBlock
  <2> QED
    BY <1>3, <2>6 DEF IsSearchable, IsBatchInput
<1> QED
  BY <1>4, <1>5

\* The watcher gets the list of every root right that is alone in the block of its commit,
\* after the one the bridge was deployed in, and whose transfers can be told apart from
\* those of the roots around it: for any history of the bridge, sizes of roots and of
\* batches.
THEOREM LookupExact == Spec => []LookupIsExact
<1>1. ASSUME Inv, NEW e \in Commits, HasSearchableBlock(e),
             CanBeToldApart(TransfersBetween(e), e)
      PROVE  LookupTransferIds(e) = log[e].ids
  <2>1. IsSearchable(e)
    BY <1>1, SearchIsTaken
  <2> QED
    BY <1>1, <2>1, TransfersBetweenIsSearch, SearchIsSorted DEF LookupTransferIds
<1>2. ASSUME Inv PROVE LookupIsExact
  BY <1>1, <1>2 DEF LookupIsExact
<1> QED
  BY InvHolds, <1>2, PTL

\* So does theGraph, whatever the order of the transfers of a block.
THEOREM GraphLookupExact == Spec => []GraphLookupIsExact
<1>1. ASSUME Inv PROVE GraphLookupIsExact
  BY <1>1, TransfersOfBlocksIsSearch, SearchIsSorted
     DEF GraphLookupIsExact, GetTransferIdsForTransferRoot
<1> QED
  BY InvHolds, <1>1, PTL
=============================================================================
