----------------------- MODULE SchedulerBlock_proofs -----------------------
(***************************************************************************)
(* Proofs about SchedulerBlock, for every set of nodes and priorities,     *)
(* every mix of owner calls and an arbitrary guest.  The lemmas about the  *)
(* queue come first: what QueuePush adds to it, and that a priority queue  *)
(* stays in delivery order.  Then the block: types, the account of what    *)
(* was offered, the size of a schedule, the order of visits, samples that  *)
(* start fresh.                                                            *)
(***************************************************************************)
EXTENDS SchedulerBlock, SequenceLemmas

-----------------------------------------------------------------------------
(* The queue.                                                               *)

\* The place of a new entry is a position of the longer queue.
LEMMA PlaceInRange ==
    ASSUME NEW S, NEW q \in Seq(S), NEW kind \in QueueTypes, NEW e
    PROVE  Place(kind, q, e) \in 1 .. Len(q) + 1
<1>1. Len(q) \in Nat /\ DOMAIN q = 1 .. Len(q)
  BY LenProperties
<1>2. CASE kind = PRIO
  <2> DEFINE ahead == {i \in DOMAIN q : ~Outranks(e, q[i])}
  <2>1. IsFiniteSet(1 .. Len(q)) /\ Cardinality(1 .. Len(q)) = Len(q)
    BY <1>1, FS_Interval
  <2>2. ahead \in SUBSET (1 .. Len(q))
    BY <1>1
  <2> HIDE DEF ahead
  <2>3. Cardinality(ahead) \in Nat /\ Cardinality(ahead) <= Len(q)
    BY <2>1, <2>2, FS_Subset, FS_CardinalityType
  <2>4. Place(kind, q, e) = 1 + Cardinality(ahead)
    BY <1>2 DEF Place, ahead, FIFO, FILO, PRIO
  <2> QED
    BY <1>1, <2>3, <2>4
<1>3. CASE kind # PRIO
  BY <1>1, <1>3 DEF Place, QueueTypes, FIFO, FILO, PRIO
<1> QED
  BY <1>2, <1>3

\* Every kind of queue gains the node that is pushed and no other.
LEMMA QueuePushGains ==
    ASSUME NEW S, NEW q \in Seq(S), NEW kind \in QueueTypes, NEW nid, NEW p,
           Stored(kind, nid, p) \in S
    PROVE  /\ QueuePush(kind, q, nid, p) \in Seq(S)
           /\ Len(QueuePush(kind, q, nid, p)) = Len(q) + 1
           /\ Queued(QueuePush(kind, q, nid, p)) = Queued(q) \cup {nid}
<1> DEFINE e == Stored(kind, nid, p)
           i == Place(kind, q, e)
           r == QueuePush(kind, q, nid, p)
<1>1. Len(q) \in Nat /\ DOMAIN q = 1 .. Len(q)
  BY LenProperties
<1>2. i \in 1 .. Len(q) + 1
  BY PlaceInRange
<1>3. r = InsertAt(q, i, e)
  BY DEF QueuePush
<1>4. e.nid = nid /\ e \in S
  BY DEF Stored
<1> HIDE DEF e, i, r
<1>5. /\ r \in Seq(S)
      /\ Len(r) = Len(q) + 1
      /\ \A k \in 1 .. Len(q) + 1 :
            r[k] = IF k < i THEN q[k] ELSE IF k = i THEN e ELSE q[k - 1]
  BY <1>2, <1>3, <1>4, InsertAtPositions
<1>6. DOMAIN r = 1 .. Len(q) + 1
  BY <1>5, LenProperties
<1>7. Queued(r) \subseteq Queued(q) \cup {nid}
  <2> SUFFICES ASSUME NEW k \in DOMAIN r
               PROVE  r[k].nid \in Queued(q) \cup {nid}
    BY DEF Queued
  <2>1. CASE k < i
    BY <1>1, <1>2, <1>5, <1>6, <2>1 DEF Queued
  <2>2. CASE k = i
    BY <1>4, <1>5, <1>6, <2>2
  <2>3. CASE k > i
    <3>1. k - 1 \in DOMAIN q /\ r[k] = q[k - 1]
      BY <1>1, <1>2, <1>5, <1>6, <2>3
    <3> QED
      BY <3>1 DEF Queued
  <2> QED
    BY <1>1, <1>2, <1>6, <2>1, <2>2, <2>3
<1>8. Queued(q) \subseteq Queued(r)
  <2> SUFFICES ASSUME NEW k \in DOMAIN q
               PROVE  q[k].nid \in Queued(r)
    BY DEF Queued
  <2>1. CASE k < i
    <3>1. k \in DOMAIN r /\ r[k] = q[k]
      BY <1>1, <1>5, <1>6, <2>1
    <3> QED
      BY <3>1 DEF Queued
  <2>2. CASE k >= i
    <3>1. k + 1 \in DOMAIN r /\ r[k + 1] = q[k]
      BY <1>1, <1>2, <1>5, <1>6, <2>2
    <3> QED
      BY <3>1 DEF Queued
  <2> QED
    BY <1>1, <1>2, <2>1, <2>2
<1>9. nid \in Queued(r)
  <2>1. i \in DOMAIN r /\ r[i].nid = nid
    BY <1>1, <1>2, <1>4, <1>5, <1>6
  <2> QED
    BY <2>1 DEF Queued
<1> QED
  BY <1>5, <1>7, <1>8, <1>9 DEF r

\* A node that is not queued yet is queued once: no two entries of the longer
\* queue share a node if no two entries of the shorter one do.
LEMMA QueuePushKeepsDistinct ==
    ASSUME NEW S, NEW q \in Seq(S), NEW kind \in QueueTypes, NEW nid, NEW p,
           Stored(kind, nid, p) \in S,
           nid \notin Queued(q),
           \A j, k \in DOMAIN q : q[j].nid = q[k].nid => j = k
    PROVE  LET r == QueuePush(kind, q, nid, p)
           IN  \A j, k \in DOMAIN r : r[j].nid = r[k].nid => j = k
<1> DEFINE e == Stored(kind, nid, p)
           i == Place(kind, q, e)
           r == QueuePush(kind, q, nid, p)
           From(k) == IF k < i THEN k ELSE k - 1
<1>1. Len(q) \in Nat /\ DOMAIN q = 1 .. Len(q)
  BY LenProperties
<1>2. i \in 1 .. Len(q) + 1
  BY PlaceInRange
<1>3. r = InsertAt(q, i, e)
  BY DEF QueuePush
<1>4. e.nid = nid /\ e \in S
  BY DEF Stored
<1> HIDE DEF e, i, r
<1>5. /\ r \in Seq(S)
      /\ Len(r) = Len(q) + 1
      /\ \A k \in 1 .. Len(q) + 1 :
            r[k] = IF k < i THEN q[k] ELSE IF k = i THEN e ELSE q[k - 1]
  BY <1>2, <1>3, <1>4, InsertAtPositions
<1>6. DOMAIN r = 1 .. Len(q) + 1
  BY <1>5, LenProperties
<1>7. \A k \in DOMAIN r : k # i => From(k) \in DOMAIN q /\ r[k] = q[From(k)]
  BY <1>1, <1>2, <1>5, <1>6
<1>8. r[i].nid = nid
  BY <1>1, <1>2, <1>4, <1>5
<1>9. \A k \in DOMAIN r : k # i => r[k].nid # nid
  BY <1>7 DEF Queued
<1>10. \A j, k \in DOMAIN r : j # i /\ k # i /\ From(j) = From(k) => j = k
  BY <1>1, <1>2, <1>6
<1> HIDE DEF From
<1>11. \A j, k \in DOMAIN r : r[j].nid = r[k].nid => j = k
  BY <1>7, <1>8, <1>9, <1>10
<1> QED
  BY <1>11 DEF r

\* push() of a FIFO queue appends.
LEMMA FifoPushAppends ==
    ASSUME NEW S, NEW q \in Seq(S), NEW nid, NEW p, Stored(FIFO, nid, p) \in S
    PROVE  QueuePush(FIFO, q, nid, p) = Append(q, Stored(FIFO, nid, p))
<1> DEFINE e == Stored(FIFO, nid, p)
<1>1. Len(q) \in Nat /\ DOMAIN q = 1 .. Len(q)
  BY LenProperties
<1> DEFINE i == Len(q) + 1
<1>2. QueuePush(FIFO, q, nid, p) = InsertAt(q, i, e)
  BY DEF QueuePush, Place, FIFO, FILO, PRIO
<1> HIDE DEF e
<1>3. i \in 1 .. Len(q) + 1 /\ e \in S
  BY <1>1 DEF e
<1> HIDE DEF i
<1>4. /\ InsertAt(q, i, e) \in Seq(S)
      /\ Len(InsertAt(q, i, e)) = Len(q) + 1
      /\ \A k \in 1 .. Len(q) + 1 : InsertAt(q, i, e)[k] =
            IF k < i THEN q[k] ELSE IF k = i THEN e ELSE q[k - 1]
  BY <1>3, InsertAtPositions
<1>5. /\ Append(q, e) \in Seq(S)
      /\ Len(Append(q, e)) = Len(q) + 1
      /\ \A k \in 1 .. Len(q) + 1 :
            Append(q, e)[k] = IF k < i THEN q[k] ELSE e
  BY <1>1, <1>3, AppendProperties DEF i
<1>6. \A k \in 1 .. Len(q) + 1 : InsertAt(q, i, e)[k] = Append(q, e)[k]
  BY <1>1, <1>4, <1>5 DEF i
<1>7. InsertAt(q, i, e) = Append(q, e)
  BY <1>4, <1>5, <1>6, SeqEqual
<1> QED
  BY <1>2, <1>7 DEF e

-----------------------------------------------------------------------------
(* The order of a priority queue.                                           *)

Ranked == [nid : Int, p : Int]

\* No entry of a queue in delivery order is outranked by a later one.
InOrder(q) == \A i, j \in DOMAIN q : i < j => ~Outranks(q[j], q[i])

\* Outranks is a strict total order of entries.
LEMMA OutranksOrders ==
    ASSUME NEW a \in Ranked, NEW b \in Ranked, NEW c \in Ranked
    PROVE  /\ ~Outranks(a, a)
           /\ Outranks(a, b) => ~Outranks(b, a)
           /\ ~Outranks(b, a) /\ ~Outranks(c, b) => ~Outranks(c, a)
BY DEF Outranks, Ranked

\* push() of a priority queue keeps the delivery order: the entries that do not
\* give way to the new one are a prefix, and the new one follows them.
LEMMA PrioPushKeepsOrder ==
    ASSUME NEW q \in Seq(Ranked), NEW nid, NEW p,
           Stored(PRIO, nid, p) \in Ranked, InOrder(q)
    PROVE  InOrder(QueuePush(PRIO, q, nid, p))
<1> DEFINE e == Stored(PRIO, nid, p)
           P == {j \in DOMAIN q : ~Outranks(e, q[j])}
           i == 1 + Cardinality(P)
           r == QueuePush(PRIO, q, nid, p)
<1>1. Len(q) \in Nat /\ DOMAIN q = 1 .. Len(q)
  BY LenProperties
<1>2. \A j \in DOMAIN q : q[j] \in Ranked
  BY <1>1, ElementOfSeq
<1> HIDE DEF e
<1>3. \A j \in P : \A k \in 1 .. j : k \in P
  <2> SUFFICES ASSUME NEW j \in P, NEW k \in 1 .. j
               PROVE  k \in P
    OBVIOUS
  <2>1. j \in DOMAIN q /\ k \in DOMAIN q /\ (k = j \/ k < j)
    BY <1>1
  <2>2. k < j => ~Outranks(q[j], q[k])
    BY <2>1 DEF InOrder
  <2>3. ~Outranks(e, q[k])
    BY <1>2, <2>1, <2>2, OutranksOrders DEF e
  <2> QED
    BY <2>1, <2>3
<1>4. P \in SUBSET (1 .. Len(q))
  BY <1>1
<1>5. \A j \in DOMAIN q : j \in P <=> ~Outranks(e, q[j])
  OBVIOUS
<1>6. r = InsertAt(q, i, e)
  BY DEF QueuePush, Place, FIFO, FILO, PRIO, e
<1> HIDE DEF P
<1>7. Cardinality(P) \in 0 .. Len(q) /\ P = 1 .. Cardinality(P)
  BY <1>1, <1>3, <1>4, InitialSegment
<1>8. i \in 1 .. Len(q) + 1 /\ \A j \in DOMAIN q : j < i <=> ~Outranks(e, q[j])
  BY <1>1, <1>5, <1>7
<1> HIDE DEF i, r
<1>9. e \in Ranked
  BY DEF e
<1>10. /\ Len(r) = Len(q) + 1
       /\ DOMAIN r = 1 .. Len(q) + 1
       /\ \A k \in 1 .. Len(q) + 1 :
             r[k] = IF k < i THEN q[k] ELSE IF k = i THEN e ELSE q[k - 1]
  BY <1>6, <1>8, <1>9, InsertAtPositions, LenProperties
<1>11. ASSUME NEW j \in DOMAIN r, NEW k \in DOMAIN r, j < k
       PROVE  ~Outranks(r[k], r[j])
  <2>1. j \in Int /\ k \in Int /\ i \in Int
    BY <1>1, <1>8, <1>10
  <2>2. CASE k < i
    BY <1>1, <1>8, <1>10, <1>11, <2>1, <2>2 DEF InOrder
  <2>3. CASE k = i
    <3>1. j \in DOMAIN q /\ r[j] = q[j] /\ r[k] = e
      BY <1>1, <1>8, <1>10, <1>11, <2>1, <2>3
    <3> QED
      BY <1>8, <1>11, <2>3, <3>1
  <2>4. CASE k > i /\ j = i
    <3>1. k - 1 \in DOMAIN q /\ ~(k - 1 < i) /\ r[k] = q[k - 1] /\ r[j] = e
      BY <1>1, <1>8, <1>10, <1>11, <2>1, <2>4
    <3>2. Outranks(e, q[k - 1])
      BY <1>8, <3>1
    <3> QED
      BY <1>2, <1>9, <3>1, <3>2, OutranksOrders
  <2>5. CASE k > i /\ j < i
    <3>1. /\ k - 1 \in DOMAIN q /\ r[k] = q[k - 1]
          /\ j \in DOMAIN q /\ r[j] = q[j]
          /\ j < k - 1
      BY <1>1, <1>8, <1>10, <1>11, <2>1, <2>5
    <3> QED
      BY <3>1 DEF InOrder
  <2>6. CASE k > i /\ j > i
    <3>1. /\ k - 1 \in DOMAIN q /\ r[k] = q[k - 1]
          /\ j - 1 \in DOMAIN q /\ r[j] = q[j - 1]
          /\ j - 1 < k - 1
      BY <1>1, <1>8, <1>10, <1>11, <2>1, <2>6
    <3> QED
      BY <3>1 DEF InOrder
  <2> QED
    BY <2>1, <2>2, <2>3, <2>4, <2>5, <2>6
<1> QED
  BY <1>11 DEF InOrder, r

\* pop() takes the head: what is left is queued in the same order.
LEMMA TailOfQueue ==
    ASSUME NEW S, NEW q \in Seq(S), q # <<>>
    PROVE  /\ Head(q) = q[1] /\ 1 \in DOMAIN q
           /\ Tail(q) \in Seq(S)
           /\ Len(Tail(q)) = Len(q) - 1
           /\ \A i \in DOMAIN Tail(q) : i + 1 \in DOMAIN q /\ Tail(q)[i] = q[i + 1]
           /\ Queued(q) = {Head(q).nid} \cup Queued(Tail(q))
<1>1. Len(q) \in Nat \ {0} /\ DOMAIN q = 1 .. Len(q)
  BY LenProperties, EmptySeq
<1>2. /\ Tail(q) \in Seq(S)
      /\ Len(Tail(q)) = Len(q) - 1
      /\ \A i \in 1 .. Len(Tail(q)) : Tail(q)[i] = q[i + 1]
  BY HeadTailProperties
<1>3. DOMAIN Tail(q) = 1 .. Len(q) - 1
  BY <1>2, LenProperties
<1>4. Head(q) = q[1]
  BY <1>1
<1> DEFINE t == Tail(q)
<1> HIDE DEF t
<1>5. \A i \in DOMAIN t : i + 1 \in DOMAIN q /\ t[i] = q[i + 1]
  BY <1>1, <1>2, <1>3 DEF t
<1>6. \A i \in DOMAIN q : i = 1 \/ (i - 1 \in DOMAIN t /\ t[i - 1] = q[i])
  BY <1>1, <1>2, <1>3 DEF t
<1>7. Queued(q) = {q[1].nid} \cup Queued(t)
  <2>1. Queued(q) \subseteq {q[1].nid} \cup Queued(t)
    BY <1>6 DEF Queued
  <2>2. {q[1].nid} \cup Queued(t) \subseteq Queued(q)
    BY <1>1, <1>5 DEF Queued
  <2> QED
    BY <2>1, <2>2
<1> QED
  BY <1>1, <1>2, <1>4, <1>5, <1>7 DEF t

-----------------------------------------------------------------------------
(* Type correctness.                                                        *)

LEMMA MinOfTwo ==
    ASSUME NEW a \in Nat, NEW b \in Nat
    PROVE  Min({a, b}) \in Nat /\ Min({a, b}) <= a /\ Min({a, b}) <= b
BY DEF Min

LEMMA DefaultEntriesType ==
    ASSUME NEW nids \in NidSpans
    PROVE  DefaultEntries(nids) \in Seq(Entry)
<1>1. nids \in Seq(Nodes)
  BY SpansAssumption
<1>2. Len(nids) \in Nat /\ DOMAIN nids = 1 .. Len(nids)
  BY <1>1, LenProperties
<1>3. \A i \in 1 .. Len(nids) : nids[i] \in Nodes
  BY <1>1, ElementOfSeq
<1>4. DefaultEntries(nids) \in [1 .. Len(nids) -> Entry]
  BY <1>2, <1>3, PrioritiesAssumption DEF DefaultEntries, Entry
<1> QED
  BY <1>2, <1>4, SeqDef

LEMMA PairedEntriesType ==
    ASSUME NEW nids \in NidSpans, NEW ps \in PrioSpans
    PROVE  PairedEntries(nids, ps) \in Seq(Entry)
<1>1. nids \in Seq(Nodes) /\ ps \in Seq(Priorities)
  BY SpansAssumption
<1>2. Len(nids) \in Nat /\ Len(ps) \in Nat
  BY <1>1, LenProperties
<1>3. /\ \A i \in 1 .. Len(nids) : nids[i] \in Nodes
      /\ \A i \in 1 .. Len(ps) : ps[i] \in Priorities
  BY <1>1, ElementOfSeq
<1> DEFINE n == Min({Len(nids), Len(ps)})
<1>4. n \in Nat /\ n <= Len(nids) /\ n <= Len(ps)
  BY <1>2, MinOfTwo
<1> HIDE DEF n
<1>5. [i \in 1 .. n |-> [nid |-> nids[i], p |-> ps[i]]] \in [1 .. n -> Entry]
  BY <1>2, <1>3, <1>4 DEF Entry
<1> QED
  BY <1>4, <1>5, SeqDef DEF PairedEntries, n

\* What push() stores is an entry.
LEMMA StoredType ==
    ASSUME NEW t, NEW nid \in Nodes, NEW p \in Priorities
    PROVE  Stored(t, nid, p) \in Entry
BY PrioritiesAssumption DEF Stored, Entry

\* push() keeps the types of the queue and of the distinct set.
LEMMA PushNodeType ==
    ASSUME TypeOK, NEW nid \in Nodes, NEW p \in Priorities, PushNode(nid, p)
    PROVE  Q' \in Seq(Entry) /\ distinct' \subseteq Nodes
<1>1. QueuePush(type, Q, nid, p) \in Seq(Entry)
  BY StoredType, QueuePushGains DEF TypeOK
<1> QED
  BY <1>1 DEF TypeOK, PushNode, store

\* The entry that starts a sample is the only one.
LEMMA SampleQueueType ==
    ASSUME type \in QueueTypes, NEW s \in Nodes, NEW p \in Priorities
    PROVE  /\ QueuePush(type, <<>>, s, p) \in Seq(Entry)
           /\ Queued(QueuePush(type, <<>>, s, p)) = {s}
<1> DEFINE empty == <<>>
<1>1. empty \in Seq(Entry) /\ Queued(empty) = {}
  BY EmptySeq DEF Queued
<1> HIDE DEF empty
<1>2. /\ QueuePush(type, empty, s, p) \in Seq(Entry)
      /\ Queued(QueuePush(type, empty, s, p)) = Queued(empty) \cup {s}
  BY <1>1, StoredType, QueuePushGains
<1>3. Queued(QueuePush(type, empty, s, p)) = {s}
  BY <1>1, <1>2
<1> QED
  BY <1>2, <1>3 DEF empty

LEMMA TypeInit == Init => TypeOK
<1> SUFFICES ASSUME Init
             PROVE  TypeOK
  OBVIOUS
<1>1. type \in QueueTypes
  BY DEF Init, InitQueue, QueueTypes
<1>2. dedup \in BOOLEAN
  BY FlagsAssumption DEF Init
<1>3. Q \in Seq(Entry) /\ pending \in Seq(Entry) /\ visited \in Seq(Nodes)
  BY EmptySeq DEF Init
<1>4. calls \in 0 .. MaxCalls
  BY BoundsAssumption DEF Init
<1> QED
  BY <1>1, <1>2, <1>3, <1>4 DEF Init, TypeOK, Methods

LEMMA TypeStep == TypeOK /\ [Next]_vars => TypeOK'
<1> SUFFICES ASSUME TypeOK, [Next]_vars
             PROVE  TypeOK'
  OBVIOUS
<1> USE DEF TypeOK, Methods, config, store, history
<1>1. ASSUME NEW ok \in BOOLEAN, Initialize(ok) \/ InitializeThrows
      PROVE  TypeOK'
  BY <1>1 DEF Initialize, InitializeThrows, Calls
<1>2. CASE Initialized
  BY <1>2, BoundsAssumption DEF Initialized
<1>3. ASSUME NEW nid \in Nodes, NEW p \in Priorities, Push(nid, p)
      PROVE  TypeOK'
  BY <1>3, PushNodeType DEF Push, Calls
<1>4. CASE Clear
  BY <1>4, EmptySeq DEF Clear, ClearAll, Calls
<1>5. ASSUME NEW m \in {"poll", "join", "finish"}, Enter(m)
      PROVE  TypeOK'
  BY <1>5 DEF Enter, Calls
<1>6. ASSUME NEW s \in Nodes, NEW p \in Priorities, EnterSample(s, p)
      PROVE  TypeOK'
  BY <1>6, SampleQueueType, EmptySeq DEF EnterSample, Calls
<1>7. CASE PollIdle
  BY <1>7 DEF PollIdle, PollReturns
<1>8. CASE PollPop
  <2>1. Head(Q) \in Entry /\ Tail(Q) \in Seq(Entry)
    BY <1>8, HeadTailProperties DEF PollPop, QueueTop, QueuePop, QueueEmpty
  <2>2. Head(Q).nid \in Nodes
    BY <2>1 DEF Entry
  <2>3. Append(visited, Head(Q).nid) \in Seq(Nodes)
    BY <2>2, AppendProperties
  <2> QED
    BY <1>8, <2>1, <2>2, <2>3 DEF PollPop, QueueTop, QueuePop, QueueEmpty
<1>9. ASSUME NEW ok \in BOOLEAN, FilterReturn(ok)
      PROVE  TypeOK'
  <2>1. cur \in Nodes /\ selected' \subseteq Nodes
    BY <1>9 DEF FilterReturn
  <2>2. method' \in Methods /\ at' \in {"idle", "poll", "finish"}
    BY <1>9 DEF FilterReturn, PollReturns
  <2> QED
    BY <1>9, <2>1, <2>2, BoundsAssumption DEF FilterReturn
<1>10. CASE Finish
  <2>1. guestSeen' \subseteq Nodes
    BY <1>10 DEF Finish, GuestFinish
  <2>2. /\ Q' \in Seq(Entry) /\ distinct' \subseteq Nodes
        /\ selected' \subseteq Nodes /\ result' \subseteq Nodes
        /\ visited' \in Seq(Nodes)
    BY <1>10, EmptySeq DEF Finish, ClearAll
  <2> QED
    BY <1>10, <2>1, <2>2, BoundsAssumption DEF Finish
<1>11. ASSUME NEW nids \in NidSpans, SelectNode(nids)
       PROVE  TypeOK'
  <2>1. Range(nids) \subseteq Nodes
    BY SpansAssumption, RangeOfSeq
  <2> QED
    BY <1>11, <2>1, BoundsAssumption DEF SelectNode, HostCall
<1>12. ASSUME NEW entries \in Seq(Entry), ExtendNode(entries)
       PROVE  TypeOK'
  BY <1>12, BoundsAssumption DEF ExtendNode, HostCall
<1>13. CASE ExtendStep
  <2>1. Head(pending) \in Entry /\ Tail(pending) \in Seq(Entry)
    BY <1>13, HeadTailProperties DEF ExtendStep
  <2>2. Q' \in Seq(Entry) /\ distinct' \subseteq Nodes
    BY <1>13, <2>1, PushNodeType DEF ExtendStep, Entry
  <2> QED
    BY <1>13, <2>1, <2>2 DEF ExtendStep
<1>14. CASE UNCHANGED vars
  BY <1>14 DEF vars
<1> QED
  BY <1>1, <1>2, <1>3, <1>4, <1>5, <1>6, <1>7, <1>8, <1>9, <1>10, <1>11, <1>12,
     <1>13, <1>14, DefaultEntriesType, PairedEntriesType
  DEF Next, Owner, Guest, Block

\* Every reachable state of a block is well typed: in particular the queue holds
\* nodes with priorities and nothing else, and no unknown queue type is left.
THEOREM TypeCorrect == Spec => []TypeOK
<1>1. Init => TypeOK
  BY TypeInit
<1>2. TypeOK /\ [Next]_vars => TypeOK'
  BY TypeStep
<1> QED
  BY <1>1, <1>2, PTL DEF Spec

-----------------------------------------------------------------------------
(* What a step can do to the queue, the distinct set and the visits.        *)

NoChange == UNCHANGED <<Q, distinct, visited>>

Offer == \E nid \in Nodes, p \in Priorities :
            PushNode(nid, p) /\ UNCHANGED visited

Visit ==
    /\ Q # <<>>
    /\ Q' = Tail(Q)
    /\ visited' = Append(visited, Head(Q).nid)
    /\ UNCHANGED distinct

Emptied ==
    /\ Q' = <<>> /\ distinct' = {} /\ visited' = <<>>
    /\ method' = "none"

Restart == \E s \in Nodes, p \in Priorities :
    /\ Q' = QueuePush(type, <<>>, s, p)
    /\ distinct' = (IF dedup THEN {s} ELSE {})
    /\ visited' = <<>>
    /\ method' = "sample"

\* Every step of the block leaves them alone, offers one node, visits the head
\* of the queue, clears, or clears and offers the start of a sample.
LEMMA StoreSteps ==
    ASSUME TypeOK, [Next]_vars
    PROVE  /\ UNCHANGED <<type, dedup>>
           /\ NoChange \/ Offer \/ Visit \/ Emptied \/ Restart
<1> DEFINE Goal == /\ UNCHANGED <<type, dedup>>
                   /\ NoChange \/ Offer \/ Visit \/ Emptied \/ Restart
<1> USE DEF config, store, history
<1>1. ASSUME NEW ok \in BOOLEAN, Initialize(ok) \/ InitializeThrows
      PROVE  Goal
  BY <1>1 DEF Initialize, InitializeThrows, NoChange
<1>2. CASE Initialized
  BY <1>2 DEF Initialized, NoChange
<1>3. ASSUME NEW nid \in Nodes, NEW p \in Priorities, Push(nid, p)
      PROVE  Goal
  <2>1. PushNode(nid, p) /\ UNCHANGED <<type, dedup, visited>>
    BY <1>3 DEF Push
  <2> QED
    BY <2>1 DEF Offer
<1>4. CASE Clear
  <2>1. method' = "none"
    BY <1>4 DEF Clear, Calls
  <2> QED
    BY <1>4, <2>1 DEF Clear, ClearAll, Emptied
<1>5. ASSUME NEW m \in {"poll", "join", "finish"}, Enter(m)
      PROVE  Goal
  BY <1>5 DEF Enter, NoChange
<1>6. ASSUME NEW s \in Nodes, NEW p \in Priorities, EnterSample(s, p)
      PROVE  Goal
  BY <1>6 DEF EnterSample, Restart
<1>7. CASE PollIdle
  BY <1>7 DEF PollIdle, NoChange
<1>8. CASE PollPop
  BY <1>8 DEF PollPop, QueueTop, QueuePop, QueueEmpty, Visit
<1>9. ASSUME NEW ok \in BOOLEAN, FilterReturn(ok)
      PROVE  Goal
  BY <1>9 DEF FilterReturn, NoChange
<1>10. CASE Finish
  BY <1>10 DEF Finish, ClearAll, NoChange, Emptied
<1>11. ASSUME NEW nids \in NidSpans, SelectNode(nids)
       PROVE  Goal
  BY <1>11 DEF SelectNode, NoChange
<1>12. ASSUME NEW entries, ExtendNode(entries)
       PROVE  Goal
  BY <1>12 DEF ExtendNode, NoChange
<1>13. CASE ExtendStep
  <2>1. Head(pending) \in Entry
    BY <1>13, HeadTailProperties DEF ExtendStep, TypeOK
  <2>2. Head(pending).nid \in Nodes /\ Head(pending).p \in Priorities
    BY <2>1 DEF Entry
  <2>3. /\ PushNode(Head(pending).nid, Head(pending).p)
        /\ UNCHANGED <<type, dedup, visited>>
    BY <1>13 DEF ExtendStep
  <2> QED
    BY <2>2, <2>3 DEF Offer
<1>14. CASE UNCHANGED vars
  BY <1>14 DEF vars, NoChange
<1> QED
  BY <1>1, <1>2, <1>3, <1>4, <1>5, <1>6, <1>7, <1>8, <1>9, <1>10, <1>11, <1>12,
     <1>13, <1>14
  DEF Next, Owner, Guest, Block

-----------------------------------------------------------------------------
(* The distinct set.                                                        *)

\* VisitedOnce is not inductive by itself: a node must also not be visited and
\* queued at once, nor queued twice, and push() must know both.
Accounted ==
    /\ VisitedOnce
    /\ NothingLost
    /\ dedup => /\ \A i, j \in DOMAIN Q : Q[i].nid = Q[j].nid => i = j
                /\ Range(visited) \cap Queued(Q) = {}

LEMMA RangeOfAppend ==
    ASSUME NEW S, NEW s \in Seq(S), NEW e \in S
    PROVE  Range(Append(s, e)) = Range(s) \cup {e}
<1> DEFINE t == Append(s, e)
           n == Len(s) + 1
<1>1. /\ n \in Nat
      /\ DOMAIN s = 1 .. n - 1
      /\ DOMAIN t = 1 .. n
      /\ \A i \in DOMAIN s : t[i] = s[i]
      /\ t[n] = e
  BY AppendProperties, LenProperties
<1> HIDE DEF t, n
<1>2. \A i \in DOMAIN t : i \in DOMAIN s \/ i = n
  BY <1>1
<1>3. Range(t) \subseteq Range(s) \cup {e}
  BY <1>1, <1>2 DEF Range
<1>4. DOMAIN s \subseteq DOMAIN t /\ n \in DOMAIN t
  <2>1. n >= 1
    BY LenProperties DEF n
  <2> QED
    BY <1>1, <2>1
<1>5. Range(s) \cup {e} \subseteq Range(t)
  BY <1>1, <1>4 DEF Range
<1> QED
  BY <1>3, <1>5 DEF t

LEMMA AccountedInit == Init => Accounted
BY DEF Init, Accounted, VisitedOnce, NothingLost, IsInjective, Queued, Range

LEMMA AccountedStep ==
    ASSUME TypeOK, Accounted, [Next]_vars
    PROVE  Accounted'
<1> SUFFICES ASSUME dedup'
             PROVE  Accounted'
  BY DEF Accounted, VisitedOnce, NothingLost, IsInjective
<1>1. /\ UNCHANGED <<type, dedup>>
      /\ NoChange \/ Offer \/ Visit \/ Emptied \/ Restart
  BY StoreSteps
<1>2. /\ dedup
      /\ type \in QueueTypes
      /\ Q \in Seq(Entry)
      /\ visited \in Seq(Nodes)
  BY <1>1 DEF TypeOK
<1>3. CASE NoChange
  BY <1>1, <1>3 DEF NoChange, Accounted, VisitedOnce, NothingLost, IsInjective
<1>4. CASE Offer
  <2> PICK nid \in Nodes, p \in Priorities : PushNode(nid, p) /\ UNCHANGED visited
    BY <1>4 DEF Offer
  <2>1. CASE nid \in distinct
    BY <1>1, <1>2, <2>1 DEF PushNode, store, Accounted, VisitedOnce, NothingLost, IsInjective
  <2>2. CASE nid \notin distinct
    <3>1. Q' = QueuePush(type, Q, nid, p) /\ distinct' = distinct \cup {nid}
      BY <1>2, <2>2 DEF PushNode
    <3>2. nid \notin Queued(Q) /\ nid \notin Range(visited)
      BY <1>2, <2>2 DEF Accounted, NothingLost
    <3>3. Stored(type, nid, p) \in Entry
      BY StoredType
    <3>4. Queued(Q') = Queued(Q) \cup {nid}
      BY <1>2, <3>1, <3>3, QueuePushGains
    <3>5. \A i, j \in DOMAIN Q' : Q'[i].nid = Q'[j].nid => i = j
      <4>1. \A i, j \in DOMAIN Q : Q[i].nid = Q[j].nid => i = j
        BY <1>2 DEF Accounted
      <4> QED
        BY <1>2, <3>1, <3>2, <3>3, <4>1, QueuePushKeepsDistinct
    <3>6. distinct' = Range(visited) \cup Queued(Q')
      BY <1>2, <3>1, <3>4 DEF Accounted, NothingLost
    <3>7. Range(visited) \cap Queued(Q') = {}
      BY <1>2, <3>2, <3>4 DEF Accounted
    <3> QED
      BY <1>1, <1>2, <3>5, <3>6, <3>7 DEF Accounted, VisitedOnce, NothingLost, IsInjective
  <2> QED
    BY <2>1, <2>2
<1>5. CASE Visit
  <2> DEFINE nid == Head(Q).nid
  <2>1. /\ Head(Q) = Q[1] /\ 1 \in DOMAIN Q
        /\ \A i \in DOMAIN Q' : i + 1 \in DOMAIN Q /\ Q'[i] = Q[i + 1]
        /\ Queued(Q) = {nid} \cup Queued(Q')
        /\ DOMAIN Q' \subseteq Nat \ {0}
    <3>1. Q # <<>> /\ Q' = Tail(Q)
      BY <1>5 DEF Visit
    <3>2. DOMAIN Tail(Q) \subseteq Nat \ {0}
      BY <1>2, <3>1, TailOfQueue, LenProperties
    <3> QED
      BY <1>2, <3>1, <3>2, TailOfQueue
  <2>2. /\ \A i, j \in DOMAIN Q : Q[i].nid = Q[j].nid => i = j
        /\ Range(visited) \cap Queued(Q) = {}
        /\ distinct = Range(visited) \cup Queued(Q)
        /\ \A i, j \in DOMAIN visited : visited[i] = visited[j] => i = j
    BY <1>2 DEF Accounted, VisitedOnce, NothingLost, IsInjective
  <2>3. nid \notin Queued(Q')
    <3> SUFFICES ASSUME NEW i \in DOMAIN Q', Q'[i].nid = nid
                 PROVE  FALSE
      BY DEF Queued
    <3>1. i + 1 = 1
      BY <2>1, <2>2
    <3> QED
      BY <2>1, <3>1
  <2>4. \A i, j \in DOMAIN Q' : Q'[i].nid = Q'[j].nid => i = j
    <3> SUFFICES ASSUME NEW i \in DOMAIN Q', NEW j \in DOMAIN Q',
                        Q'[i].nid = Q'[j].nid
                 PROVE  i = j
      OBVIOUS
    <3>1. i + 1 = j + 1
      BY <2>1, <2>2
    <3> QED
      BY <2>1, <3>1
  <2>5. nid \in Nodes /\ nid \notin Range(visited)
    <3>1. Q[1] \in Entry
      BY <1>2, <2>1, LenProperties, ElementOfSeq
    <3> QED
      BY <2>1, <2>2, <3>1 DEF Entry
  <2>6. /\ DOMAIN visited = 1 .. Len(visited)
        /\ DOMAIN visited' = 1 .. Len(visited) + 1
        /\ Len(visited) \in Nat
        /\ \A i \in DOMAIN visited : visited'[i] = visited[i]
        /\ visited'[Len(visited) + 1] = nid
    BY <1>2, <1>5, <2>5, AppendProperties, LenProperties DEF Visit
  <2>7. Range(visited') = Range(visited) \cup {nid}
    BY <1>2, <1>5, <2>5, RangeOfAppend DEF Visit
  <2>8. \A i, j \in DOMAIN visited' : visited'[i] = visited'[j] => i = j
    <3>1. \A i \in DOMAIN visited : visited[i] # nid
      BY <2>5 DEF Range
    <3>2. \A i \in DOMAIN visited' : i \in DOMAIN visited \/ i = Len(visited) + 1
      BY <2>6
    <3> QED
      BY <2>2, <2>6, <3>1, <3>2
  <2>9. distinct' = Range(visited') \cup Queued(Q')
    BY <1>5, <2>1, <2>2, <2>7 DEF Visit
  <2>10. Range(visited') \cap Queued(Q') = {}
    BY <2>1, <2>2, <2>3, <2>7
  <2> QED
    BY <2>4, <2>8, <2>9, <2>10 DEF Accounted, VisitedOnce, NothingLost, IsInjective
<1>6. CASE Emptied
  BY <1>6 DEF Emptied, Accounted, VisitedOnce, NothingLost, IsInjective, Queued, Range
<1>7. CASE Restart
  <2> PICK s \in Nodes, p \in Priorities :
           /\ Q' = QueuePush(type, <<>>, s, p)
           /\ distinct' = (IF dedup THEN {s} ELSE {})
           /\ visited' = <<>>
    BY <1>7 DEF Restart
  <2>1. Queued(Q') = {s} /\ Range(visited') = {} /\ DOMAIN visited' = {}
    BY <1>2, SampleQueueType DEF Range
  <2>2. \A i, j \in DOMAIN Q' : Q'[i].nid = Q'[j].nid => i = j
    <3> DEFINE empty == <<>>
    <3>1. /\ empty \in Seq(Entry)
          /\ s \notin Queued(empty)
          /\ \A j, k \in DOMAIN empty : empty[j].nid = empty[k].nid => j = k
      BY EmptySeq DEF Queued
    <3> HIDE DEF empty
    <3>2. Stored(type, s, p) \in Entry
      BY StoredType
    <3>3. LET r == QueuePush(type, empty, s, p)
          IN  \A j, k \in DOMAIN r : r[j].nid = r[k].nid => j = k
      BY <1>2, <3>1, <3>2, QueuePushKeepsDistinct
    <3> QED
      BY <3>3 DEF empty
  <2>3. distinct' = {s}
    BY <1>2
  <2> QED
    BY <2>1, <2>2, <2>3 DEF Accounted, VisitedOnce, NothingLost, IsInjective
<1> QED
  BY <1>1, <1>3, <1>4, <1>5, <1>6, <1>7

\* With distinct on, a node is visited at most once between two clears.
THEOREM VisitsAreUnique == Spec => []VisitedOnce
<1>1. Init => Accounted
  BY AccountedInit
<1>2. TypeOK /\ Accounted /\ [Next]_vars => Accounted'
  BY AccountedStep
<1>3. Accounted => VisitedOnce
  BY DEF Accounted
<1> QED
  BY <1>1, <1>2, <1>3, TypeCorrect, PTL DEF Spec

\* With distinct on, what push() refuses is what is visited or queued.
THEOREM NothingIsLost == Spec => []NothingLost
<1>1. Init => Accounted
  BY AccountedInit
<1>2. TypeOK /\ Accounted /\ [Next]_vars => Accounted'
  BY AccountedStep
<1>3. Accounted => NothingLost
  BY DEF Accounted
<1> QED
  BY <1>1, <1>2, <1>3, TypeCorrect, PTL DEF Spec

-----------------------------------------------------------------------------
(* The size of a schedule.                                                  *)

\* With distinct on, the set has one node for each visit made and for each visit to
\* come: neither the queue nor the visits of a sample outgrow the graph.
ScheduleFits ==
    dedup => IsFiniteSet(distinct) /\ Len(visited) + Len(Q) = Cardinality(distinct)

LEMMA AccountedFits ==
    ASSUME TypeOK, Accounted
    PROVE  ScheduleFits
<1> SUFFICES ASSUME dedup
             PROVE  /\ IsFiniteSet(distinct)
                    /\ Len(visited) + Len(Q) = Cardinality(distinct)
  BY DEF ScheduleFits
<1> DEFINE ids == [i \in DOMAIN Q |-> Q[i].nid]
<1>1. /\ Len(Q) \in Nat /\ DOMAIN Q = 1 .. Len(Q) /\ Len(visited) \in Nat
      /\ \A i \in DOMAIN Q : Q[i].nid \in Nodes
  <2>1. /\ Q \in Seq(Entry) /\ Len(Q) \in Nat /\ DOMAIN Q = 1 .. Len(Q)
        /\ Len(visited) \in Nat
    BY LenProperties DEF TypeOK
  <2>2. \A i \in DOMAIN Q : Q[i] \in Entry
    BY <2>1, ElementOfSeq
  <2> QED
    BY <2>1, <2>2 DEF Entry
<1>2. ids \in Seq(Nodes) /\ Len(ids) = Len(Q)
  BY <1>1
<1>3. IsInjective(ids)
  BY DEF Accounted, IsInjective
<1>4. Range(ids) = Queued(Q)
  BY DEF Range, Queued
<1> HIDE DEF ids
<1>5. IsFiniteSet(Queued(Q)) /\ Cardinality(Queued(Q)) = Len(Q)
  BY <1>2, <1>3, <1>4, RangeCounted
<1>6. IsFiniteSet(Range(visited)) /\ Cardinality(Range(visited)) = Len(visited)
  BY RangeCounted DEF TypeOK, Accounted, VisitedOnce
<1>7. /\ Range(visited) \cap Queued(Q) = {}
      /\ distinct = Range(visited) \cup Queued(Q)
  BY DEF Accounted, NothingLost
<1>8. /\ IsFiniteSet(distinct)
      /\ Cardinality(distinct) =
            Cardinality(Range(visited)) + Cardinality(Queued(Q)) - Cardinality({})
  BY <1>5, <1>6, <1>7, FS_Union
<1> QED
  BY <1>1, <1>5, <1>6, <1>8, FS_EmptySet

\* With distinct on, there is one node in the set for each visit made and for each
\* entry of the queue, whatever the guest extends: neither grows beyond the number
\* of nodes, and join() has no more turns to do than there are nodes left.
THEOREM SchedulesFit == Spec => []ScheduleFits
<1>1. Init => Accounted
  BY AccountedInit
<1>2. TypeOK /\ Accounted /\ [Next]_vars => Accounted'
  BY AccountedStep
<1>3. TypeOK /\ Accounted => ScheduleFits
  BY AccountedFits
<1> QED
  BY <1>1, <1>2, <1>3, TypeCorrect, PTL DEF Spec

-----------------------------------------------------------------------------
(* The order of visits.                                                     *)

LEMMA PrefixByPosition ==
    ASSUME NEW S, NEW s \in Seq(S), NEW t \in Seq(S), Len(s) <= Len(t),
           \A i \in 1 .. Len(s) : s[i] = t[i]
    PROVE  IsPrefix(s, t)
<1>1. Len(s) \in Nat /\ Len(t) \in Nat
  BY LenProperties
<1>2. \A i \in 1 .. Len(s) : s[i] \in S /\ t[i] \in S
  BY <1>1, ElementOfSeq
<1> DEFINE a == SubSeq(s, 1, Len(s))
           b == SubSeq(t, 1, Len(s))
<1>3. /\ a \in Seq(S)
      /\ Len(a) = Len(s)
      /\ \A i \in 1 .. Len(s) : a[i] = s[i]
  BY <1>1, SubSeqFull
<1>4. /\ b \in Seq(S)
      /\ Len(b) = IF 1 <= Len(s) THEN Len(s) - 1 + 1 ELSE 0
      /\ \A i \in 1 .. Len(s) - 1 + 1 : b[i] = t[1 + i - 1]
  <2> DEFINE n == Len(s)
  <2>1. n \in Int /\ \A i \in 1 .. n : t[i] \in S
    BY <1>1, <1>2
  <2> HIDE DEF n
  <2>2. /\ SubSeq(t, 1, n) \in Seq(S)
        /\ Len(SubSeq(t, 1, n)) = IF 1 <= n THEN n - 1 + 1 ELSE 0
        /\ \A i \in 1 .. n - 1 + 1 : SubSeq(t, 1, n)[i] = t[1 + i - 1]
    BY <2>1, SubSeqProperties
  <2> QED
    BY <2>2 DEF n
<1> HIDE DEF a, b
<1>5. Len(a) = Len(b) /\ \A i \in 1 .. Len(a) : a[i] = b[i]
  BY <1>1, <1>3, <1>4
<1>6. a = b
  BY <1>3, <1>4, <1>5, SeqEqual
<1> QED
  BY <1>6 DEF IsPrefix, a, b

LEMMA SamePrefix ==
    ASSUME NEW S, NEW s \in Seq(S)
    PROVE  IsPrefix(s, s)
BY LenProperties DEF IsPrefix

\* The schedule, one position at a time.
LEMMA SchedulePositions ==
    ASSUME NEW v \in Seq(Nodes), NEW q \in Seq(Entry)
    PROVE  LET sched == v \o [i \in DOMAIN q |-> q[i].nid]
           IN  /\ sched \in Seq(Nodes)
               /\ Len(sched) = Len(v) + Len(q)
               /\ \A i \in 1 .. Len(v) : sched[i] = v[i]
               /\ \A i \in 1 .. Len(q) : sched[Len(v) + i] = q[i].nid
<1> DEFINE w == [i \in DOMAIN q |-> q[i].nid]
<1>1. Len(q) \in Nat /\ Len(v) \in Nat /\ DOMAIN q = 1 .. Len(q)
  BY LenProperties
<1>2. \A i \in 1 .. Len(q) : q[i].nid \in Nodes
  <2>1. \A i \in 1 .. Len(q) : q[i] \in Entry
    BY ElementOfSeq
  <2> QED
    BY <2>1 DEF Entry
<1>3. w \in Seq(Nodes) /\ Len(w) = Len(q) /\ \A i \in 1 .. Len(q) : w[i] = q[i].nid
  <2>1. w \in [1 .. Len(q) -> Nodes]
    BY <1>1, <1>2
  <2>2. w \in Seq(Nodes)
    BY <1>1, <2>1, SeqDef
  <2>3. Len(w) = Len(q)
    BY <1>1, <2>1, <2>2, LenProperties
  <2> QED
    BY <1>1, <2>2, <2>3
<1> HIDE DEF w
<1>4. /\ v \o w \in Seq(Nodes)
      /\ Len(v \o w) = Len(v) + Len(w)
      /\ \A i \in 1 .. Len(v) + Len(w) :
            (v \o w)[i] = IF i <= Len(v) THEN v[i] ELSE w[i - Len(v)]
  BY <1>3, ConcatProperties
<1>5. \A i \in 1 .. Len(v) : (v \o w)[i] = v[i]
  BY <1>1, <1>3, <1>4
<1>6. \A i \in 1 .. Len(q) : (v \o w)[Len(v) + i] = q[i].nid
  BY <1>1, <1>3, <1>4
<1> QED
  BY <1>3, <1>4, <1>5, <1>6 DEF w

\* With a FIFO queue a step only ever extends the schedule, or clears.
LEMMA FifoStep ==
    ASSUME TypeOK, TypeOK', [Next]_vars, type = FIFO
    PROVE  \/ IsPrefix(Schedule, Schedule')
           \/ visited' = <<>> /\ method' \in {"none", "sample"}
<1>1. /\ UNCHANGED <<type, dedup>>
      /\ NoChange \/ Offer \/ Visit \/ Emptied \/ Restart
  BY StoreSteps
<1>2. Q \in Seq(Entry) /\ visited \in Seq(Nodes)
  BY DEF TypeOK
<1>3. Q' \in Seq(Entry) /\ visited' \in Seq(Nodes)
  BY DEF TypeOK
<1>4. /\ Schedule \in Seq(Nodes)
      /\ Len(Schedule) = Len(visited) + Len(Q)
      /\ \A i \in 1 .. Len(visited) : Schedule[i] = visited[i]
      /\ \A i \in 1 .. Len(Q) : Schedule[Len(visited) + i] = Q[i].nid
  BY <1>2, SchedulePositions DEF Schedule
<1>5. /\ Schedule' \in Seq(Nodes)
      /\ Len(Schedule') = Len(visited') + Len(Q')
      /\ \A i \in 1 .. Len(visited') : Schedule'[i] = visited'[i]
      /\ \A i \in 1 .. Len(Q') : Schedule'[Len(visited') + i] = Q'[i].nid
  BY <1>3, SchedulePositions DEF Schedule
<1>6. Len(Q) \in Nat /\ Len(visited) \in Nat
  BY <1>2, LenProperties
<1>7. CASE NoChange
  <2>1. Schedule' = Schedule
    BY <1>7 DEF NoChange, Schedule
  <2> QED
    BY <1>4, <2>1, SamePrefix
<1>8. CASE Offer
  <2> PICK nid \in Nodes, p \in Priorities : PushNode(nid, p) /\ UNCHANGED visited
    BY <1>8 DEF Offer
  <2>1. CASE UNCHANGED Q
    <3>1. Schedule' = Schedule
      BY <2>1 DEF Schedule
    <3> QED
      BY <1>4, <3>1, SamePrefix
  <2>2. CASE Q' = QueuePush(type, Q, nid, p)
    <3>1. /\ Len(Q') = Len(Q) + 1
          /\ \A i \in 1 .. Len(Q) : Q'[i] = Q[i]
      <4>1. Stored(FIFO, nid, p) \in Entry
        BY StoredType
      <4>2. Q' = Append(Q, Stored(FIFO, nid, p))
        BY <1>2, <2>2, <4>1, FifoPushAppends
      <4> QED
        BY <1>2, <4>1, <4>2, AppendProperties
    <3>2. Len(Schedule) <= Len(Schedule')
      BY <1>4, <1>5, <1>6, <3>1
    <3>3. ASSUME NEW i \in 1 .. Len(Schedule)
          PROVE  Schedule[i] = Schedule'[i]
      <4>1. CASE i \in 1 .. Len(visited)
        BY <1>4, <1>5, <4>1
      <4>2. CASE i \notin 1 .. Len(visited)
        <5>1. i - Len(visited) \in 1 .. Len(Q) /\ i - Len(visited) \in 1 .. Len(Q')
          BY <1>4, <1>6, <3>1, <4>2
        <5>2. Schedule[Len(visited) + (i - Len(visited))] = Q[i - Len(visited)].nid
          BY <1>4, <5>1
        <5>3. Schedule'[Len(visited') + (i - Len(visited))] = Q'[i - Len(visited)].nid
          BY <1>5, <5>1
        <5>4. Len(visited) + (i - Len(visited)) = i
          BY <1>4, <1>6
        <5> QED
          BY <3>1, <5>1, <5>2, <5>3, <5>4
      <4> QED
        BY <4>1, <4>2
    <3> QED
      BY <1>4, <1>5, <3>2, <3>3, PrefixByPosition
  <2> QED
    BY <2>1, <2>2 DEF PushNode, store
<1>9. CASE Visit
  <2>1. Q # <<>> /\ Q' = Tail(Q) /\ visited' = Append(visited, Head(Q).nid)
    BY <1>9 DEF Visit
  <2>2. /\ Head(Q) = Q[1] /\ 1 \in DOMAIN Q
        /\ Len(Q') = Len(Q) - 1
        /\ \A i \in 1 .. Len(Q) - 1 : Q'[i] = Q[i + 1]
    BY <1>2, <2>1, TailOfQueue, LenProperties
  <2>3. Head(Q).nid \in Nodes
    <3>1. Head(Q) \in Entry
      BY <1>2, <2>1, HeadTailProperties
    <3> QED
      BY <3>1 DEF Entry
  <2>4. /\ Len(visited') = Len(visited) + 1
        /\ \A i \in 1 .. Len(visited) : visited'[i] = visited[i]
        /\ visited'[Len(visited) + 1] = Q[1].nid
    BY <1>2, <2>1, <2>2, <2>3, AppendProperties
  <2>5. Len(Schedule) = Len(Schedule')
    BY <1>4, <1>5, <1>6, <2>2, <2>4
  <2>6. ASSUME NEW i \in 1 .. Len(Schedule)
        PROVE  Schedule[i] = Schedule'[i]
    <3>1. CASE i \in 1 .. Len(visited)
      <4>1. i \in 1 .. Len(visited')
        BY <1>6, <2>4, <3>1
      <4> QED
        BY <1>4, <1>5, <2>4, <3>1, <4>1
    <3>2. CASE i = Len(visited) + 1
      <4>1. Schedule'[i] = Q[1].nid
        BY <1>5, <1>6, <2>4, <3>2
      <4>2. Schedule[Len(visited) + 1] = Q[1].nid
        BY <1>2, <1>4, <2>2, LenProperties
      <4> QED
        BY <3>2, <4>1, <4>2
    <3>3. CASE i > Len(visited) + 1
      <4> DEFINE k == i - Len(visited)
      <4>1. /\ k \in 1 .. Len(Q) /\ k - 1 \in 1 .. Len(Q) - 1
            /\ i = Len(visited) + k
            /\ i = Len(visited') + (k - 1)
            /\ k = (k - 1) + 1
        BY <1>4, <1>6, <2>4, <3>3
      <4> HIDE DEF k
      <4>2. Schedule[i] = Q[k].nid
        BY <1>4, <4>1
      <4>3. Schedule'[i] = Q'[k - 1].nid
        BY <1>5, <2>2, <4>1
      <4>4. Q'[k - 1] = Q[k]
        BY <2>2, <4>1
      <4> QED
        BY <4>2, <4>3, <4>4
    <3> QED
      BY <1>4, <1>6, <3>1, <3>2, <3>3
  <2> QED
    BY <1>4, <1>5, <1>6, <2>5, <2>6, PrefixByPosition
<1>10. CASE Emptied
  BY <1>10 DEF Emptied
<1>11. CASE Restart
  BY <1>11 DEF Restart
<1> QED
  BY <1>1, <1>7, <1>8, <1>9, <1>10, <1>11

\* With a FIFO queue no node overtakes a queued one.
THEOREM FifoOrder == Spec => FifoNeverOvertakes
<1>1. TypeOK /\ TypeOK' /\ [Next]_vars
      => [type = FIFO =>
            \/ IsPrefix(Schedule, Schedule')
            \/ visited' = <<>> /\ method' \in {"none", "sample"}]_vars
  BY FifoStep
<1> QED
  BY <1>1, TypeCorrect, PTL DEF Spec, FifoNeverOvertakes

\* A priority queue is always in delivery order.
PrioInOrder == type = PRIO => InOrder(Q)

LEMMA PrioInOrderInit == Init => PrioInOrder
BY DEF Init, PrioInOrder, InOrder

LEMMA PrioInOrderStep ==
    ASSUME TypeOK, PrioInOrder, [Next]_vars
    PROVE  PrioInOrder'
<1> SUFFICES ASSUME type' = PRIO
             PROVE  InOrder(Q')
  BY DEF PrioInOrder
<1>1. /\ UNCHANGED <<type, dedup>>
      /\ NoChange \/ Offer \/ Visit \/ Emptied \/ Restart
  BY StoreSteps
<1>2. type = PRIO /\ InOrder(Q)
  BY <1>1 DEF PrioInOrder
<1>3. Entry \subseteq Ranked
  <2> SUFFICES ASSUME NEW e \in Entry
               PROVE  e \in Ranked
    OBVIOUS
  <2>1. Nodes \subseteq Int /\ Priorities \subseteq Int
    BY NodesAssumption, PrioritiesAssumption
  <2> QED
    BY <2>1 DEF Entry, Ranked
<1>4. Q \in Seq(Entry) /\ Q \in Seq(Ranked)
  BY <1>3, SeqMonotonic DEF TypeOK
<1>5. CASE NoChange
  BY <1>2, <1>5 DEF NoChange
<1>6. CASE Offer
  <2> PICK nid \in Nodes, p \in Priorities : PushNode(nid, p)
    BY <1>6 DEF Offer
  <2>1. Stored(PRIO, nid, p) \in Ranked
    BY <1>3, StoredType
  <2>2. Q' = Q \/ Q' = QueuePush(PRIO, Q, nid, p)
    BY <1>2 DEF PushNode, store
  <2> QED
    BY <1>2, <1>4, <2>1, <2>2, PrioPushKeepsOrder
<1>7. CASE Visit
  <2>1. /\ \A i \in DOMAIN Q' : i + 1 \in DOMAIN Q /\ Q'[i] = Q[i + 1]
        /\ DOMAIN Q' \subseteq Nat
    <3>1. Q # <<>> /\ Q' = Tail(Q)
      BY <1>7 DEF Visit
    <3> QED
      BY <1>4, <3>1, TailOfQueue, LenProperties
  <2> SUFFICES ASSUME NEW i \in DOMAIN Q', NEW j \in DOMAIN Q', i < j
               PROVE  ~Outranks(Q'[j], Q'[i])
    BY DEF InOrder
  <2>2. i + 1 < j + 1 /\ i + 1 \in DOMAIN Q /\ j + 1 \in DOMAIN Q
    BY <2>1
  <2>3. ~Outranks(Q[j + 1], Q[i + 1])
    BY <1>2, <2>2 DEF InOrder
  <2> QED
    BY <2>1, <2>3
<1>8. CASE Emptied
  BY <1>8 DEF Emptied, InOrder
<1>9. CASE Restart
  <2> PICK s \in Nodes, p \in Priorities : Q' = QueuePush(type, <<>>, s, p)
    BY <1>9 DEF Restart
  <2> DEFINE empty == <<>>
  <2>1. empty \in Seq(Ranked) /\ InOrder(empty)
    BY EmptySeq DEF InOrder
  <2>2. Q' = QueuePush(PRIO, empty, s, p)
    BY <1>2
  <2> HIDE DEF empty
  <2>3. Stored(PRIO, s, p) \in Ranked
    BY <1>3, StoredType
  <2> QED
    BY <2>1, <2>2, <2>3, PrioPushKeepsOrder
<1> QED
  BY <1>1, <1>5, <1>6, <1>7, <1>8, <1>9

\* poll() of a priority queue takes an entry that no queued entry outranks.
LEMMA PrioStep ==
    ASSUME TypeOK, PrioInOrder, [Next]_vars, type = PRIO,
           at = "poll", at' = "filter"
    PROVE  \A i \in DOMAIN Q' : ~Outranks(Q'[i], Q[1])
<1>1. PollPop
  BY DEF Next, Owner, Guest, Block, Initialize, InitializeThrows, Initialized, Push,
         Clear, Enter, EnterSample, PollIdle, PollReturns, FilterReturn, Finish, SelectNode,
         ExtendNode, ExtendStep, HostCall, vars
<1>2. Q \in Seq(Entry) /\ Q # <<>> /\ Q' = Tail(Q)
  BY <1>1 DEF PollPop, QueueTop, QueuePop, QueueEmpty, TypeOK
<1>3. /\ 1 \in DOMAIN Q
      /\ DOMAIN Q' \subseteq Nat \ {0}
      /\ \A i \in DOMAIN Q' : i + 1 \in DOMAIN Q /\ Q'[i] = Q[i + 1]
  BY <1>2, TailOfQueue, LenProperties
<1> SUFFICES ASSUME NEW i \in DOMAIN Q'
             PROVE  ~Outranks(Q'[i], Q[1])
  OBVIOUS
<1>4. 1 < i + 1 /\ i + 1 \in DOMAIN Q /\ Q'[i] = Q[i + 1]
  BY <1>3
<1> QED
  BY <1>3, <1>4 DEF PrioInOrder, InOrder

\* With a PRIO queue the highest priority is visited first.
THEOREM PrioOrder == Spec => PrioHighestFirst
<1>1. Init => PrioInOrder
  BY PrioInOrderInit
<1>2. TypeOK /\ PrioInOrder /\ [Next]_vars => PrioInOrder'
  BY PrioInOrderStep
<1>3. TypeOK /\ PrioInOrder /\ [Next]_vars
      => [type = PRIO /\ at = "poll" /\ at' = "filter" =>
            \A i \in DOMAIN Q' : ~Outranks(Q'[i], Q[1])]_vars
  BY PrioStep
<1> QED
  BY <1>1, <1>2, <1>3, TypeCorrect, PTL DEF Spec, PrioHighestFirst

-----------------------------------------------------------------------------
(* Samples that start fresh.                                                *)

\* What the guest remembers while it is not in a sample, and that a guest
\* remembers nothing when there is none.
Forgetful ==
    /\ method = "none" <=> at = "idle"
    /\ method = "initialize" <=> at = "ctors"
    /\ method # "poll"
    /\ ~wasm \/ method \in {"none", "initialize"} => guestSeen = {}
    /\ method = "sample" => guestSeen \subseteq Range(visited)

LEMMA ForgetfulInit == Init => Forgetful
BY DEF Init, Forgetful

LEMMA ForgetfulStep ==
    ASSUME "poll" \notin Api, FALSE \notin FinishOutcomes,
           TypeOK, Forgetful, [Next]_vars
    PROVE  Forgetful'
<1> USE DEF config, store, history
<1>1. ASSUME NEW ok \in BOOLEAN, Initialize(ok) \/ InitializeThrows
      PROVE  Forgetful'
  BY <1>1 DEF Initialize, InitializeThrows, Calls, Forgetful
<1>2. CASE Initialized
  BY <1>2 DEF Initialized, Forgetful
<1>3. ASSUME NEW nid \in Nodes, NEW p \in Priorities, Push(nid, p)
      PROVE  Forgetful'
  BY <1>3 DEF Push, Calls, Forgetful
<1>4. CASE Clear
  BY <1>4 DEF Clear, Calls, Forgetful
<1>5. ASSUME NEW m \in {"poll", "join", "finish"}, Enter(m)
      PROVE  Forgetful'
  BY <1>5 DEF Enter, Calls, Forgetful
<1>6. ASSUME NEW s \in Nodes, NEW p \in Priorities, EnterSample(s, p)
      PROVE  Forgetful'
  BY <1>6 DEF EnterSample, Calls, Forgetful
<1>7. CASE PollIdle
  BY <1>7 DEF PollIdle, PollReturns, Forgetful
<1>8. CASE PollPop
  <2> DEFINE nid == Head(Q).nid
  <2>1. /\ method \notin {"none", "initialize", "poll"} /\ wasm = TRUE
        /\ guestSeen' = guestSeen \cup {nid}
        /\ UNCHANGED <<method, wasm>>
        /\ at = "poll" /\ at' = "filter"
    BY <1>8 DEF PollPop, QueueTop, QueuePop, QueueEmpty, Forgetful, TypeOK
  <2>2. Range(visited') = Range(visited) \cup {nid}
    <3>1. nid \in Nodes /\ visited \in Seq(Nodes)
      <4>1. Head(Q) \in Entry
        BY <1>8, HeadTailProperties DEF PollPop, QueueTop, QueuePop, QueueEmpty, TypeOK
      <4> QED
        BY <4>1 DEF Entry, TypeOK
    <3>2. visited' = Append(visited, nid)
      BY <1>8 DEF PollPop, QueueTop, QueuePop, QueueEmpty
    <3> QED
      BY <3>1, <3>2, RangeOfAppend
  <2> HIDE DEF nid
  <2>3. method' = "sample" => guestSeen' \subseteq Range(visited')
    BY <2>1, <2>2 DEF Forgetful
  <2>4. method' \notin {"none", "initialize", "poll"} /\ wasm' = TRUE
    BY <2>1
  <2> QED
    BY <2>1, <2>3, <2>4 DEF Forgetful
<1>9. ASSUME NEW ok \in BOOLEAN, FilterReturn(ok)
      PROVE  Forgetful'
  BY <1>9 DEF FilterReturn, PollReturns, Forgetful
<1>10. CASE Finish
  <2>1. guestSeen' = {}
    <3>1. \A ok \in FinishOutcomes : ok = TRUE
      BY FlagsAssumption
    <3> QED
      BY <1>10, <3>1 DEF Finish, GuestFinish, Forgetful
  <2> QED
    BY <1>10, <2>1 DEF Finish, Forgetful
<1>11. ASSUME NEW nids \in NidSpans, SelectNode(nids)
       PROVE  Forgetful'
  BY <1>11 DEF SelectNode, Forgetful
<1>12. ASSUME NEW entries, ExtendNode(entries)
       PROVE  Forgetful'
  BY <1>12 DEF ExtendNode, Forgetful
<1>13. CASE ExtendStep
  BY <1>13 DEF ExtendStep, Forgetful
<1>14. CASE UNCHANGED vars
  BY <1>14 DEF vars, Forgetful
<1> QED
  BY <1>1, <1>2, <1>3, <1>4, <1>5, <1>6, <1>7, <1>8, <1>9, <1>10, <1>11, <1>12,
     <1>13, <1>14
  DEF Next, Owner, Guest, Block

\* When the owner never polls by hand and finish() never traps, sample() finds
\* no trace of an earlier sample in the guest.
THEOREM SamplesStartFresh ==
    ASSUME "poll" \notin Api, FALSE \notin FinishOutcomes
    PROVE  Spec => []SampleStartsFresh
<1>1. Init => Forgetful
  BY ForgetfulInit
<1>2. TypeOK /\ Forgetful /\ [Next]_vars => Forgetful'
  BY ForgetfulStep
<1>3. Forgetful => SampleStartsFresh
  BY DEF Forgetful, SampleStartsFresh
<1> QED
  BY <1>1, <1>2, <1>3, TypeCorrect, PTL DEF Spec

=============================================================================
