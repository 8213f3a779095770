--------------------------- MODULE Storage_proofs ---------------------------
(***************************************************************************)
(* What the threads that share a storage rely on, for every number of      *)
(* threads, every set of nodes and every capacity: the cache stays a       *)
(* bounded cache, what get() returns is of the node that was asked for,    *)
(* and an iterator dangles only after Capacity other nodes were used.      *)
(***************************************************************************)
EXTENDS Storage, CachePolicies_proofs

\* The cache within its contract.
Shared ==
    /\ TypeOK
    /\ Remembers(Lru, pol, DOMAIN items)
    /\ Cardinality(DOMAIN items) <= Capacity

\* Buffer b is of node n, in a version that the backend has had.
IsOf(b, n) == b \in Buffer /\ b.nid = n /\ b.version <= backend[n]

\* Buffer b is what the call of thread t may give: of its node, and if it was
\* missed, no older than the call.
Serves(b, t) == IsOf(b, nid[t]) /\ before[t] <= b.version

\* The buffers of the cache and of the threads.
InFlight ==
    /\ \A n \in DOMAIN items : IsOf(items[n], n)
    /\ \A t \in Threads :
          /\ Copying(t) /\ ~dangling[t] => nid[t] \in DOMAIN items
          /\ Copying(t) => before[t] = 0
          /\ at[t] = "fetch" => before[t] <= backend[nid[t]]
          /\ at[t] = "copy size" => Serves(data[t], t)
          /\ at[t] = "put" => \A b \in {data[t], size[t]} : Serves(b, t)
          /\ at[t] = "idle" => \A b \in {data[t], size[t]} :
                                  b = NoBuffer \/ Serves(b, t)

\* The list of LRU is what since[t] counts: the nodes behind the one that t
\* copies are those that were used since t found it.
Recency ==
    \A t \in Threads : Copying(t) =>
        /\ ~dangling[t] => Behind(pol.order, nid[t]) \subseteq since[t]
        /\ dangling[t] => Cardinality(since[t]) >= Capacity

LEMMA ItemsFinite == ASSUME Shared PROVE IsFiniteSet(DOMAIN items)
BY NidsAssumption, FS_Subset DEF Shared, TypeOK

LEMMA SharedInit == Init => Shared
<1> SUFFICES ASSUME Init PROVE Shared
  OBVIOUS
<1>1. DOMAIN items = {} /\ items \in [DOMAIN items -> Buffer]
  BY DEF Init
<1>2. pol \in PolicyRecords(Nids) /\ Remembers(Lru, pol, {})
  BY NoKeysRemembered DEF Init, PolicyNames
<1>3. Cardinality({}) = 0
  BY FS_EmptySet
<1>4. TypeOK
  <2>1. DOMAIN items \subseteq Nids
    BY <1>1
  <2>2. backend \in [Nids -> 0 .. MaxVersion]
    BY VersionAssumption DEF Init
  <2>3. /\ at \in [Threads -> Places]
        /\ nid \in [Threads -> Nids]
        /\ dangling \in [Threads -> BOOLEAN]
        /\ raced \in [Threads -> BOOLEAN]
        /\ undefined \in {"no", "erased", "raced"}
    BY DEF Init, Places
  <2>4. /\ data \in [Threads -> Buffer \cup {NoBuffer}]
        /\ size \in [Threads -> Buffer \cup {NoBuffer}]
        /\ since \in [Threads -> SUBSET Nids]
        /\ before \in [Threads -> 0 .. MaxVersion]
    BY VersionAssumption DEF Init
  <2> QED
    BY <1>1, <1>2, <2>1, <2>2, <2>3, <2>4 DEF TypeOK, PolicyRecords
<1> QED
  BY <1>1, <1>2, <1>3, <1>4, CapacityAssumption DEF Shared

LEMMA InFlightInit == Init => InFlight
BY DEF Init, InFlight, Copying

LEMMA RecencyInit == Init => Recency
BY DEF Init, Recency, Copying

-----------------------------------------------------------------------------
(* The steps that use the cache: Hit and the three outcomes of Put.         *)

\* The use of node n by a thread, as far as the policy is concerned.
Uses(n) ==
    \/ /\ n \in DOMAIN items /\ DOMAIN items' = DOMAIN items
       /\ pol' = Touch(Lru, pol, n)
    \/ /\ n \notin DOMAIN items /\ DOMAIN items' = DOMAIN items \cup {n}
       /\ Cardinality(DOMAIN items) + 1 <= Capacity
       /\ pol' = Insert(Lru, pol, n)
    \/ /\ n \notin DOMAIN items
       /\ DOMAIN items' = (DOMAIN items \ {Head(pol.order)}) \cup {n}
       /\ Cardinality(DOMAIN items) + 1 > Capacity
       /\ pol' = Insert(Lru, Erase(Lru, pol, Head(pol.order)), n)

\* What a use does to the policy: it remembers the elements of the map, and
\* the node that was used comes to stand behind all others.
Used(n) ==
    /\ pol' \in PolicyRecords(Nids)
    /\ Remembers(Lru, pol', DOMAIN items')
    /\ Cardinality(DOMAIN items') <= Capacity
    /\ \A m : Behind(pol'.order, m) \subseteq Behind(pol.order, m) \cup {n}
    /\ Behind(pol'.order, n) = {}

LEMMA CacheFacts ==
    ASSUME Shared
    PROVE  /\ pol \in PolicyRecords(Nids) /\ pol.order \in Seq(Nids)
           /\ IsFiniteSet(DOMAIN items) /\ Cardinality(DOMAIN items) \in Nat
           /\ Range(pol.order) = DOMAIN items /\ IsInjective(pol.order)
           /\ pol.finder = DOMAIN items
           /\ Capacity \in Nat \ {0}
<1>1. IsFiniteSet(DOMAIN items) /\ Cardinality(DOMAIN items) \in Nat
  BY ItemsFinite, FS_CardinalityType
<1> QED
  BY <1>1, CapacityAssumption DEF Shared, TypeOK, PolicyRecords, Remembers

\* A full cache has a victim, and it is an element.
LEMMA VictimExists ==
    ASSUME Shared, Cardinality(DOMAIN items) + 1 > Capacity
    PROVE  /\ Len(pol.order) > 0
           /\ Head(pol.order) \in DOMAIN items
           /\ Cardinality(DOMAIN items) = Capacity
<1>1. Cardinality(DOMAIN items) = Capacity /\ Capacity > 0
  BY CacheFacts DEF Shared
<1>2. DOMAIN items # {}
  BY <1>1, FS_EmptySet
<1>3. Len(pol.order) \in Nat /\ DOMAIN pol.order = 1 .. Len(pol.order)
  BY CacheFacts, LenProperties
<1>4. Len(pol.order) > 0
  BY <1>2, <1>3, CacheFacts DEF Range
<1> QED
  BY <1>1, <1>4, CacheFacts, TailElements

LEMMA TouchUsed ==
    ASSUME Shared, NEW n \in Nids, n \in DOMAIN items,
           DOMAIN items' = DOMAIN items, pol' = Touch(Lru, pol, n)
    PROVE  Used(n)
<1> DEFINE q == Without(pol.order, n)
           i == Position(pol.order, n)
<1>1. /\ pol' \in PolicyRecords(Nids)
      /\ Remembers(Lru, pol', DOMAIN items')
  <2>1. n \in Range(pol.order) /\ Lru \in PolicyNames
    BY CacheFacts DEF PolicyNames
  <2> QED
    BY <2>1, CacheFacts, TouchKeepsKeys DEF Shared
<1>2. q \in Seq(Nids) /\ n \notin Range(q)
  BY CacheFacts, WithoutDropsOne
<1>3. \A m : Behind(q, m) \subseteq Behind(pol.order, m)
  <2>1. \E j \in DOMAIN pol.order : /\ pol.order[j] = n
           /\ \A l \in DOMAIN pol.order : pol.order[l] = n => l <= j
    BY CacheFacts, LastOccurrence
  <2>2. i \in DOMAIN pol.order
    BY <2>1 DEF Position
  <2> HIDE DEF i
  <2>3. i \in 1 .. Len(pol.order)
    BY <2>2, CacheFacts, LenProperties
  <2> QED
    BY <2>3, CacheFacts, RemoveAtBehind DEF Without, i
<1>4. pol'.order = Append(q, n)
  <2>1. pol' = [pol EXCEPT !.order = Append(q, n)]
    BY Virtual DEF LruTouch
  <2> HIDE DEF q
  <2> QED
    BY <2>1, CacheFacts DEF PolicyRecords
<1> HIDE DEF q
<1>5. /\ \A m : Behind(pol'.order, m) \subseteq Behind(q, m) \cup {n}
      /\ Behind(pol'.order, n) = {}
  BY <1>2, <1>4, AppendBehind
<1> QED
  BY <1>1, <1>3, <1>5 DEF Used, Shared

LEMMA InsertUsed ==
    ASSUME Shared, NEW n \in Nids, n \notin DOMAIN items,
           DOMAIN items' = DOMAIN items \cup {n},
           Cardinality(DOMAIN items) + 1 <= Capacity,
           pol' = Insert(Lru, pol, n)
    PROVE  Used(n)
<1>1. /\ pol' \in PolicyRecords(Nids)
      /\ Remembers(Lru, pol', DOMAIN items')
  <2>1. Lru \in PolicyNames
    BY DEF PolicyNames
  <2> QED
    BY <2>1, CacheFacts, InsertAddsKey DEF Shared
<1>2. Cardinality(DOMAIN items') <= Capacity
  <2>1. Cardinality(DOMAIN items \cup {n}) = Cardinality(DOMAIN items) + 1
    BY CacheFacts, FS_AddElement
  <2> QED
    BY <2>1
<1>3. pol'.order = Append(pol.order, n)
  <2>1. pol' = LruInsert(pol, n)
    BY Virtual
  <2> QED
    BY <2>1, CacheFacts DEF LruInsert, PolicyRecords
<1>4. /\ \A m : Behind(pol'.order, m) \subseteq Behind(pol.order, m) \cup {n}
      /\ Behind(pol'.order, n) = {}
  BY <1>3, CacheFacts, AppendBehind
<1> QED
  BY <1>1, <1>2, <1>4 DEF Used

LEMMA EvictUsed ==
    ASSUME Shared, NEW n \in Nids, n \notin DOMAIN items,
           DOMAIN items' = (DOMAIN items \ {Head(pol.order)}) \cup {n},
           Cardinality(DOMAIN items) + 1 > Capacity,
           pol' = Insert(Lru, Erase(Lru, pol, Head(pol.order)), n)
    PROVE  Used(n)
<1> DEFINE victim == Head(pol.order)
           erased == Erase(Lru, pol, victim)
           rest == DOMAIN items \ {victim}
           q == Tail(pol.order)
<1>1. /\ Len(pol.order) > 0 /\ victim \in DOMAIN items /\ victim \in Nids
      /\ Cardinality(DOMAIN items) = Capacity
  BY VictimExists DEF Shared, TypeOK
<1>2. Lru \in PolicyNames /\ Lru \notin ErasesByKey
  BY DEF PolicyNames, ErasesByKey, Lru, Lfu, None
<1>3. erased \in PolicyRecords(Nids) /\ Remembers(Lru, erased, rest)
  BY <1>1, <1>2, CacheFacts, EraseDropsOne DEF Shared
<1>4. erased.order = q
  <2>1. erased = LruErase(pol, victim)
    BY Virtual
  <2> HIDE DEF erased
  <2>2. erased = [pol EXCEPT !.order = q, !.finder = pol.finder \ {victim}]
    BY <2>1 DEF LruErase
  <2> HIDE DEF q, victim
  <2> QED
    BY <2>2, CacheFacts DEF PolicyRecords
<1>5. q \in Seq(Nids) /\ \A m : Behind(q, m) \subseteq Behind(pol.order, m)
  BY <1>1, CacheFacts, TailElements, TailBehind
<1>6. Cardinality(DOMAIN items') <= Capacity
  <2>1. IsFiniteSet(rest) /\ Cardinality(rest) = Capacity - 1
    BY <1>1, CacheFacts, FS_RemoveElement
  <2>2. n \notin rest /\ DOMAIN items' = rest \cup {n}
    OBVIOUS
  <2> HIDE DEF rest
  <2>3. Cardinality(rest \cup {n}) = Cardinality(rest) + 1
    BY <2>1, <2>2, FS_AddElement
  <2> QED
    BY <2>1, <2>2, <2>3, CacheFacts
<1>7. n \notin rest /\ DOMAIN items' = rest \cup {n}
  OBVIOUS
<1>8. pol' = Insert(Lru, erased, n)
  OBVIOUS
<1> HIDE DEF erased, rest, q
<1>9. pol' \in PolicyRecords(Nids) /\ Remembers(Lru, pol', DOMAIN items')
  BY <1>2, <1>3, <1>7, <1>8, InsertAddsKey
<1>10. pol'.order = Append(q, n)
  <2>1. pol' = LruInsert(erased, n)
    BY <1>8, Virtual
  <2> QED
    BY <1>3, <1>4, <2>1 DEF LruInsert, PolicyRecords
<1>11. n \notin Range(q)
  BY <1>3, <1>4, <1>7 DEF Remembers
<1>12. /\ \A m : Behind(pol'.order, m) \subseteq Behind(q, m) \cup {n}
       /\ Behind(pol'.order, n) = {}
  BY <1>5, <1>10, <1>11, AppendBehind
<1> QED
  BY <1>5, <1>6, <1>9, <1>12 DEF Used

LEMMA UsesUsed == ASSUME Shared, NEW n \in Nids, Uses(n) PROVE Used(n)
BY TouchUsed, InsertUsed, EvictUsed DEF Uses

\* A longer history has no fewer nodes.
LEMMA SinceGrows ==
    ASSUME Shared, NEW u \in Threads, NEW n \in Nids
    PROVE  Cardinality(since[u]) >= Capacity =>
              Cardinality(since[u] \cup ({n} \ {nid[u]})) >= Capacity
<1> DEFINE more == since[u] \cup ({n} \ {nid[u]})
<1>1. since[u] \subseteq more /\ more \subseteq Nids
  BY DEF Shared, TypeOK
<1> HIDE DEF more
<1>2. IsFiniteSet(more)
  BY <1>1, NidsAssumption, FS_Subset
<1>3. /\ Cardinality(since[u]) <= Cardinality(more)
      /\ Cardinality(since[u]) \in Nat /\ Cardinality(more) \in Nat
  BY <1>1, <1>2, FS_Subset, FS_CardinalityType
<1> QED
  BY <1>3, CapacityAssumption DEF more

-----------------------------------------------------------------------------
(* TryGet that finds its node.                                              *)

LEMMA HitStep ==
    ASSUME Shared, InFlight, Recency, NEW t \in Threads, NEW n \in Nids, Hit(t, n)
    PROVE  Shared' /\ InFlight' /\ Recency'
<1>1. /\ n \in DOMAIN items
      /\ items' = items /\ backend' = backend /\ raced' = raced
      /\ data' = data /\ size' = size /\ undefined' = undefined
      /\ at' = [at EXCEPT ![t] = "found"]
      /\ before' = [before EXCEPT ![t] = 0]
      /\ nid' = [nid EXCEPT ![t] = n]
      /\ dangling' = [dangling EXCEPT ![t] = FALSE]
      /\ since' = Seen(n, t)
  BY DEF Hit, Found
<1>2. Used(n)
  BY <1>1, TouchUsed DEF Hit
<1>3. /\ at \in [Threads -> Places]
      /\ nid \in [Threads -> Nids]
      /\ dangling \in [Threads -> BOOLEAN]
      /\ since \in [Threads -> SUBSET Nids]
      /\ before \in [Threads -> 0 .. MaxVersion]
  BY DEF Shared, TypeOK
<1>4. Shared'
  <2>1. since' \in [Threads -> SUBSET Nids]
    BY <1>1, <1>3 DEF Seen
  <2>2. /\ at' \in [Threads -> Places] /\ nid' \in [Threads -> Nids]
        /\ dangling' \in [Threads -> BOOLEAN]
        /\ before' \in [Threads -> 0 .. MaxVersion]
    <3>1. "found" \in Places
      BY DEF Places
    <3>2. 0 \in 0 .. MaxVersion
      BY VersionAssumption
    <3> QED
      BY <1>1, <1>3, <3>1, <3>2
  <2>3. TypeOK'
    BY <1>1, <1>2, <1>3, <2>1, <2>2 DEF Shared, TypeOK, Used, PolicyRecords
  <2> QED
    BY <1>2, <2>3 DEF Shared, Used
<1>5. /\ at'[t] = "found" /\ nid'[t] = n /\ ~dangling'[t] /\ before'[t] = 0
      /\ \A u \in Threads \ {t} : /\ at'[u] = at[u] /\ nid'[u] = nid[u]
                                  /\ dangling'[u] = dangling[u]
                                  /\ before'[u] = before[u]
                                  /\ Copying(u) => since'[u] =
                                        since[u] \cup ({n} \ {nid[u]})
  BY <1>1, <1>3 DEF Seen
<1>6. InFlight'
  <2>1. \A m \in DOMAIN items' : IsOf(items[m], m)'
    BY <1>1 DEF InFlight, IsOf
  <2>2. ASSUME NEW u \in Threads
        PROVE  /\ Copying(u)' /\ ~dangling'[u] => nid'[u] \in DOMAIN items'
               /\ Copying(u)' => before'[u] = 0
               /\ at'[u] = "fetch" => before'[u] <= backend'[nid'[u]]
               /\ at'[u] = "copy size" => Serves(data[u], u)'
               /\ at'[u] = "put" => \A b \in {data'[u], size'[u]} : Serves(b, u)'
               /\ at'[u] = "idle" => \A b \in {data'[u], size'[u]} :
                                        b = NoBuffer \/ Serves(b, u)'
    <3>1. CASE u = t
      BY <1>1, <1>5, <3>1 DEF Copying
    <3>2. CASE u # t
      <4>1. /\ at'[u] = at[u] /\ nid'[u] = nid[u] /\ before'[u] = before[u]
            /\ dangling'[u] = dangling[u] /\ data' = data /\ size' = size
            /\ items' = items /\ backend' = backend
        BY <1>1, <1>5, <3>2
      <4>2. \A b : Serves(b, u) <=> Serves(b, u)'
        BY <4>1 DEF Serves, IsOf
      <4>3. Serves(data[u], u)' <=> Serves(data[u], u)
        BY <4>1 DEF Serves, IsOf
      <4> QED
        BY <4>1, <4>2, <4>3 DEF InFlight, Copying
    <3> QED
      BY <3>1, <3>2
  <2> QED
    BY <2>1, <2>2 DEF InFlight
<1>7. Recency'
  <2> SUFFICES ASSUME NEW u \in Threads, Copying(u)'
               PROVE  /\ ~dangling'[u] => Behind(pol'.order, nid'[u]) \subseteq since'[u]
                      /\ dangling'[u] => Cardinality(since'[u]) >= Capacity
    BY DEF Recency
  <2>1. CASE u = t
    BY <1>2, <1>5, <2>1 DEF Used
  <2>2. CASE u # t
    <3>1. Copying(u)
      BY <1>5, <2>2 DEF Copying
    <3>2. ~dangling[u] => Behind(pol.order, nid[u]) \subseteq since[u]
      BY <3>1 DEF Recency
    <3>3. ~dangling[u] => Behind(pol'.order, nid[u]) \subseteq since'[u]
      <4>1. /\ Behind(pol'.order, nid[u]) \subseteq Behind(pol.order, nid[u]) \cup {n}
            /\ Behind(pol'.order, n) = {}
        BY <1>2 DEF Used
      <4>2. since'[u] = since[u] \cup ({n} \ {nid[u]})
        BY <1>5, <2>2, <3>1
      <4>3. CASE n = nid[u]
        BY <4>1, <4>3
      <4>4. CASE n # nid[u]
        BY <3>2, <4>1, <4>2, <4>4
      <4> QED
        BY <4>3, <4>4
    <3>4. dangling[u] => Cardinality(since'[u]) >= Capacity
      BY <1>5, <2>2, <3>1, SinceGrows DEF Recency
    <3> QED
      BY <1>5, <2>2, <3>3, <3>4
  <2> QED
    BY <2>1, <2>2
<1> QED
  BY <1>4, <1>6, <1>7

-----------------------------------------------------------------------------
(* Put, in its three outcomes.                                              *)

Fills(t, kept) ==
    /\ at[t] = "put"
    /\ kept \subseteq DOMAIN items
    /\ Filled(t, kept)
    /\ Uses(nid[t])
    /\ raced' \in [Threads -> BOOLEAN]
    /\ dangling' = [u \in Threads |->
          dangling[u] \/ (Copying(u) /\ nid[u] \in DOMAIN items \ kept)]
    /\ \A m \in DOMAIN items \ kept :
          /\ m = Head(pol.order)
          /\ nid[t] \notin DOMAIN items
          /\ Cardinality(DOMAIN items) = Capacity

LEMMA PutFills ==
    ASSUME Shared, NEW t \in Threads,
           PutUpdate(t) \/ PutNew(t) \/ PutEvicting(t)
    PROVE  \E kept : Fills(t, kept)
<1>1. /\ at[t] = "put"
      /\ dangling \in [Threads -> BOOLEAN]
      /\ raced' \in [Threads -> BOOLEAN]
  BY DEF PutUpdate, PutNew, PutEvicting, Evicts, In, Shared, TypeOK
<1>2. ASSUME NEW kept, Filled(t, kept)
      PROVE  DOMAIN items' = kept \cup {nid[t]}
  BY <1>2 DEF Filled
<1>3. CASE PutUpdate(t) \/ PutNew(t)
  <2>1. /\ Filled(t, DOMAIN items)
        /\ dangling' = dangling
    BY <1>3 DEF PutUpdate, PutNew
  <2>2. dangling' = [u \in Threads |->
           dangling[u] \/ (Copying(u) /\ nid[u] \in DOMAIN items \ DOMAIN items)]
    BY <1>1, <2>1
  <2>3. Uses(nid[t])
    <3>1. DOMAIN items' = DOMAIN items \cup {nid[t]}
      BY <1>2, <2>1
    <3> QED
      BY <1>3, <3>1 DEF Uses, PutUpdate, PutNew
  <2>4. Fills(t, DOMAIN items)
    BY <1>1, <2>1, <2>2, <2>3 DEF Fills
  <2> QED
    BY <2>4
<1>4. CASE PutEvicting(t)
  <2> DEFINE victim == Head(pol.order)
  <2>1. /\ Filled(t, DOMAIN items \ {victim})
        /\ nid[t] \notin DOMAIN items
        /\ Cardinality(DOMAIN items) + 1 > Capacity
        /\ pol' = Insert(Lru, Erase(Lru, pol, victim), nid[t])
        /\ dangling' = [u \in Threads |->
              dangling[u] \/ (Copying(u) /\ nid[u] = victim)]
    BY <1>4 DEF PutEvicting, Evicts
  <2>2. victim \in DOMAIN items /\ Cardinality(DOMAIN items) = Capacity
    BY <2>1, VictimExists
  <2>3. Uses(nid[t])
    BY <1>2, <2>1 DEF Uses
  <2>4. DOMAIN items \ (DOMAIN items \ {victim}) = {victim}
    BY <2>2
  <2>5. Fills(t, DOMAIN items \ {victim})
    BY <1>1, <2>1, <2>2, <2>3, <2>4 DEF Fills
  <2> QED
    BY <2>5
<1> QED
  BY <1>3, <1>4

LEMMA FillStep ==
    ASSUME Shared, InFlight, Recency, NEW t \in Threads, NEW kept, Fills(t, kept)
    PROVE  Shared' /\ InFlight' /\ Recency'
<1> DEFINE n == nid[t]
<1>1. /\ at \in [Threads -> Places]
      /\ nid \in [Threads -> Nids]
      /\ dangling \in [Threads -> BOOLEAN]
      /\ since \in [Threads -> SUBSET Nids]
  BY DEF Shared, TypeOK
<1>2. /\ at[t] = "put" /\ n \in Nids /\ kept \subseteq DOMAIN items
      /\ DOMAIN items' = kept \cup {n}
      /\ \A m \in DOMAIN items' : items'[m] = IF m = n THEN data[t] ELSE items[m]
      /\ items' = [m \in DOMAIN items' |-> IF m = n THEN data[t] ELSE items[m]]
      /\ since' = Seen(n, t)
      /\ at' = [at EXCEPT ![t] = "idle"]
      /\ UNCHANGED <<backend, nid, data, size, undefined, before>>
  BY <1>1 DEF Fills, Filled, Returns
<1>3. Used(n)
  BY <1>2, UsesUsed DEF Fills
<1>4. \A b \in {data[t], size[t]} : Serves(b, t) /\ IsOf(b, n)
  BY <1>2 DEF InFlight, Serves
<1>5. Shared'
  <2>1. since' \in [Threads -> SUBSET Nids]
    BY <1>1, <1>2 DEF Seen
  <2>2. dangling' \in [Threads -> BOOLEAN] /\ raced' \in [Threads -> BOOLEAN]
    BY DEF Fills
  <2>3. items' \in [DOMAIN items' -> Buffer] /\ DOMAIN items' \subseteq Nids
    BY <1>2, <1>4 DEF Shared, TypeOK, IsOf
  <2>4. at' \in [Threads -> Places]
    BY <1>1, <1>2 DEF Places
  <2>5. TypeOK'
    BY <1>2, <1>3, <2>1, <2>2, <2>3, <2>4 DEF Shared, TypeOK, Used, PolicyRecords
  <2> QED
    BY <1>3, <2>5 DEF Shared, Used
<1>6. /\ at'[t] = "idle"
      /\ \A u \in Threads \ {t} : /\ at'[u] = at[u]
                                  /\ Copying(u) => since'[u] =
                                        since[u] \cup ({n} \ {nid[u]})
  BY <1>1, <1>2 DEF Seen
<1>7. \A u \in Threads :
         dangling'[u] = (dangling[u] \/ (Copying(u) /\ nid[u] \in DOMAIN items \ kept))
  BY DEF Fills
<1>8. InFlight'
  <2>1. \A m \in DOMAIN items' : IsOf(items[m], m)'
    BY <1>2, <1>4 DEF InFlight, IsOf
  <2>2. ASSUME NEW u \in Threads, Copying(u)', ~dangling'[u]
        PROVE  nid'[u] \in DOMAIN items'
    <3>1. u # t /\ Copying(u)
      BY <1>6, <2>2 DEF Copying
    <3>2. ~dangling[u] /\ nid[u] \notin DOMAIN items \ kept
      BY <1>7, <2>2, <3>1
    <3>3. nid[u] \in DOMAIN items
      BY <3>1, <3>2 DEF InFlight
    <3> QED
      BY <1>2, <3>2, <3>3
  <2>3. \A u \in Threads :
           /\ Copying(u)' => before'[u] = 0
           /\ at'[u] = "fetch" => before'[u] <= backend'[nid'[u]]
           /\ at'[u] = "copy size" => Serves(data[u], u)'
           /\ at'[u] = "put" => \A b \in {data'[u], size'[u]} : Serves(b, u)'
    <3> SUFFICES ASSUME NEW u \in Threads
                 PROVE  /\ Copying(u)' => before'[u] = 0
                        /\ at'[u] = "fetch" => before'[u] <= backend'[nid'[u]]
                        /\ at'[u] = "copy size" => Serves(data[u], u)'
                        /\ at'[u] = "put" => \A b \in {data'[u], size'[u]} :
                                                Serves(b, u)'
      OBVIOUS
    <3>1. \A b : Serves(b, u) => Serves(b, u)'
      BY <1>2 DEF Serves, IsOf
    <3>2. UNCHANGED <<data, size, before, backend, nid>>
      BY <1>2
    <3>3. Serves(data[u], u) => Serves(data[u], u)'
      BY <1>2 DEF Serves, IsOf
    <3>4. CASE u = t
      BY <1>6, <3>4 DEF Copying
    <3>5. CASE u # t
      BY <1>6, <3>1, <3>2, <3>3, <3>5 DEF InFlight, Copying
    <3> QED
      BY <3>4, <3>5
  <2>4. \A u \in Threads :
           at'[u] = "idle" => \A b \in {data'[u], size'[u]} :
                                 b = NoBuffer \/ Serves(b, u)'
    <3> SUFFICES ASSUME NEW u \in Threads, at'[u] = "idle"
                 PROVE  \A b \in {data'[u], size'[u]} :
                           b = NoBuffer \/ Serves(b, u)'
      OBVIOUS
    <3>1. \A b : Serves(b, u) => Serves(b, u)'
      BY <1>2 DEF Serves, IsOf
    <3>2. data' = data /\ size' = size
      BY <1>2
    <3>3. CASE u = t
      BY <1>4, <3>1, <3>2, <3>3
    <3>4. CASE u # t
      BY <1>6, <3>1, <3>2, <3>4 DEF InFlight
    <3> QED
      BY <3>3, <3>4
  <2> QED
    BY <2>1, <2>2, <2>3, <2>4 DEF InFlight
<1>9. Recency'
  <2> SUFFICES ASSUME NEW u \in Threads, Copying(u)'
               PROVE  /\ ~dangling'[u] => Behind(pol'.order, nid'[u]) \subseteq since'[u]
                      /\ dangling'[u] => Cardinality(since'[u]) >= Capacity
    BY DEF Recency
  <2>1. u # t /\ Copying(u) /\ nid'[u] = nid[u]
    BY <1>2, <1>6 DEF Copying
  <2>2. ~dangling[u] => Behind(pol.order, nid[u]) \subseteq since[u]
    BY <2>1 DEF Recency
  <2>3. ~dangling[u] => Behind(pol'.order, nid[u]) \subseteq since'[u]
    BY <1>3, <1>6, <2>1, <2>2 DEF Used
  <2>4. dangling[u] => Cardinality(since'[u]) >= Capacity
    <3>1. Cardinality(since[u]) >= Capacity =>
             Cardinality(since[u] \cup ({n} \ {nid[u]})) >= Capacity
      BY <1>2, SinceGrows
    <3>2. dangling[u] => Cardinality(since[u]) >= Capacity
      BY <2>1 DEF Recency
    <3> QED
      BY <1>6, <2>1, <3>1, <3>2
  <2>5. ~dangling[u] /\ nid[u] \in DOMAIN items \ kept =>
           Cardinality(since'[u]) >= Capacity
    <3> SUFFICES ASSUME ~dangling[u], nid[u] \in DOMAIN items \ kept
                 PROVE  Cardinality(since'[u]) >= Capacity
      OBVIOUS
    <3>1. /\ nid[u] = Head(pol.order)
          /\ n \notin DOMAIN items
          /\ Cardinality(DOMAIN items) = Capacity
      BY DEF Fills
    <3> DEFINE others == DOMAIN items \ {nid[u]}
    <3>2. Len(pol.order) > 0
      BY <3>1, CacheFacts, VictimExists
    <3>3. others \subseteq since[u]
      BY <2>2, <3>1, <3>2, CacheFacts, TailBehind
    <3>4. n # nid[u] /\ n \notin others
      BY <3>1
    <3>5. others \cup {n} \subseteq since'[u]
      BY <1>6, <2>1, <3>3, <3>4
    <3>6. IsFiniteSet(others) /\ Cardinality(others) = Capacity - 1
      BY <3>1, CacheFacts, FS_RemoveElement
    <3> HIDE DEF others
    <3>7. Cardinality(others \cup {n}) = Capacity - 1 + 1
      BY <3>4, <3>6, FS_AddElement
    <3>8. IsFiniteSet(since'[u])
      BY <1>5, NidsAssumption, FS_Subset DEF Shared, TypeOK
    <3>9. Cardinality(others \cup {n}) <= Cardinality(since'[u])
      BY <3>5, <3>8, FS_Subset
    <3> QED
      BY <3>7, <3>9, CacheFacts
  <2> QED
    BY <1>7, <2>1, <2>3, <2>4, <2>5
<1> QED
  BY <1>5, <1>8, <1>9

-----------------------------------------------------------------------------
(* The steps that leave the cache alone.                                    *)

LocalSteps(t) ==
    \/ \E n \in Nids : Miss(t, n)
    \/ BeginCopy(t) \/ CopyData(t) \/ CopySize(t)
    \/ CopyRaced(t) \/ CopyErased(t) \/ Fetch(t)

\* What they leave behind: values of their types, no iterator but those that
\* were there, and buffers of the node that was asked for.
KeepsWhole(t) ==
    /\ at' \in [Threads -> Places]
    /\ nid' \in [Threads -> Nids]
    /\ data' \in [Threads -> Buffer \cup {NoBuffer}]
    /\ size' \in [Threads -> Buffer \cup {NoBuffer}]
    /\ raced' \in [Threads -> BOOLEAN]
    /\ before' \in [Threads -> 0 .. MaxVersion]
    /\ undefined' \in {"no", "erased", "raced"}
    /\ Copying(t)' => /\ Copying(t) /\ nid'[t] = nid[t]
                      /\ before'[t] = 0
    /\ at'[t] = "fetch" => before'[t] <= backend'[nid'[t]]
    /\ at'[t] = "copy size" => Serves(data[t], t)'
    /\ at'[t] = "put" => \A b \in {data'[t], size'[t]} : Serves(b, t)'
    /\ at'[t] = "idle" => \A b \in {data'[t], size'[t]} :
                             b = NoBuffer \/ Serves(b, t)'

\* The element that an iterator points to.
LEMMA ItemCopied ==
    ASSUME Shared, InFlight, NEW t \in Threads, Copying(t), ~dangling[t]
    PROVE  items[nid[t]] \in Buffer /\ Serves(items[nid[t]], t)
<1>1. items[nid[t]] \in Buffer /\ IsOf(items[nid[t]], nid[t]) /\ before[t] = 0
  BY DEF Shared, TypeOK, InFlight
<1>2. items[nid[t]].version \in 0 .. MaxVersion
  BY <1>1 DEF Buffer
<1> QED
  BY <1>1, <1>2, VersionAssumption DEF Serves

LEMMA FetchedGenuine ==
    ASSUME Shared, InFlight, NEW t \in Threads, at[t] = "fetch"
    PROVE  Current(nid[t]) \in Buffer /\ Serves(Current(nid[t]), t)
<1>1. nid[t] \in Nids /\ backend[nid[t]] \in 0 .. MaxVersion
  BY DEF Shared, TypeOK
<1>2. before[t] <= backend[nid[t]]
  BY DEF InFlight
<1> QED
  BY <1>1, <1>2, VersionAssumption DEF Buffer, IsOf, Serves, Current

LEMMA LocalLeavesItems ==
    ASSUME NEW t \in Threads, LocalSteps(t)
    PROVE  UNCHANGED <<items, pol, backend, dangling, since>>
BY DEF LocalSteps, Miss, BeginCopy, CopyData, CopySize, CopyRaced, CopyErased,
       Fetch, Fetched, cache, local, history

LEMMA LocalStep ==
    ASSUME Shared, InFlight, Recency, NEW t \in Threads, LocalSteps(t)
    PROVE  Shared' /\ InFlight' /\ Recency'
<1>1. UNCHANGED <<items, pol, backend, dangling, since>>
  BY LocalLeavesItems
<1>2. /\ at \in [Threads -> Places]
      /\ nid \in [Threads -> Nids]
      /\ raced \in [Threads -> BOOLEAN]
      /\ data \in [Threads -> Buffer \cup {NoBuffer}]
      /\ size \in [Threads -> Buffer \cup {NoBuffer}]
      /\ before \in [Threads -> 0 .. MaxVersion]
      /\ undefined \in {"no", "erased", "raced"}
  BY DEF Shared, TypeOK
<1>3. \A u \in Threads \ {t} : /\ at'[u] = at[u] /\ nid'[u] = nid[u]
                              /\ data'[u] = data[u] /\ size'[u] = size[u]
                              /\ before'[u] = before[u]
  BY <1>2 DEF LocalSteps, Miss, BeginCopy, CopyData, CopySize, CopyRaced, CopyErased,
              Fetch, Fetched, local, history
<1>4. KeepsWhole(t)
  <2>2. ASSUME NEW n \in Nids, Miss(t, n)
        PROVE  KeepsWhole(t)
    <3>1. /\ at' = [at EXCEPT ![t] = "fetch"]
          /\ nid' = [nid EXCEPT ![t] = n]
          /\ before' = [before EXCEPT ![t] = backend[n]]
          /\ UNCHANGED <<backend, raced, data, size, undefined>>
      BY <2>2 DEF Miss
    <3>2. backend[n] \in 0 .. MaxVersion
      BY DEF Shared, TypeOK
    <3>3. /\ at' \in [Threads -> Places] /\ nid' \in [Threads -> Nids]
          /\ before' \in [Threads -> 0 .. MaxVersion]
      BY <1>2, <3>1, <3>2 DEF Places
    <3>4. at'[t] = "fetch" /\ nid'[t] = n /\ before'[t] = backend[n]
      BY <1>2, <3>1
    <3>5. before'[t] <= backend'[nid'[t]]
      BY <3>1, <3>2, <3>4, VersionAssumption
    <3> QED
      BY <1>2, <3>1, <3>3, <3>4, <3>5 DEF KeepsWhole, Copying
  <2>3. CASE CopyData(t)
    <3>1. items[nid[t]] \in Buffer /\ Serves(items[nid[t]], t)
      BY <2>3, ItemCopied DEF CopyData, In, Copying
    <3>2. /\ at[t] = "copy data" /\ at' = [at EXCEPT ![t] = "copy size"]
          /\ data' = [data EXCEPT ![t] = items[nid[t]]]
          /\ raced' = [raced EXCEPT ![t] = FALSE]
          /\ UNCHANGED <<backend, nid, size, undefined, before>>
      BY <2>3 DEF CopyData, In, history
    <3>3. before[t] = 0
      BY <3>2 DEF InFlight, Copying
    <3> QED
      BY <1>2, <3>1, <3>2, <3>3 DEF KeepsWhole, Copying, Places, Serves, IsOf
  <2>4. CASE CopySize(t)
    <3>1. items[nid[t]] \in Buffer /\ Serves(items[nid[t]], t)
      BY <2>4, ItemCopied DEF CopySize, In, Copying
    <3>2. /\ at[t] = "copy size" /\ at' = [at EXCEPT ![t] = "idle"]
          /\ size' = [size EXCEPT ![t] = items[nid[t]]]
          /\ UNCHANGED <<backend, nid, raced, data, undefined, before>>
      BY <2>4 DEF CopySize, In, history
    <3>3. Serves(data[t], t)
      BY <3>2 DEF InFlight
    <3> QED
      BY <1>2, <3>1, <3>2, <3>3 DEF KeepsWhole, Copying, Places, Serves, IsOf
  <2>5. CASE CopyRaced(t) \/ CopyErased(t)
    <3>1. /\ Copying(t)
          /\ UNCHANGED <<backend, at, nid, raced, data, size, before>>
      BY <2>5 DEF CopyRaced, CopyErased, In, Copying, local, history
    <3>2. undefined' \in {"no", "erased", "raced"}
      BY <2>5 DEF CopyRaced, CopyErased
    <3>3. /\ before[t] = 0
          /\ at[t] = "copy size" => Serves(data[t], t)
      BY <3>1 DEF InFlight
    <3> QED
      BY <1>2, <3>1, <3>2, <3>3 DEF KeepsWhole, Copying, Serves, IsOf
  <2>6. CASE Fetch(t)
    <3> DEFINE b == Current(nid[t])
    <3>1. b \in Buffer /\ Serves(b, t)
      BY <2>6, FetchedGenuine DEF Fetch, In
    <3> HIDE DEF b
    <3>2. /\ data' = [data EXCEPT ![t] = b] /\ size' = [size EXCEPT ![t] = b]
          /\ at' = [at EXCEPT ![t] = "put"]
          /\ UNCHANGED <<backend, nid, raced, undefined, before>>
      BY <2>6 DEF Fetch, Fetched, history, b
    <3> QED
      BY <1>2, <3>1, <3>2 DEF KeepsWhole, Copying, Places, Serves, IsOf
  <2>7. CASE BeginCopy(t)
    <3>1. /\ at[t] = "found" /\ at' = [at EXCEPT ![t] = "copy data"]
          /\ UNCHANGED <<backend, nid, raced, data, size, undefined, before>>
      BY <2>7 DEF BeginCopy, In, history
    <3>2. before[t] = 0
      BY <3>1 DEF InFlight, Copying
    <3> QED
      BY <1>2, <3>1, <3>2 DEF KeepsWhole, Copying, Places
  <2> QED
    BY <2>2, <2>3, <2>4, <2>5, <2>6, <2>7 DEF LocalSteps
<1>5. Shared'
  BY <1>1, <1>4 DEF KeepsWhole, Shared, TypeOK, Remembers
<1>6. InFlight'
  <2> SUFFICES ASSUME NEW u \in Threads
               PROVE  /\ Copying(u)' /\ ~dangling'[u] => nid'[u] \in DOMAIN items'
                      /\ Copying(u)' => before'[u] = 0
                      /\ at'[u] = "fetch" => before'[u] <= backend'[nid'[u]]
                      /\ at'[u] = "copy size" => Serves(data[u], u)'
                      /\ at'[u] = "put" => \A b \in {data'[u], size'[u]} : Serves(b, u)'
                      /\ at'[u] = "idle" => \A b \in {data'[u], size'[u]} :
                                               b = NoBuffer \/ Serves(b, u)'
    BY <1>1 DEF InFlight, IsOf
  <2>1. CASE u = t
    <3>1. Copying(u)' /\ ~dangling'[u] => nid'[u] \in DOMAIN items'
      BY <1>1, <1>4, <2>1 DEF KeepsWhole, InFlight
    <3> QED
      BY <1>4, <2>1, <3>1 DEF KeepsWhole
  <2>2. CASE u # t
    <3>1. /\ at'[u] = at[u] /\ nid'[u] = nid[u] /\ before'[u] = before[u]
          /\ data'[u] = data[u] /\ size'[u] = size[u]
      BY <1>3, <2>2
    <3>2. \A b : Serves(b, u) => Serves(b, u)'
      BY <1>1, <3>1 DEF Serves, IsOf
    <3>3. /\ Copying(u)' /\ ~dangling'[u] => nid'[u] \in DOMAIN items'
          /\ Copying(u)' => before'[u] = 0
          /\ at'[u] = "fetch" => before'[u] <= backend'[nid'[u]]
      BY <1>1, <3>1 DEF InFlight, Copying
    <3>4. Serves(data[u], u) => Serves(data[u], u)'
      BY <1>1, <3>1 DEF Serves, IsOf
    <3> QED
      BY <3>1, <3>2, <3>3, <3>4 DEF InFlight
  <2> QED
    BY <2>1, <2>2
<1>7. Recency'
  <2>1. \A u \in Threads : Copying(u)' => Copying(u) /\ nid'[u] = nid[u]
    BY <1>3, <1>4 DEF KeepsWhole, Copying
  <2> QED
    BY <1>1, <2>1 DEF Recency
<1> QED
  BY <1>5, <1>6, <1>7

LEMMA BackendStep ==
    ASSUME Shared, InFlight, Recency, NEW n \in Nids, BackendChanges(n)
    PROVE  Shared' /\ InFlight' /\ Recency'
<1>1. /\ UNCHANGED <<items, pol, at, nid, dangling, raced, data, size, undefined,
                     since, before>>
      /\ backend \in [Nids -> 0 .. MaxVersion]
      /\ backend[n] < MaxVersion
      /\ backend' = [backend EXCEPT ![n] = backend[n] + 1]
  BY DEF BackendChanges, cache, local, history, Shared, TypeOK
<1>2. /\ backend' \in [Nids -> 0 .. MaxVersion]
      /\ \A m \in Nids : backend[m] <= backend'[m]
  BY <1>1, VersionAssumption
<1>3. Shared'
  BY <1>1, <1>2 DEF Shared, TypeOK, Remembers
<1>4. ASSUME NEW b, NEW m \in Nids, IsOf(b, m)
      PROVE  IsOf(b, m)'
  <2>1. b.version \in 0 .. MaxVersion
    BY <1>4 DEF IsOf, Buffer
  <2> QED
    BY <1>1, <1>2, <1>4, <2>1, VersionAssumption DEF IsOf
<1>5. InFlight'
  <2>1. DOMAIN items \subseteq Nids /\ nid \in [Threads -> Nids]
    BY DEF Shared, TypeOK
  <2>2. \A m \in DOMAIN items : IsOf(items[m], m)'
    BY <1>1, <1>4, <2>1 DEF InFlight
  <2>3. ASSUME NEW t \in Threads, NEW b, Serves(b, t)
        PROVE  Serves(b, t)'
    <3>1. nid[t] \in Nids /\ nid'[t] = nid[t] /\ before'[t] = before[t]
      BY <1>1, <2>1
    <3>2. IsOf(b, nid[t])'
      BY <1>4, <2>3, <3>1 DEF Serves
    <3> QED
      BY <2>3, <3>1, <3>2 DEF Serves
  <2>4. ASSUME NEW t \in Threads, at'[t] = "fetch"
        PROVE  before'[t] <= backend'[nid'[t]]
    <3>1. nid[t] \in Nids /\ before[t] \in 0 .. MaxVersion
      BY DEF Shared, TypeOK
    <3>2. before[t] <= backend[nid[t]] /\ backend[nid[t]] <= backend'[nid[t]]
      BY <1>1, <1>2, <2>4, <3>1 DEF InFlight
    <3>3. backend[nid[t]] \in Nat /\ backend'[nid[t]] \in Nat
      BY <1>1, <1>2, <3>1
    <3> QED
      BY <1>1, <3>1, <3>2, <3>3, VersionAssumption
  <2> QED
    BY <1>1, <2>2, <2>3, <2>4 DEF InFlight, Copying
<1>6. Recency'
  BY <1>1 DEF Recency, Copying
<1> QED
  BY <1>3, <1>5, <1>6

-----------------------------------------------------------------------------

LEMMA InitHolds == Init => Shared /\ InFlight /\ Recency
BY SharedInit, InFlightInit, RecencyInit

LEMMA StepHolds ==
    Shared /\ InFlight /\ Recency /\ [Next]_vars =>
        Shared' /\ InFlight' /\ Recency'
<1> SUFFICES ASSUME Shared, InFlight, Recency, [Next]_vars
             PROVE  Shared' /\ InFlight' /\ Recency'
  OBVIOUS
<1>1. CASE UNCHANGED vars
  BY <1>1 DEF vars, Shared, TypeOK, Remembers, InFlight, Serves, IsOf, Recency, Copying
<1>2. ASSUME NEW t \in Threads, NEW n \in Nids, Hit(t, n)
      PROVE  Shared' /\ InFlight' /\ Recency'
  BY <1>2, HitStep
<1>3. ASSUME NEW t \in Threads, PutUpdate(t) \/ PutNew(t) \/ PutEvicting(t)
      PROVE  Shared' /\ InFlight' /\ Recency'
  BY <1>3, PutFills, FillStep
<1>4. ASSUME NEW t \in Threads, LocalSteps(t)
      PROVE  Shared' /\ InFlight' /\ Recency'
  BY <1>4, LocalStep
<1>5. ASSUME NEW n \in Nids, BackendChanges(n)
      PROVE  Shared' /\ InFlight' /\ Recency'
  BY <1>5, BackendStep
<1> QED
  BY <1>1, <1>2, <1>3, <1>4, <1>5 DEF Next, Call, Run, LocalSteps

LEMMA AlwaysHolds == Spec => [](Shared /\ InFlight /\ Recency)
BY InitHolds, StepHolds, PTL DEF Spec

-----------------------------------------------------------------------------

\* Every variable keeps its type, the list of LRU included.
THEOREM StorageTypeCorrect == Spec => []TypeOK
<1>1. Shared => TypeOK
  BY DEF Shared
<1> QED
  BY <1>1, AlwaysHolds, PTL

\* The storage uses its cache within the contract under which LRU is right: the
\* policy and the map hold the same nodes whatever the threads do.
THEOREM StoragePolicyTracks == Spec => []PolicyTracksItems
<1>1. Shared => PolicyTracksItems
  BY DEF Shared, Remembers, PolicyTracksItems
<1> QED
  BY <1>1, AlwaysHolds, PTL

\* get() works with, and returns, a buffer of the node that was asked for, and a
\* call that missed it none that is older than the call.
THEOREM GetIsGenuine == Spec => []Genuine
<1>1. InFlight => Genuine
  BY DEF InFlight, Serves, IsOf, Genuine
<1> QED
  BY <1>1, AlwaysHolds, PTL

\* The read through an iterator to an erased element takes Capacity other nodes
\* that were used while one thread copied a buffer.
THEOREM DanglingIsRare == Spec => []DanglingNeedsManyOthers
<1>1. Recency => DanglingNeedsManyOthers
  BY DEF Recency, DanglingNeedsManyOthers
<1> QED
  BY <1>1, AlwaysHolds, PTL

\* A step changes an element of the cache only by the Put of a thread, to the
\* buffer that the thread fetched.
LEMMA OlderFromPut ==
    ASSUME Shared, InFlight, [Next]_vars,
           NEW n \in DOMAIN items, n \in DOMAIN items',
           items'[n].version < items[n].version
    PROVE  \E t \in Threads : at[t] = "put" /\ nid[t] = n /\ before[t] < items[n].version
<1>1. items[n].version \in Nat
  <2>1. items[n] \in Buffer
    BY DEF InFlight, IsOf
  <2>2. items[n].version \in 0 .. MaxVersion
    BY <2>1 DEF Buffer
  <2> QED
    BY <2>2, VersionAssumption
<1>2. items' # items
  BY <1>1
<1>3. PICK t \in Threads : PutUpdate(t) \/ PutNew(t) \/ PutEvicting(t)
  <2>1. ASSUME NEW t \in Threads, LocalSteps(t)
        PROVE  items' = items
    BY <2>1, LocalLeavesItems
  <2>2. ASSUME NEW t \in Threads, NEW m \in Nids, Hit(t, m)
        PROVE  items' = items
    BY <2>2 DEF Hit, Found
  <2>3. ASSUME NEW m \in Nids, BackendChanges(m)
        PROVE  items' = items
    BY <2>3 DEF BackendChanges, cache
  <2> QED
    BY <1>2, <2>1, <2>2, <2>3 DEF Next, Call, Run, LocalSteps, vars
<1>4. PICK kept : Fills(t, kept)
  BY <1>3, PutFills
<1>5. /\ at[t] = "put"
      /\ items'[n] = IF n = nid[t] THEN data[t] ELSE items[n]
  BY <1>4 DEF Fills, Filled
<1>6. nid[t] = n /\ items'[n] = data[t]
  BY <1>1, <1>5
<1>7. before[t] <= data[t].version /\ data[t] \in Buffer /\ before[t] \in 0 .. MaxVersion
  BY <1>5 DEF InFlight, Serves, IsOf, Shared, TypeOK
<1>8. before[t] < items[n].version
  BY <1>1, <1>6, <1>7, VersionAssumption DEF Buffer
<1> QED
  BY <1>5, <1>6, <1>8

\* An older buffer takes the place of a newer one in the cache only when the call
\* that puts it began before the newer version came to be.
THEOREM OlderNeedsOverlap == Spec => OlderOnlyByOverlap
<1>1. Shared /\ InFlight /\ [Next]_vars =>
         [\A n \in DOMAIN items \cap DOMAIN items' :
             items'[n].version < items[n].version =>
                 \E t \in Threads : /\ at[t] = "put" /\ nid[t] = n
                                    /\ before[t] < items[n].version]_vars
  BY OlderFromPut
<1> QED
  BY <1>1, AlwaysHolds, PTL DEF Spec, OlderOnlyByOverlap

-----------------------------------------------------------------------------
(* The threads together implement a bounded cache.                          *)

LEMMA SameCardinality == \A S : Bounded!Cardinality(S) = Cardinality(S)
BY DEF Bounded!Cardinality, Cardinality

LEMMA FillIsPut ==
    ASSUME Shared, InFlight, Shared', NEW t \in Threads, NEW kept, Fills(t, kept)
    PROVE  Bounded!Put(nid[t], data[t])
<1> DEFINE k == nid[t]
           v == data[t]
           lost == DOMAIN items \ kept
<1>1. /\ kept \subseteq DOMAIN items
      /\ items' = [j \in kept \cup {k} |-> IF j = k THEN v ELSE items[j]]
  BY DEF Fills, Filled
<1>2. Cardinality(DOMAIN items') <= Capacity
  BY DEF Shared
<1>3. \A m \in lost : /\ m = Head(pol.order)
                     /\ k \notin DOMAIN items
                     /\ Cardinality(DOMAIN items) = Capacity
  BY DEF Fills
<1> SUFFICES \E gone \in SUBSET (DOMAIN items \ {k}) :
                /\ gone # {} => /\ k \notin DOMAIN items
                                /\ Cardinality(DOMAIN items) = Capacity
                                /\ \E victim \in DOMAIN items : gone = {victim}
                /\ items' = [j \in (DOMAIN items \ gone) \cup {k} |->
                                IF j = k THEN v ELSE items[j]]
                /\ Cardinality(DOMAIN items') <= Capacity
  BY SameCardinality DEF Bounded!Put
<1>4. CASE lost = {}
  <2>1. {} \in SUBSET (DOMAIN items \ {k})
    OBVIOUS
  <2>2. (DOMAIN items \ {}) \cup {k} = kept \cup {k}
    BY <1>1, <1>4
  <2> HIDE DEF k, v, lost
  <2> WITNESS {} \in SUBSET (DOMAIN items \ {k})
  <2> QED
    BY <1>1, <1>2, <2>2
<1>5. CASE lost # {}
  <2> DEFINE victim == Head(pol.order)
  <2>1. /\ lost = {victim} /\ victim \in DOMAIN items
        /\ k \notin DOMAIN items
        /\ Cardinality(DOMAIN items) = Capacity
    BY <1>3, <1>5
  <2>2. {victim} \in SUBSET (DOMAIN items \ {k})
    BY <2>1
  <2>3. (DOMAIN items \ {victim}) \cup {k} = kept \cup {k}
    BY <1>1, <2>1
  <2> HIDE DEF k, v, lost, victim
  <2> WITNESS {victim} \in SUBSET (DOMAIN items \ {k})
  <2> QED
    BY <1>1, <1>2, <2>1, <2>3
<1> QED
  BY <1>4, <1>5

\* Interleaved as they may be, the calls of the threads leave the cache a bounded
\* cache: each changes it by one put of the node that it fetched.
THEOREM StorageIsBounded == Spec => IsBoundedCache
<1>1. Init => Bounded!Init
  BY DEF Init, Bounded!Init
<1>2. Shared /\ InFlight /\ Recency /\ Shared' /\ [Next]_vars => [Bounded!Next]_items
  <2> SUFFICES ASSUME Shared, InFlight, Recency, Shared', [Next]_vars
               PROVE  [Bounded!Next]_items
    OBVIOUS
  <2>1. ASSUME NEW t \in Threads, PutUpdate(t) \/ PutNew(t) \/ PutEvicting(t)
        PROVE  Bounded!Next
    <3>1. PICK kept : Fills(t, kept)
      BY <2>1, PutFills
    <3>2. Bounded!Put(nid[t], data[t])
      BY <3>1, FillIsPut
    <3>3. nid[t] \in Nids /\ data[t] \in Buffer
      BY <3>1 DEF Fills, Shared, TypeOK, InFlight, Serves, IsOf
    <3> QED
      BY <3>2, <3>3 DEF Bounded!Next
  <2>2. ASSUME NEW t \in Threads, NEW n \in Nids, Hit(t, n)
        PROVE  UNCHANGED items
    BY <2>2 DEF Hit, Found
  <2>3. ASSUME NEW t \in Threads, LocalSteps(t)
        PROVE  UNCHANGED items
    BY <2>3, LocalLeavesItems
  <2>4. ASSUME NEW n \in Nids, BackendChanges(n)
        PROVE  UNCHANGED items
    BY <2>4 DEF BackendChanges, cache
  <2>5. CASE UNCHANGED vars
    BY <2>5 DEF vars
  <2> QED
    BY <2>1, <2>2, <2>3, <2>4, <2>5 DEF Next, Call, Run, LocalSteps
<1>3. Shared /\ InFlight /\ Recency => Shared
  OBVIOUS
<1> QED
  BY <1>1, <1>2, <1>3, AlwaysHolds, PTL DEF Spec, IsBoundedCache, Bounded!Spec

=============================================================================
