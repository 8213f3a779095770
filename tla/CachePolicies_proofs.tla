------------------------ MODULE CachePolicies_proofs ------------------------
(***************************************************************************)
(* Lemmas about the replacement policies: what Insert, Touch and Erase do  *)
(* to the set of keys that a policy remembers, whichever policy it is, and *)
(* to the order in which LFU lists them.                                   *)
(***************************************************************************)
EXTENDS CachePolicies, SequenceLemmas

PolicyRecords(K) == [order : Seq(K), freq : [K -> Nat], finder : SUBSET K]

\* What holds of a policy in any sequence of calls, calls of Erase that give it
\* a key other than its candidate included.
FinderSound(policy, pol) == policy = Lru => pol.finder \subseteq Range(pol.order)

\* A policy that remembers the keys of K, each of them once.
Remembers(policy, pol, K) ==
    /\ Range(pol.order) = K
    /\ IsInjective(pol.order)
    /\ policy = Lru => pol.finder = K

\* Before the first call no key is remembered.
LEMMA NoKeysRemembered ==
    ASSUME NEW K, NEW policy \in PolicyNames
    PROVE  /\ NoKeys(K) \in PolicyRecords(K)
           /\ Remembers(policy, NoKeys(K), {})
           /\ Len(NoKeys(K).order) = 0
           /\ FinderSound(policy, NoKeys(K))
<1>1. /\ NoKeys(K).order = <<>>
      /\ NoKeys(K).freq \in [K -> Nat]
      /\ NoKeys(K).finder = {}
      /\ NoKeys(K) = [order |-> <<>>, freq |-> NoKeys(K).freq, finder |-> {}]
  BY DEF NoKeys
<1>2. <<>> \in Seq(K) /\ Len(<<>>) = 0 /\ Range(<<>>) = {} /\ IsInjective(<<>>)
  BY DEF Range, IsInjective
<1> QED
  BY <1>1, <1>2 DEF PolicyRecords, Remembers, FinderSound

-----------------------------------------------------------------------------

\* Without drops one occurrence of a key that is there.
LEMMA WithoutDropsOne ==
    ASSUME NEW K, NEW q \in Seq(K), NEW k \in Range(q)
    PROVE  /\ Without(q, k) \in Seq(K)
           /\ Len(Without(q, k)) = Len(q) - 1
           /\ Range(Without(q, k)) \subseteq Range(q)
           /\ Range(q) \ {k} \subseteq Range(Without(q, k))
           /\ IsInjective(q) => /\ IsInjective(Without(q, k))
                                /\ k \notin Range(Without(q, k))
<1> DEFINE i == Position(q, k)
<1>1. \E j \in DOMAIN q : q[j] = k /\ \A l \in DOMAIN q : q[l] = k => l <= j
  BY LastOccurrence
<1>2. i \in DOMAIN q /\ q[i] = k
  BY <1>1 DEF Position
<1>3. Without(q, k) = RemoveAt(q, i)
  BY DEF Without
<1> HIDE DEF i
<1>4. i \in 1 .. Len(q)
  BY <1>2, LenProperties
<1>5. RemoveAt(q, i) \in Seq(K) /\ Len(RemoveAt(q, i)) = Len(q) - 1
  BY <1>4, RemoveAtPositions
<1>6. /\ Range(RemoveAt(q, i)) \subseteq Range(q)
      /\ Range(q) \ {k} \subseteq Range(RemoveAt(q, i))
      /\ IsInjective(q) => /\ IsInjective(RemoveAt(q, i))
                           /\ k \notin Range(RemoveAt(q, i))
  BY <1>2, <1>4, RemoveAtElements
<1> QED
  BY <1>3, <1>5, <1>6

\* The position that LfuTouch gives to a key is one of the longer list.
LEMMA LfuPlaceInRange ==
    ASSUME NEW K, NEW q \in Seq(K), NEW P \in SUBSET DOMAIN q
    PROVE  1 + Cardinality(P) \in 1 .. Len(q) + 1
<1>1. Len(q) \in Nat /\ DOMAIN q = 1 .. Len(q)
  BY LenProperties
<1>2. \A n \in Nat : IsFiniteSet(1 .. n) /\ Cardinality(1 .. n) = n
  BY FS_Interval
<1>3. IsFiniteSet(P) /\ Cardinality(P) <= Len(q)
  BY <1>1, <1>2, FS_Subset
<1>4. Cardinality(P) \in Nat
  BY <1>3, FS_CardinalityType
<1> QED
  BY <1>1, <1>3, <1>4

-----------------------------------------------------------------------------

\* The front is the first position.
LEMMA InFront ==
    ASSUME NEW K, NEW q \in Seq(K), NEW k \in K
    PROVE  <<k>> \o q = InsertAt(q, 1, k) /\ 1 \in 1 .. Len(q) + 1
<1>1. 1 \in 1 .. Len(q) + 1
  BY LenProperties
<1>2. SubSeq(q, 1, 1 - 1) = <<>>
  <2>1. 1 - 1 \in Int /\ 1 - 1 < 1
    OBVIOUS
  <2> QED
    BY <2>1, SubSeqEmpty
<1>3. SubSeq(q, 1, Len(q)) = q
  BY SubSeqFull
<1>4. <<>> \o <<k>> = <<k>>
  BY ConcatEmptySeq
<1> QED
  BY <1>1, <1>2, <1>3, <1>4 DEF InsertAt

\* A new key in front of the others.
LEMMA InFrontAddsKey ==
    ASSUME NEW K, NEW q \in Seq(K), NEW k \in K
    PROVE  /\ <<k>> \o q \in Seq(K)
           /\ Len(<<k>> \o q) = Len(q) + 1
           /\ Range(<<k>> \o q) = Range(q) \cup {k}
           /\ IsInjective(q) /\ k \notin Range(q) => IsInjective(<<k>> \o q)
<1>1. <<k>> \o q = InsertAt(q, 1, k) /\ 1 \in 1 .. Len(q) + 1
  BY InFront
<1>2. InsertAt(q, 1, k) \in Seq(K) /\ Len(InsertAt(q, 1, k)) = Len(q) + 1
  BY <1>1, InsertAtPositions
<1>3. /\ Range(InsertAt(q, 1, k)) = Range(q) \cup {k}
      /\ IsInjective(q) /\ k \notin Range(q) => IsInjective(InsertAt(q, 1, k))
  BY <1>1, InsertAtElements
<1> QED
  BY <1>1, <1>2, <1>3

\* Which function of the record a cache calls.
LEMMA Virtual ==
    ASSUME NEW policy, NEW pol, NEW k
    PROVE  /\ policy = Lru => /\ Insert(policy, pol, k) = LruInsert(pol, k)
                              /\ Touch(policy, pol, k) = LruTouch(pol, k)
                              /\ Erase(policy, pol, k) = LruErase(pol, k)
           /\ policy = Lfu => /\ Insert(policy, pol, k) = LfuInsert(pol, k)
                              /\ Touch(policy, pol, k) = LfuTouch(pol, k)
                              /\ Erase(policy, pol, k) = LfuErase(pol, k)
           /\ policy = Fifo => /\ Insert(policy, pol, k) = FifoInsert(pol, k)
                               /\ Touch(policy, pol, k) = pol
                               /\ Erase(policy, pol, k) = FifoErase(pol, k)
           /\ policy = None => /\ Insert(policy, pol, k) = NoneInsert(pol, k)
                               /\ Touch(policy, pol, k) = pol
                               /\ Erase(policy, pol, k) = NoneErase(pol, k)
BY DEF Insert, Touch, Erase, Lru, Lfu, Fifo, None

\* Insert adds a key.
LEMMA InsertAddsKey ==
    ASSUME NEW K, NEW policy \in PolicyNames, NEW pol \in PolicyRecords(K),
           NEW k \in K
    PROVE  LET new == Insert(policy, pol, k)
           IN  /\ new \in PolicyRecords(K)
               /\ Len(new.order) = Len(pol.order) + 1
               /\ FinderSound(policy, pol) => FinderSound(policy, new)
               /\ \A D : Remembers(policy, pol, D) /\ k \notin D =>
                            Remembers(policy, new, D \cup {k})
<1> DEFINE new == Insert(policy, pol, k)
<1>1. /\ pol.order \in Seq(K) /\ pol.freq \in [K -> Nat] /\ pol.finder \subseteq K
      /\ pol = [order |-> pol.order, freq |-> pol.freq, finder |-> pol.finder]
  BY DEF PolicyRecords
<1>2. /\ Append(pol.order, k) \in Seq(K)
      /\ Len(Append(pol.order, k)) = Len(pol.order) + 1
      /\ Range(Append(pol.order, k)) = Range(pol.order) \cup {k}
      /\ IsInjective(pol.order) /\ k \notin Range(pol.order) =>
            IsInjective(Append(pol.order, k))
  BY <1>1, AppendProperties, AppendElements
<1>4. /\ <<k>> \o pol.order \in Seq(K)
      /\ Len(<<k>> \o pol.order) = Len(pol.order) + 1
      /\ Range(<<k>> \o pol.order) = Range(pol.order) \cup {k}
      /\ IsInjective(pol.order) /\ k \notin Range(pol.order) =>
            IsInjective(<<k>> \o pol.order)
  BY <1>1, InFrontAddsKey
<1>5. /\ new \in PolicyRecords(K)
      /\ new.order \in {Append(pol.order, k), <<k>> \o pol.order}
      /\ policy = Lru => new.finder = pol.finder \cup {k}
  <2>1. Append(pol.order, k) \in Seq(K) /\ <<k>> \o pol.order \in Seq(K)
    BY <1>2, <1>4
  <2>2. CASE policy = Lru
    <3>1. new = LruInsert(pol, k)
      BY <2>2, Virtual
    <3>2. pol.finder \cup {k} \in SUBSET K
      BY <1>1
    <3> HIDE DEF new
    <3> DEFINE q == Append(pol.order, k)
               F == pol.finder \cup {k}
    <3>3. new = [pol EXCEPT !.order = q, !.finder = F]
      BY <3>1 DEF LruInsert
    <3>4. q \in Seq(K) /\ F \in SUBSET K
      BY <2>1, <3>2
    <3> HIDE DEF q, F
    <3>5. new \in PolicyRecords(K) /\ new.order = q /\ new.finder = F
      BY <3>3, <3>4 DEF PolicyRecords
    <3> QED
      BY <3>5 DEF q, F
  <2>3. CASE policy = Lfu
    <3>1. new = LfuInsert(pol, k)
      BY <2>3, Virtual
    <3> HIDE DEF new
    <3> DEFINE q == <<k>> \o pol.order
    <3>2. q \in Seq(K) /\ new = [pol EXCEPT !.order = q, !.freq[k] = 1]
      BY <2>1, <3>1 DEF LfuInsert
    <3> HIDE DEF q
    <3>3. new \in PolicyRecords(K) /\ new.order = q
      BY <3>2 DEF PolicyRecords
    <3> QED
      BY <2>3, <3>3 DEF q, Lru, Lfu
  <2>4. CASE policy \in {Fifo, None}
    <3>1. new = FifoInsert(pol, k) \/ new = NoneInsert(pol, k)
      BY <2>4, Virtual
    <3> HIDE DEF new
    <3> DEFINE q == Append(pol.order, k)
    <3>2. q \in Seq(K) /\ new = [pol EXCEPT !.order = q]
      BY <2>1, <3>1 DEF FifoInsert, NoneInsert
    <3> HIDE DEF q
    <3>3. new \in PolicyRecords(K) /\ new.order = q
      BY <3>2 DEF PolicyRecords
    <3> QED
      BY <2>4, <3>3 DEF q, Lru, Fifo, None
  <2> QED
    BY <2>2, <2>3, <2>4 DEF PolicyNames
<1> HIDE DEF new
<1>8. /\ Len(new.order) = Len(pol.order) + 1
      /\ Range(new.order) = Range(pol.order) \cup {k}
      /\ IsInjective(pol.order) /\ k \notin Range(pol.order) =>
            IsInjective(new.order)
  BY <1>2, <1>4, <1>5 DEF new
<1>9. FinderSound(policy, pol) => FinderSound(policy, new)
  BY <1>5, <1>8 DEF FinderSound, new
<1>10. \A D : Remembers(policy, pol, D) /\ k \notin D =>
                 Remembers(policy, new, D \cup {k})
  BY <1>5, <1>8 DEF Remembers, new
<1> QED
  BY <1>5, <1>8, <1>9, <1>10 DEF new

\* Touch moves a key that the policy remembers.
LEMMA TouchKeepsKeys ==
    ASSUME NEW K, NEW policy \in PolicyNames, NEW pol \in PolicyRecords(K),
           NEW k \in K, policy \in {Lru, Lfu} => k \in Range(pol.order)
    PROVE  LET new == Touch(policy, pol, k)
           IN  /\ new \in PolicyRecords(K)
               /\ Len(new.order) = Len(pol.order)
               /\ FinderSound(policy, pol) => FinderSound(policy, new)
               /\ \A D : Remembers(policy, pol, D) => Remembers(policy, new, D)
<1> DEFINE new == Touch(policy, pol, k)
           rest == Without(pol.order, k)
           moved == Append(rest, k)
           P == {i \in DOMAIN rest : pol.freq[rest[i]] <= pol.freq[k] + 1}
           raised == InsertAt(rest, 1 + Cardinality(P), k)
<1>1. /\ pol.order \in Seq(K) /\ pol.freq \in [K -> Nat] /\ pol.finder \subseteq K
      /\ pol = [order |-> pol.order, freq |-> pol.freq, finder |-> pol.finder]
  BY DEF PolicyRecords
<1>2. CASE policy \in {Lru, Lfu}
  <2>1. k \in Range(pol.order)
    BY <1>2
  <2>2. /\ rest \in Seq(K)
        /\ Len(rest) = Len(pol.order) - 1
        /\ Range(rest) \subseteq Range(pol.order)
        /\ Range(pol.order) \ {k} \subseteq Range(rest)
        /\ IsInjective(pol.order) => IsInjective(rest) /\ k \notin Range(rest)
    BY <1>1, <2>1, WithoutDropsOne
  <2> HIDE DEF rest
  <2>3. Range(rest) \cup {k} = Range(pol.order)
    BY <2>1, <2>2
  <2>4. Len(rest) + 1 = Len(pol.order)
    BY <1>1, <2>2, LenProperties
  <2>5. /\ moved \in Seq(K)
        /\ Len(moved) = Len(pol.order)
        /\ Range(moved) = Range(pol.order)
        /\ IsInjective(pol.order) => IsInjective(moved)
    <3>1. /\ moved \in Seq(K)
          /\ Len(moved) = Len(rest) + 1
          /\ Range(moved) = Range(rest) \cup {k}
          /\ IsInjective(rest) /\ k \notin Range(rest) => IsInjective(moved)
      BY <2>2, AppendProperties, AppendElements
    <3> HIDE DEF moved
    <3> QED
      BY <2>2, <2>3, <2>4, <3>1
  <2>6. 1 + Cardinality(P) \in 1 .. Len(rest) + 1
    <3>1. P \in SUBSET DOMAIN rest
      OBVIOUS
    <3> HIDE DEF P
    <3> QED
      BY <2>2, <3>1, LfuPlaceInRange
  <2>7. /\ raised \in Seq(K)
        /\ Len(raised) = Len(pol.order)
        /\ Range(raised) = Range(pol.order)
        /\ IsInjective(pol.order) => IsInjective(raised)
    <3> DEFINE at == 1 + Cardinality(P)
    <3> HIDE DEF P
    <3>1. at \in 1 .. Len(rest) + 1
      BY <2>6
    <3> HIDE DEF at
    <3>2. /\ InsertAt(rest, at, k) \in Seq(K)
          /\ Len(InsertAt(rest, at, k)) = Len(rest) + 1
          /\ Range(InsertAt(rest, at, k)) = Range(rest) \cup {k}
          /\ IsInjective(rest) /\ k \notin Range(rest) =>
                IsInjective(InsertAt(rest, at, k))
      BY <2>2, <3>1, InsertAtPositions, InsertAtElements
    <3>3. raised = InsertAt(rest, at, k)
      BY DEF at
    <3> HIDE DEF raised
    <3> QED
      BY <2>2, <2>3, <2>4, <3>2, <3>3
  <2>8. CASE policy = Lru
    <3>1. new = [pol EXCEPT !.order = moved]
      BY <2>8, Virtual DEF LruTouch, rest
    <3> HIDE DEF new, moved
    <3>2. /\ new \in PolicyRecords(K)
          /\ new.order = moved
          /\ new.finder = pol.finder
      BY <2>5, <3>1 DEF PolicyRecords
    <3> QED
      BY <2>5, <3>2 DEF FinderSound, Remembers, new
  <2>9. CASE policy = Lfu
    <3>1. new = LfuTouch(pol, k)
      BY <2>9, Virtual
    <3>2. LfuTouch(pol, k) =
             [pol EXCEPT !.order = raised, !.freq[k] = pol.freq[k] + 1]
      BY DEF LfuTouch, rest
    <3>3. pol.freq[k] + 1 \in Nat
      BY <1>1
    <3> HIDE DEF new, raised
    <3>4. new = [pol EXCEPT !.order = raised, !.freq[k] = pol.freq[k] + 1]
      BY <3>1, <3>2
    <3> DEFINE n == pol.freq[k] + 1
    <3> HIDE DEF n
    <3>5. n \in Nat /\ new = [pol EXCEPT !.order = raised, !.freq[k] = n]
      BY <3>3, <3>4 DEF n
    <3>6. new \in PolicyRecords(K) /\ new.order = raised
      BY <2>7, <3>5 DEF PolicyRecords
    <3> QED
      BY <2>7, <2>9, <3>6 DEF FinderSound, Remembers, new, Lru, Lfu
  <2> QED
    BY <1>2, <2>8, <2>9
<1>3. CASE policy \in {Fifo, None}
  <2>1. new = pol
    BY <1>3, Virtual
  <2> QED
    BY <2>1
<1> QED
  BY <1>2, <1>3 DEF PolicyNames

\* Erase drops one key: the one it is given, where the policy honours it.
LEMMA EraseDropsOne ==
    ASSUME NEW K, NEW policy \in PolicyNames, NEW pol \in PolicyRecords(K),
           NEW k \in K, Len(pol.order) > 0,
           policy \in ErasesByKey => k \in Range(pol.order)
    PROVE  LET new == Erase(policy, pol, k)
           IN  /\ new \in PolicyRecords(K)
               /\ Len(new.order) = Len(pol.order) - 1
               /\ FinderSound(policy, pol) => FinderSound(policy, new)
               /\ \A D : /\ Remembers(policy, pol, D)
                         /\ policy \in ErasesByKey \/ k = Head(pol.order)
                         => Remembers(policy, new, D \ {k})
<1> DEFINE new == Erase(policy, pol, k)
<1>1. /\ pol.order \in Seq(K) /\ pol.freq \in [K -> Nat] /\ pol.finder \subseteq K
      /\ pol = [order |-> pol.order, freq |-> pol.freq, finder |-> pol.finder]
  BY DEF PolicyRecords
<1>2. /\ Head(pol.order) \in Range(pol.order)
      /\ Tail(pol.order) \in Seq(K)
      /\ Len(Tail(pol.order)) = Len(pol.order) - 1
      /\ Range(Tail(pol.order)) \subseteq Range(pol.order)
      /\ Range(pol.order) \ {Head(pol.order)} \subseteq Range(Tail(pol.order))
      /\ IsInjective(pol.order) => /\ IsInjective(Tail(pol.order))
                                   /\ Head(pol.order) \notin Range(Tail(pol.order))
  BY <1>1, TailElements
<1>3. CASE policy \in ErasesByKey
  <2> DEFINE rest == Without(pol.order, k)
  <2>1. /\ rest \in Seq(K)
        /\ Len(rest) = Len(pol.order) - 1
        /\ Range(rest) \subseteq Range(pol.order)
        /\ Range(pol.order) \ {k} \subseteq Range(rest)
        /\ IsInjective(pol.order) => IsInjective(rest) /\ k \notin Range(rest)
    BY <1>1, <1>3, WithoutDropsOne
  <2>2. policy # Lru
    BY <1>3 DEF ErasesByKey, Lru, Lfu, None
  <2>3. new = LfuErase(pol, k) \/ new = NoneErase(pol, k)
    BY <1>3, Virtual DEF ErasesByKey
  <2> HIDE DEF rest, new
  <2>4. \/ new = [pol EXCEPT !.order = rest, !.freq[k] = 0]
        \/ new = [pol EXCEPT !.order = rest]
    BY <2>3 DEF LfuErase, NoneErase, rest
  <2>6. new \in PolicyRecords(K) /\ new.order = rest
    <3>1. CASE new = [pol EXCEPT !.order = rest]
      BY <2>1, <3>1 DEF PolicyRecords
    <3>2. CASE new = [pol EXCEPT !.order = rest, !.freq[k] = 0]
      BY <2>1, <3>2 DEF PolicyRecords
    <3> QED
      BY <2>4, <3>1, <3>2
  <2>5. \A D : Remembers(policy, pol, D) => Remembers(policy, new, D \ {k})
    BY <2>1, <2>2, <2>6 DEF Remembers
  <2> QED
    BY <2>1, <2>2, <2>5, <2>6 DEF FinderSound, new
<1>4. CASE policy \in {Lru, Fifo}
  <2> DEFINE t == Tail(pol.order)
             h == Head(pol.order)
  <2>1. /\ new \in PolicyRecords(K)
        /\ new.order = t
        /\ policy = Lru => new.finder = pol.finder \ {h}
    <3>1. \/ policy = Lru /\ new = LruErase(pol, k)
          \/ policy = Fifo /\ new = FifoErase(pol, k)
      BY <1>4, Virtual
    <3> HIDE DEF new
    <3>2. \/ policy = Lru /\ new = [pol EXCEPT !.order = t, !.finder = pol.finder \ {h}]
          \/ policy = Fifo /\ new = [pol EXCEPT !.order = t]
      BY <3>1 DEF LruErase, FifoErase
    <3>3. t \in Seq(K) /\ pol.finder \ {h} \in SUBSET K
      BY <1>1, <1>2
    <3> HIDE DEF t, h
    <3>4. CASE policy = Lru /\ new = [pol EXCEPT !.order = t, !.finder = pol.finder \ {h}]
      <4> DEFINE F == pol.finder \ {h}
      <4>1. F \in SUBSET K /\ new = [pol EXCEPT !.order = t, !.finder = F]
        BY <3>3, <3>4
      <4> HIDE DEF F
      <4>2. new \in PolicyRecords(K) /\ new.order = t /\ new.finder = F
        BY <3>3, <4>1 DEF PolicyRecords
      <4> QED
        BY <4>2 DEF F
    <3>5. CASE policy = Fifo /\ new = [pol EXCEPT !.order = t]
      <4>1. new \in PolicyRecords(K) /\ new.order = t
        BY <3>3, <3>5 DEF PolicyRecords
      <4> QED
        BY <3>5, <4>1 DEF Lru, Fifo
    <3> QED
      BY <3>2, <3>4, <3>5
  <2>4. policy \notin ErasesByKey
    BY <1>4 DEF ErasesByKey, Lru, Lfu, Fifo, None
  <2> HIDE DEF new, t, h
  <2>5. /\ Len(t) = Len(pol.order) - 1
        /\ Range(t) \subseteq Range(pol.order)
        /\ Range(pol.order) \ {h} \subseteq Range(t)
        /\ IsInjective(pol.order) => IsInjective(t) /\ h \notin Range(t)
    BY <1>2 DEF t, h
  <2>6. FinderSound(policy, pol) => FinderSound(policy, new)
    BY <2>1, <2>5 DEF FinderSound
  <2>7. ASSUME NEW D, Remembers(policy, pol, D), k = h
        PROVE  Remembers(policy, new, D \ {k})
    BY <2>1, <2>5, <2>7 DEF Remembers
  <2> QED
    BY <2>1, <2>4, <2>5, <2>6, <2>7 DEF new, h
<1> QED
  BY <1>3, <1>4 DEF PolicyNames, ErasesByKey

-----------------------------------------------------------------------------
(* LFU lists its keys in the order of their counts.                         *)

LEMMA LfuRecord ==
    ASSUME NEW K, NEW pol \in PolicyRecords(K), NEW q, NEW k \in K, NEW n
    PROVE  LET new == [pol EXCEPT !.order = q, !.freq[k] = n]
           IN  /\ new.order = q
               /\ new.freq[k] = n
               /\ \A x \in K \ {k} : new.freq[x] = pol.freq[x]
BY DEF PolicyRecords

\* Without keeps the order.
LEMMA WithoutSorted ==
    ASSUME NEW K, NEW q \in Seq(K), NEW k \in Range(q), NEW f, SortedBy(q, f)
    PROVE  SortedBy(Without(q, k), f)
<1> DEFINE i == Position(q, k)
<1>1. \E j \in DOMAIN q : q[j] = k /\ \A l \in DOMAIN q : q[l] = k => l <= j
  BY LastOccurrence
<1>2. i \in DOMAIN q
  BY <1>1 DEF Position
<1>3. Without(q, k) = RemoveAt(q, i)
  BY DEF Without
<1> HIDE DEF i
<1>4. i \in 1 .. Len(q)
  BY <1>2, LenProperties
<1> QED
  BY <1>3, <1>4, RemoveAtSorted

\* The order depends on the counts of the keys that are listed.
LEMMA SameSorted ==
    ASSUME NEW q, NEW f, NEW g, SortedBy(q, f), \A x \in Range(q) : g[x] = f[x]
    PROVE  SortedBy(q, g)
BY DEF SortedBy, Range

\* No key was counted less often than a new one.
LEMMA LfuInsertSorted ==
    ASSUME NEW K, NEW pol \in PolicyRecords(K), NEW k \in K,
           k \notin Range(pol.order), SortedBy(pol.order, pol.freq),
           \A x \in Range(pol.order) : 1 <= pol.freq[x]
    PROVE  LET new == LfuInsert(pol, k)
           IN  /\ SortedBy(new.order, new.freq)
               /\ new.freq[k] = 1
               /\ \A x \in K \ {k} : new.freq[x] = pol.freq[x]
<1> DEFINE new == LfuInsert(pol, k)
           q == pol.order
<1>1. q \in Seq(K) /\ Range(q) \subseteq K \ {k} /\ DOMAIN q = 1 .. Len(q)
  BY LenProperties DEF PolicyRecords, Range
<1>2. new.order = <<k>> \o q /\ new.freq[k] = 1
      /\ \A x \in K \ {k} : new.freq[x] = pol.freq[x]
  <2> DEFINE front == <<k>> \o q
  <2>1. new = [pol EXCEPT !.order = front, !.freq[k] = 1]
    BY DEF LfuInsert
  <2> HIDE DEF front, new
  <2>2. /\ new.order = front /\ new.freq[k] = 1
        /\ \A x \in K \ {k} : new.freq[x] = pol.freq[x]
    BY <2>1, LfuRecord
  <2> QED
    BY <2>2 DEF front
<1>3. new.order = InsertAt(q, 1, k) /\ 1 \in 1 .. Len(q) + 1
  BY <1>1, <1>2, InFront
<1> HIDE DEF new
<1> DEFINE f == pol.freq
           g == new.freq
<1>4. \A x \in Range(q) : g[x] = f[x]
  BY <1>1, <1>2
<1>5. \A j \in DOMAIN q : ~(j < 1) /\ g[k] <= f[q[j]]
  BY <1>1, <1>2 DEF Range
<1>6. g[k] \in Int /\ SortedBy(q, f)
  BY <1>2
<1> HIDE DEF f, g, q
<1>7. SortedBy(InsertAt(q, 1, k), g)
  BY <1>1, <1>3, <1>4, <1>5, <1>6, InsertAtSorted
<1> QED
  BY <1>2, <1>3, <1>7 DEF g, new

\* A key that is counted once more goes behind those that are counted as often.
LEMMA LfuTouchSorted ==
    ASSUME NEW K, NEW pol \in PolicyRecords(K), NEW k \in Range(pol.order),
           IsInjective(pol.order), SortedBy(pol.order, pol.freq)
    PROVE  LET new == LfuTouch(pol, k)
           IN  /\ SortedBy(new.order, new.freq)
               /\ new.freq[k] = pol.freq[k] + 1
               /\ \A x \in K \ {k} : new.freq[x] = pol.freq[x]
<1> DEFINE new == LfuTouch(pol, k)
           rest == Without(pol.order, k)
           f == pol.freq
           n == f[k] + 1
           at == 1 + Cardinality({i \in DOMAIN rest : f[rest[i]] <= n})
<1>1. /\ pol.order \in Seq(K) /\ f \in [K -> Nat] /\ k \in K
      /\ Range(pol.order) \subseteq K
  BY LenProperties DEF PolicyRecords, Range
<1>2. /\ rest \in Seq(K) /\ Range(rest) \subseteq K \ {k}
  BY <1>1, WithoutDropsOne
<1>3. SortedBy(rest, f)
  BY <1>1, WithoutSorted
<1>4. n \in Int /\ \A x \in Range(rest) : f[x] \in Int
  BY <1>1, <1>2
<1>5. new = [pol EXCEPT !.order = InsertAt(rest, at, k), !.freq[k] = n]
  BY DEF LfuTouch
<1> HIDE DEF rest, n, new
<1>6. at \in 1 .. Len(rest) + 1 /\ \A j \in DOMAIN rest : j < at <=> f[rest[j]] <= n
  BY <1>2, <1>3, <1>4, SortedPlace
<1> HIDE DEF at
<1>7. /\ new.order = InsertAt(rest, at, k) /\ new.freq[k] = n
      /\ \A x \in K \ {k} : new.freq[x] = f[x]
  BY <1>1, <1>5, LfuRecord
<1> DEFINE g == new.freq
<1>8. \A x \in Range(rest) : g[x] = f[x]
  BY <1>2, <1>7
<1>9. \A j \in DOMAIN rest : rest[j] \in Range(rest)
  BY DEF Range
<1>10. /\ \A j \in DOMAIN rest : j < at => f[rest[j]] <= g[k]
       /\ \A j \in DOMAIN rest : j >= at => g[k] <= f[rest[j]]
       /\ g[k] \in Int
  <2>1. at \in Int /\ DOMAIN rest \subseteq Int
    BY <1>2, <1>6, LenProperties
  <2> HIDE DEF f
  <2> QED
    BY <1>4, <1>6, <1>7, <1>9, <2>1
<1> HIDE DEF f, g
<1>11. SortedBy(InsertAt(rest, at, k), g)
  BY <1>1, <1>2, <1>3, <1>6, <1>8, <1>10, InsertAtSorted
<1> QED
  BY <1>7, <1>11 DEF g, f, n, new

LEMMA LfuEraseSorted ==
    ASSUME NEW K, NEW pol \in PolicyRecords(K), NEW k \in Range(pol.order),
           IsInjective(pol.order), SortedBy(pol.order, pol.freq)
    PROVE  LET new == LfuErase(pol, k)
           IN  /\ SortedBy(new.order, new.freq)
               /\ \A x \in K \ {k} : new.freq[x] = pol.freq[x]
<1> DEFINE new == LfuErase(pol, k)
           rest == Without(pol.order, k)
<1>1. pol.order \in Seq(K) /\ k \in K
  BY LenProperties DEF PolicyRecords, Range
<1>2. rest \in Seq(K) /\ k \notin Range(rest)
  BY <1>1, WithoutDropsOne
<1>3. SortedBy(rest, pol.freq)
  BY <1>1, WithoutSorted
<1>4. new.order = rest /\ \A x \in K \ {k} : new.freq[x] = pol.freq[x]
  BY <1>1, LfuRecord DEF LfuErase
<1> HIDE DEF rest, new
<1>5. Range(rest) \subseteq K \ {k}
  BY <1>2, LenProperties DEF Range
<1>6. SortedBy(rest, new.freq)
  BY <1>3, <1>4, <1>5, SameSorted
<1> QED
  BY <1>4, <1>6 DEF new

=============================================================================
