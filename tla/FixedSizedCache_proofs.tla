----------------------- MODULE FixedSizedCache_proofs -----------------------
(***************************************************************************)
(* The map and the policy of a cache agree, and the map stays within its   *)
(* capacity, for every capacity, every set of keys, every policy and every *)
(* sequence of calls; and the key that an LRU, FIFO or LFU cache gives up  *)
(* is the one that its policy names.                                       *)
(***************************************************************************)
EXTENDS FixedSizedCache, CachePolicies_proofs

\* The invariant.  Remove() under LRU or FIFO may drop one key from the map and
\* another from the policy, but it drops one key of each: as many keys as there
\* are elements remain, so that a policy never gives up a key when it has none.
Agreed ==
    /\ TypeOK
    /\ IsFiniteSet(DOMAIN items)
    /\ Len(pol.order) = Size
    /\ FinderSound(policy, pol)
    /\ WithinCapacity
    /\ skewed => policy \notin ErasesByKey
    /\ ~skewed => Remembers(policy, pol, DOMAIN items) /\ ~undefined

LEMMA AgreedInit == Init => Agreed
<1> SUFFICES ASSUME Init PROVE Agreed
  OBVIOUS
<1>1. policy \in PolicyNames /\ Capacity \in Nat \ {0}
  BY PoliciesAssumption, CapacityAssumption DEF Init
<1>2. DOMAIN items = {}
  BY DEF Init
<1>3. IsFiniteSet({}) /\ Cardinality({}) = 0
  BY FS_EmptySet
<1>4. /\ pol \in PolicyRecords(Keys)
      /\ Remembers(policy, pol, {})
      /\ Len(pol.order) = 0
      /\ FinderSound(policy, pol)
  BY <1>1, NoKeysRemembered DEF Init
<1>5. TypeOK
  <2>1. <<>> \in [DOMAIN <<>> -> Values] /\ DOMAIN <<>> \subseteq Keys
    OBVIOUS
  <2>2. DOMAIN items \subseteq Keys /\ items \in [DOMAIN items -> Values]
    BY <2>1 DEF Init
  <2> QED
    BY <1>4, <2>2 DEF Init, TypeOK, PolicyRecords
<1> QED
  BY <1>1, <1>2, <1>3, <1>4, <1>5 DEF Init, Agreed, Size, WithinCapacity

-----------------------------------------------------------------------------

\* The history variables keep their types.
LEMMA StampsType ==
    ASSUME TypeOK, NEW k \in Keys, Call, Used(k) \/ Entered(k) \/ UNCHANGED stamps
    PROVE  /\ clock' \in Nat
           /\ lastUse' \in [Keys -> Nat]
           /\ insertedAt' \in [Keys -> Nat]
           /\ uses' \in [Keys -> Nat]
<1>1. /\ clock \in Nat /\ clock' = clock + 1
      /\ lastUse \in [Keys -> Nat]
      /\ insertedAt \in [Keys -> Nat]
      /\ uses \in [Keys -> Nat]
  BY DEF TypeOK, Call
<1>2. CASE Used(k)
  BY <1>1, <1>2 DEF Used
<1>3. CASE Entered(k)
  BY <1>1, <1>3 DEF Entered
<1>4. CASE UNCHANGED stamps
  BY <1>1, <1>4 DEF stamps
<1> QED
  BY <1>2, <1>3, <1>4

\* The elements that With(k, v) makes.
LEMMA WithElements ==
    ASSUME TypeOK, NEW k \in Keys, NEW v \in Values
    PROVE  /\ DOMAIN With(k, v) = DOMAIN items \cup {k}
           /\ With(k, v) \in [DOMAIN With(k, v) -> Values]
BY DEF TypeOK, With

LEMMA PutNewStep ==
    ASSUME Agreed, NEW k \in Keys, NEW v \in Values, PutNew(k, v)
    PROVE  Agreed'
<1>1. /\ policy \in PolicyNames /\ pol \in PolicyRecords(Keys)
      /\ policy' = policy /\ skewed' = skewed /\ undefined' = undefined
      /\ ~undefined
  BY PoliciesAssumption DEF Agreed, TypeOK, PutNew, Call, Entered, PolicyRecords
<1>2. /\ k \notin DOMAIN items
      /\ DOMAIN items' = DOMAIN items \cup {k}
      /\ items' \in [DOMAIN items' -> Values]
  BY WithElements DEF Agreed, PutNew
<1>3. /\ IsFiniteSet(DOMAIN items')
      /\ Cardinality(DOMAIN items') = Cardinality(DOMAIN items) + 1
  BY <1>2, FS_AddElement DEF Agreed
<1>4. Cardinality(DOMAIN items') <= Capacity
  BY <1>3 DEF PutNew, HasRoom, Size
<1>5. pol' = Insert(policy, pol, k)
  BY DEF PutNew
<1>6. /\ pol' \in PolicyRecords(Keys)
      /\ Len(pol'.order) = Len(pol.order) + 1
      /\ FinderSound(policy, pol) => FinderSound(policy, pol')
      /\ \A D : Remembers(policy, pol, D) /\ k \notin D =>
                   Remembers(policy, pol', D \cup {k})
  BY <1>1, <1>5, InsertAddsKey
<1>7. TypeOK'
  <2>1. /\ clock' \in Nat
        /\ lastUse' \in [Keys -> Nat]
        /\ insertedAt' \in [Keys -> Nat]
        /\ uses' \in [Keys -> Nat]
    BY StampsType DEF Agreed, PutNew
  <2> QED
    BY <1>1, <1>2, <1>6, <2>1 DEF Agreed, TypeOK, PolicyRecords
<1>8. ~skewed => Remembers(policy, pol', DOMAIN items')
  BY <1>2, <1>6 DEF Agreed
<1> QED
  BY <1>1, <1>3, <1>4, <1>6, <1>7, <1>8 DEF Agreed, Size, WithinCapacity

LEMMA PutEvictingStep ==
    ASSUME Agreed, NEW k \in Keys, NEW v \in Values, NEW victim \in Keys,
           PutEvicting(k, v, victim)
    PROVE  Agreed'
<1>1. /\ policy \in PolicyNames /\ pol \in PolicyRecords(Keys)
      /\ policy' = policy /\ skewed' = skewed /\ undefined' = undefined
      /\ ~undefined
  BY PoliciesAssumption DEF Agreed, TypeOK, PutEvicting, Call, Entered, PolicyRecords
<1>2. /\ k \notin DOMAIN items /\ victim \in DOMAIN items
      /\ DOMAIN items' = (DOMAIN items \ {victim}) \cup {k}
      /\ items' \in [DOMAIN items' -> Values]
  BY DEF Agreed, TypeOK, PutEvicting
<1>3. /\ IsFiniteSet(DOMAIN items \ {victim})
      /\ Cardinality(DOMAIN items \ {victim}) = Cardinality(DOMAIN items) - 1
  BY <1>2, FS_RemoveElement DEF Agreed
<1>4. /\ IsFiniteSet(DOMAIN items')
      /\ Cardinality(DOMAIN items') = Cardinality(DOMAIN items) - 1 + 1
  BY <1>2, <1>3, FS_AddElement
<1>5. Cardinality(DOMAIN items) \in Nat \ {0}
  <2>1. Cardinality(DOMAIN items) \in Nat /\ DOMAIN items # {}
    BY <1>2, FS_CardinalityType DEF Agreed
  <2> QED
    BY <2>1, FS_EmptySet DEF Agreed
<1>6. Len(pol.order) > 0 /\ Len(pol.order) = Cardinality(DOMAIN items)
  BY <1>5 DEF Agreed, Size
<1>7. victim \in Candidates(policy, pol)
  BY DEF PutEvicting
<1>8. policy \in ErasesByKey => victim \in Range(pol.order)
  BY <1>2 DEF Agreed, Remembers
<1> DEFINE erased == Erase(policy, pol, victim)
<1>9. /\ erased \in PolicyRecords(Keys)
      /\ Len(erased.order) = Len(pol.order) - 1
      /\ FinderSound(policy, pol) => FinderSound(policy, erased)
      /\ \A D : Remembers(policy, pol, D)
                   /\ (policy \in ErasesByKey \/ victim = Head(pol.order)) =>
                   Remembers(policy, erased, D \ {victim})
  BY <1>1, <1>6, <1>8, EraseDropsOne
<1>10. policy \in ErasesByKey \/ victim = Head(pol.order)
  BY <1>7 DEF Candidates, ErasesByKey
<1>11. pol' = Insert(policy, erased, k)
  BY DEF PutEvicting
<1> HIDE DEF erased
<1>12. /\ pol' \in PolicyRecords(Keys)
       /\ Len(pol'.order) = Len(erased.order) + 1
       /\ FinderSound(policy, erased) => FinderSound(policy, pol')
       /\ \A D : Remembers(policy, erased, D) /\ k \notin D =>
                    Remembers(policy, pol', D \cup {k})
  BY <1>1, <1>9, <1>11, InsertAddsKey
<1>13. TypeOK'
  <2>1. /\ clock' \in Nat
        /\ lastUse' \in [Keys -> Nat]
        /\ insertedAt' \in [Keys -> Nat]
        /\ uses' \in [Keys -> Nat]
    BY StampsType DEF Agreed, PutEvicting
  <2> QED
    BY <1>1, <1>2, <1>12, <2>1 DEF Agreed, TypeOK, PolicyRecords
<1>14. ~skewed => Remembers(policy, pol', DOMAIN items')
  <2> SUFFICES ASSUME ~skewed
               PROVE  Remembers(policy, pol', DOMAIN items')
    OBVIOUS
  <2>1. Remembers(policy, erased, DOMAIN items \ {victim})
    BY <1>9, <1>10 DEF Agreed
  <2>2. k \notin DOMAIN items \ {victim}
    BY <1>2
  <2>3. Remembers(policy, pol', (DOMAIN items \ {victim}) \cup {k})
    BY <1>12, <2>1, <2>2
  <2> QED
    BY <1>2, <2>3
<1>15. Len(pol'.order) = Size' /\ Size' <= Capacity
  BY <1>4, <1>5, <1>6, <1>9, <1>12 DEF Agreed, WithinCapacity, Size
<1> QED
  BY <1>1, <1>4, <1>9, <1>12, <1>13, <1>14, <1>15 DEF Agreed, WithinCapacity

\* The steps that only touch a key: PutUpdate, and a Lookup that finds it.
LEMMA TouchStep ==
    ASSUME Agreed, NEW k \in Keys, Call, k \in DOMAIN items,
           TouchDefined(policy, pol, k), pol' = Touch(policy, pol, k), Used(k),
           DOMAIN items' = DOMAIN items, items' \in [DOMAIN items -> Values]
    PROVE  Agreed'
<1>1. /\ policy \in PolicyNames /\ pol \in PolicyRecords(Keys)
      /\ policy' = policy /\ skewed' = skewed /\ undefined' = undefined
      /\ ~undefined
  BY PoliciesAssumption DEF Agreed, TypeOK, Call, Used, PolicyRecords
<1>2. policy \in {Lru, Lfu} => k \in Range(pol.order)
  <2>1. CASE policy = Lru
    BY <2>1 DEF TouchDefined, Agreed, FinderSound
  <2>2. CASE policy = Lfu
    BY <2>2 DEF Agreed, ErasesByKey, Remembers
  <2> QED
    BY <2>1, <2>2
<1>3. /\ pol' \in PolicyRecords(Keys)
      /\ Len(pol'.order) = Len(pol.order)
      /\ FinderSound(policy, pol) => FinderSound(policy, pol')
      /\ \A D : Remembers(policy, pol, D) => Remembers(policy, pol', D)
  BY <1>1, <1>2, TouchKeepsKeys
<1>4. TypeOK'
  <2>1. /\ clock' \in Nat
        /\ lastUse' \in [Keys -> Nat]
        /\ insertedAt' \in [Keys -> Nat]
        /\ uses' \in [Keys -> Nat]
    BY StampsType DEF Agreed
  <2> QED
    BY <1>1, <1>3, <2>1 DEF Agreed, TypeOK, PolicyRecords
<1> QED
  BY <1>1, <1>3, <1>4 DEF Agreed, WithinCapacity, Size

LEMMA RemoveStep ==
    ASSUME Agreed, NEW k \in Keys, RemoveKey(k)
    PROVE  Agreed'
<1>1. /\ policy \in PolicyNames /\ pol \in PolicyRecords(Keys)
      /\ policy' = policy /\ undefined' = undefined /\ ~undefined
      /\ skewed' = (skewed \/ policy \notin ErasesByKey)
  BY PoliciesAssumption DEF Agreed, TypeOK, RemoveKey, Call, PolicyRecords
<1>2. /\ k \in DOMAIN items
      /\ DOMAIN items' = DOMAIN items \ {k}
      /\ items' \in [DOMAIN items' -> Values]
  BY DEF Agreed, TypeOK, RemoveKey
<1>3. /\ IsFiniteSet(DOMAIN items')
      /\ Cardinality(DOMAIN items') = Cardinality(DOMAIN items) - 1
  BY <1>2, FS_RemoveElement DEF Agreed
<1>4. Cardinality(DOMAIN items) \in Nat \ {0}
  <2>1. Cardinality(DOMAIN items) \in Nat /\ DOMAIN items # {}
    BY <1>2, FS_CardinalityType DEF Agreed
  <2> QED
    BY <2>1, FS_EmptySet DEF Agreed
<1>5. Len(pol.order) > 0 /\ Len(pol.order) = Cardinality(DOMAIN items)
  BY <1>4 DEF Agreed, Size
<1>6. policy \in ErasesByKey => k \in Range(pol.order)
  BY <1>2 DEF Agreed, Remembers
<1>7. pol' = Erase(policy, pol, k)
  BY DEF RemoveKey
<1>8. /\ pol' \in PolicyRecords(Keys)
      /\ Len(pol'.order) = Len(pol.order) - 1
      /\ FinderSound(policy, pol) => FinderSound(policy, pol')
      /\ \A D : Remembers(policy, pol, D)
                   /\ (policy \in ErasesByKey \/ k = Head(pol.order)) =>
                   Remembers(policy, pol', D \ {k})
  BY <1>1, <1>5, <1>6, <1>7, EraseDropsOne
<1>9. TypeOK'
  <2>1. /\ clock' \in Nat
        /\ lastUse' \in [Keys -> Nat]
        /\ insertedAt' \in [Keys -> Nat]
        /\ uses' \in [Keys -> Nat]
    BY StampsType DEF Agreed, RemoveKey
  <2> QED
    BY <1>1, <1>2, <1>8, <2>1 DEF Agreed, TypeOK, PolicyRecords
<1>10. skewed' => policy \notin ErasesByKey
  BY <1>1 DEF Agreed
<1>11. ~skewed' => Remembers(policy, pol', DOMAIN items')
  BY <1>1, <1>2, <1>8 DEF Agreed
<1>12. Len(pol'.order) = Size' /\ Size' <= Capacity
  BY <1>3, <1>4, <1>5, <1>8, CapacityAssumption DEF Agreed, WithinCapacity, Size
<1> QED
  BY <1>1, <1>3, <1>8, <1>9, <1>10, <1>11, <1>12 DEF Agreed, WithinCapacity

\* As long as the policy tracks the map, no step goes through an iterator to
\* nothing: a full cache has a candidate, and the candidate is an element.
LEMMA NothingUndefined ==
    ASSUME Agreed, NEW k \in Keys, PutUndefined(k) \/ UseUndefined(k)
    PROVE  skewed
<1> SUFFICES ASSUME ~skewed PROVE FALSE
  BY DEF Agreed, TypeOK
<1>1. Remembers(policy, pol, DOMAIN items)
  BY DEF Agreed
<1>2. CASE UseUndefined(k)
  BY <1>1, <1>2 DEF UseUndefined, TouchDefined, Remembers
<1>3. CASE PutUndefined(k)
  <2>1. Cardinality(DOMAIN items) \in Nat
    BY FS_CardinalityType DEF Agreed
  <2>2. Len(pol.order) > 0
    BY <1>3, <2>1, CapacityAssumption DEF Agreed, PutUndefined, HasRoom, Size
  <2>3. pol.order \in Seq(Keys)
    BY DEF Agreed, TypeOK
  <2>4. Head(pol.order) \in Range(pol.order)
    BY <2>2, <2>3, TailElements
  <2>5. Candidates(policy, pol) \subseteq DOMAIN items
    BY <1>1, <2>4 DEF Candidates, Remembers
  <2> QED
    BY <1>3, <2>5 DEF PutUndefined
<1> QED
  BY <1>2, <1>3

LEMMA UndefinedStep ==
    ASSUME Agreed, NEW k \in Keys, PutUndefined(k) \/ UseUndefined(k)
    PROVE  Agreed'
<1>1. skewed
  BY NothingUndefined
<1>2. /\ Call /\ undefined' = TRUE
      /\ policy' = policy /\ items' = items /\ pol' = pol /\ skewed' = skewed
      /\ UNCHANGED stamps
  BY DEF PutUndefined, UseUndefined, Undefined, Call
<1>3. TypeOK'
  <2>1. /\ clock' \in Nat
        /\ lastUse' \in [Keys -> Nat]
        /\ insertedAt' \in [Keys -> Nat]
        /\ uses' \in [Keys -> Nat]
    BY <1>2, StampsType DEF Agreed
  <2> QED
    BY <1>2, <2>1 DEF Agreed, TypeOK
<1> QED
  BY <1>1, <1>2, <1>3 DEF Agreed, WithinCapacity, Size

LEMMA AgreedStep == Agreed /\ [Next]_vars => Agreed'
<1> SUFFICES ASSUME Agreed, [Next]_vars
             PROVE  Agreed'
  OBVIOUS
<1>1. CASE UNCHANGED vars
  BY <1>1 DEF vars, Agreed, TypeOK, WithinCapacity, Size
<1>2. ASSUME NEW k \in Keys, NEW v \in Values, PutNew(k, v)
      PROVE  Agreed'
  BY <1>2, PutNewStep
<1>3. ASSUME NEW k \in Keys, NEW v \in Values, PutUpdate(k, v)
      PROVE  Agreed'
  <2>1. /\ DOMAIN items' = DOMAIN items
        /\ items' \in [DOMAIN items -> Values]
    <3>1. DOMAIN items \cup {k} = DOMAIN items
      BY <1>3 DEF PutUpdate
    <3> QED
      BY <1>3, <3>1, WithElements DEF Agreed, PutUpdate
  <2> QED
    BY <1>3, <2>1, TouchStep DEF PutUpdate
<1>4. ASSUME NEW k \in Keys, NEW v \in Values, NEW victim \in Keys,
             PutEvicting(k, v, victim)
      PROVE  Agreed'
  BY <1>4, PutEvictingStep
<1>5. ASSUME NEW k \in Keys, Lookup(k)
      PROVE  Agreed'
  <2>1. CASE k \in DOMAIN items
    <3>1. items' = items /\ items \in [DOMAIN items -> Values]
      BY <1>5, <2>1 DEF Lookup, Agreed, TypeOK
    <3> QED
      BY <1>5, <2>1, <3>1, TouchStep DEF Lookup
  <2>2. CASE k \notin DOMAIN items
    <3>1. /\ Call
          /\ policy' = policy
          /\ UNCHANGED <<items, pol, undefined, skewed, stamps>>
      BY <1>5, <2>2 DEF Lookup, Call
    <3>2. TypeOK'
      <4>1. /\ clock' \in Nat
            /\ lastUse' \in [Keys -> Nat]
            /\ insertedAt' \in [Keys -> Nat]
            /\ uses' \in [Keys -> Nat]
        BY <3>1, StampsType DEF Agreed
      <4> QED
        BY <3>1, <4>1 DEF Agreed, TypeOK
    <3> QED
      BY <3>1, <3>2 DEF Agreed, WithinCapacity, Size
  <2> QED
    BY <2>1, <2>2
<1>6. ASSUME NEW k \in Keys, RemoveKey(k)
      PROVE  Agreed'
  BY <1>6, RemoveStep
<1>7. ASSUME NEW k \in Keys, PutUndefined(k) \/ UseUndefined(k)
      PROVE  Agreed'
  BY <1>7, UndefinedStep
<1> QED
  BY <1>1, <1>2, <1>3, <1>4, <1>5, <1>6, <1>7 DEF Next

LEMMA AlwaysAgreed == Spec => []Agreed
BY AgreedInit, AgreedStep, PTL DEF Spec

-----------------------------------------------------------------------------

\* Every variable keeps its type: no policy indexes its list out of range.
THEOREM CacheTypeCorrect == Spec => []TypeOK
<1>1. Agreed => TypeOK
  BY DEF Agreed
<1> QED
  BY <1>1, AlwaysAgreed, PTL

\* The map and the policy hold the same keys until Remove() is called under a
\* policy that ignores the key it is given.
THEOREM PolicyTracks == Spec => []TracksUnlessRemoved
<1>1. Agreed => TracksUnlessRemoved
  BY DEF Agreed, TracksUnlessRemoved, PolicyTracksItems, Remembers
<1> QED
  BY <1>1, AlwaysAgreed, PTL

\* A cache holds at most Capacity elements, Remove() or not.
THEOREM CapacityHolds == Spec => []WithinCapacity
<1>1. Agreed => WithinCapacity
  BY DEF Agreed
<1> QED
  BY <1>1, AlwaysAgreed, PTL

-----------------------------------------------------------------------------
(* The cache implements a bounded cache.                                    *)

\* The abstract module counts as the detailed one does.
LEMMA SameCardinality == \A S : Bounded!Cardinality(S) = Cardinality(S)
BY DEF Bounded!Cardinality, Cardinality

LEMMA BoundedStep ==
    ASSUME Agreed, Agreed', Next
    PROVE  Bounded!Next \/ UNCHANGED items
<1>1. /\ Cardinality(DOMAIN items) <= Capacity
      /\ Cardinality(DOMAIN items') <= Capacity
      /\ Cardinality(DOMAIN items) \in Nat
  BY FS_CardinalityType DEF Agreed, WithinCapacity, Size
<1>2. ASSUME NEW k \in Keys, NEW v \in Values, PutNew(k, v) \/ PutUpdate(k, v)
      PROVE  Bounded!Put(k, v)
  <2>1. {} \in SUBSET (DOMAIN items \ {k}) /\ DOMAIN items \ {} = DOMAIN items
    OBVIOUS
  <2>2. items' = With(k, v)
    BY <1>2 DEF PutNew, PutUpdate
  <2>3. items' = [j \in (DOMAIN items \ {}) \cup {k} |->
                     IF j = k THEN v ELSE items[j]]
    BY <2>1, <2>2 DEF With
  <2> SUFFICES \E gone \in SUBSET (DOMAIN items \ {k}) :
                  /\ gone # {} => /\ k \notin DOMAIN items
                                  /\ Cardinality(DOMAIN items) = Capacity
                                  /\ \E victim \in DOMAIN items : gone = {victim}
                  /\ items' = [j \in (DOMAIN items \ gone) \cup {k} |->
                                  IF j = k THEN v ELSE items[j]]
                  /\ Cardinality(DOMAIN items') <= Capacity
    BY SameCardinality DEF Bounded!Put
  <2> WITNESS {} \in SUBSET (DOMAIN items \ {k})
  <2> QED
    BY <1>1, <2>3
<1>3. ASSUME NEW k \in Keys, NEW v \in Values, NEW victim \in Keys,
             PutEvicting(k, v, victim)
      PROVE  Bounded!Put(k, v)
  <2>1. k \notin DOMAIN items /\ victim \in DOMAIN items
    BY <1>3 DEF PutEvicting
  <2>2. Cardinality(DOMAIN items) = Capacity
    BY <1>1, <1>3, CapacityAssumption DEF PutEvicting, HasRoom, Size
  <2>3. items' = [j \in (DOMAIN items \ {victim}) \cup {k} |->
                     IF j = k THEN v ELSE items[j]]
    BY <1>3 DEF PutEvicting
  <2> SUFFICES \E gone \in SUBSET (DOMAIN items \ {k}) :
                  /\ gone # {} => /\ k \notin DOMAIN items
                                  /\ Cardinality(DOMAIN items) = Capacity
                                  /\ \E one \in DOMAIN items : gone = {one}
                  /\ items' = [j \in (DOMAIN items \ gone) \cup {k} |->
                                  IF j = k THEN v ELSE items[j]]
                  /\ Cardinality(DOMAIN items') <= Capacity
    BY SameCardinality DEF Bounded!Put
  <2> WITNESS {victim} \in SUBSET (DOMAIN items \ {k})
  <2> QED
    BY <1>1, <2>1, <2>2, <2>3
<1>4. ASSUME NEW k \in Keys, RemoveKey(k)
      PROVE  Bounded!Remove(k)
  BY <1>4 DEF RemoveKey, Bounded!Remove
<1>5. ASSUME NEW k \in Keys, Lookup(k) \/ PutUndefined(k) \/ UseUndefined(k)
      PROVE  UNCHANGED items
  BY <1>5 DEF Lookup, PutUndefined, UseUndefined, Undefined
<1> QED
  BY <1>2, <1>3, <1>4, <1>5 DEF Next, Bounded!Next

\* Every policy's cache is a bounded cache: what was put is there with its value
\* until it is removed, or gives way, alone, to a new key of a full cache.
THEOREM CacheIsBounded == Spec => IsBoundedCache
<1>1. Init => Bounded!Init
  BY DEF Init, Bounded!Init
<1>2. Agreed /\ Agreed' /\ [Next]_vars => [Bounded!Next]_items
  <2> SUFFICES ASSUME Agreed, Agreed', [Next]_vars
               PROVE  [Bounded!Next]_items
    OBVIOUS
  <2>1. CASE UNCHANGED vars
    BY <2>1 DEF vars
  <2>2. CASE Next
    BY <2>2, BoundedStep
  <2> QED
    BY <2>1, <2>2
<1> QED
  BY <1>1, <1>2, AlwaysAgreed, PTL DEF Spec, IsBoundedCache, Bounded!Spec

-----------------------------------------------------------------------------
(* The victims of LRU and FIFO.                                             *)

\* The list of LRU is in the order of the last uses, that of FIFO in the order
\* in which the keys entered, and the next stamp is behind them all.
Stamped ==
    /\ \A k \in Keys : lastUse[k] <= clock /\ insertedAt[k] <= clock
    /\ policy = Lru /\ ~skewed => SortedBy(pol.order, lastUse)
    /\ policy = Fifo /\ ~skewed => SortedBy(pol.order, insertedAt)

LEMMA StampedInit == Init => Stamped
<1> SUFFICES ASSUME Init PROVE Stamped
  OBVIOUS
<1>1. pol.order = <<>> /\ DOMAIN <<>> = {}
  BY DEF Init, NoKeys
<1>2. \A k \in Keys : lastUse[k] <= clock /\ insertedAt[k] <= clock
  BY DEF Init
<1> QED
  BY <1>1, <1>2 DEF Stamped, SortedBy

\* A call that stamps nothing but k leaves no stamp behind the clock.
LEMMA StampsBelowClock ==
    ASSUME Agreed, Stamped, NEW k \in Keys, Call,
           Used(k) \/ Entered(k) \/ UNCHANGED stamps
    PROVE  /\ \A j \in Keys : lastUse'[j] <= clock' /\ insertedAt'[j] <= clock'
           /\ \A j \in Keys : /\ lastUse[j] \in Int /\ insertedAt[j] \in Int
                              /\ lastUse[j] <= clock' /\ insertedAt[j] <= clock'
<1>1. /\ clock \in Nat /\ clock' = clock + 1
      /\ lastUse \in [Keys -> Nat]
      /\ insertedAt \in [Keys -> Nat]
  BY DEF Agreed, TypeOK, Call
<1>2. \A j \in Keys : /\ lastUse[j] \in Int /\ insertedAt[j] \in Int
                      /\ lastUse[j] <= clock' /\ insertedAt[j] <= clock'
  BY <1>1 DEF Stamped
<1>3. CASE Used(k)
  BY <1>1, <1>2, <1>3 DEF Used
<1>4. CASE Entered(k)
  BY <1>1, <1>2, <1>4 DEF Entered
<1>5. CASE UNCHANGED stamps
  BY <1>2, <1>5 DEF stamps
<1> QED
  BY <1>2, <1>3, <1>4, <1>5

\* A new key is stamped last, and goes to the end of what is left of the list.
LEMMA EnteredSorted ==
    ASSUME Agreed, Stamped, NEW k \in Keys, Call, Entered(k), k \notin DOMAIN items,
           NEW q \in Seq(Keys), Range(q) \subseteq DOMAIN items,
           pol'.order = Append(q, k)
    PROVE  /\ SortedBy(q, lastUse) => SortedBy(pol'.order, lastUse')
           /\ SortedBy(q, insertedAt) => SortedBy(pol'.order, insertedAt')
<1>1. \A j \in Keys : lastUse[j] <= clock' /\ insertedAt[j] <= clock'
  BY StampsBelowClock
<1>2. \A x \in Range(q) : x \in Keys /\ x # k
  BY DEF Agreed, TypeOK
<1>3. /\ lastUse' = [lastUse EXCEPT ![k] = clock']
      /\ insertedAt' = [insertedAt EXCEPT ![k] = clock']
      /\ lastUse \in [Keys -> Nat] /\ insertedAt \in [Keys -> Nat]
  BY DEF Entered, Agreed, TypeOK
<1>4. \A x \in Range(q) :
         /\ lastUse'[x] = lastUse[x] /\ lastUse[x] <= lastUse'[k]
         /\ insertedAt'[x] = insertedAt[x] /\ insertedAt[x] <= insertedAt'[k]
  BY <1>1, <1>2, <1>3
<1>5. SortedBy(q, lastUse) => SortedBy(Append(q, k), lastUse')
  BY <1>4, AppendSorted
<1>6. SortedBy(q, insertedAt) => SortedBy(Append(q, k), insertedAt')
  BY <1>4, AppendSorted
<1> QED
  BY <1>5, <1>6

LEMMA PutNewStamped ==
    ASSUME Agreed, Stamped, NEW k \in Keys, NEW v \in Values, PutNew(k, v)
    PROVE  Stamped'
<1>1. /\ Call /\ Entered(k) /\ k \notin DOMAIN items
      /\ policy' = policy /\ skewed' = skewed
      /\ pol.order \in Seq(Keys)
      /\ pol' = Insert(policy, pol, k)
  BY DEF PutNew, Call, Entered, Agreed, TypeOK
<1>2. \A j \in Keys : lastUse'[j] <= clock' /\ insertedAt'[j] <= clock'
  BY <1>1, StampsBelowClock
<1>3. ASSUME policy \in {Lru, Fifo}, ~skewed
      PROVE  /\ SortedBy(pol.order, lastUse) => SortedBy(pol'.order, lastUse')
             /\ SortedBy(pol.order, insertedAt) => SortedBy(pol'.order, insertedAt')
  <2>1. Range(pol.order) \subseteq DOMAIN items
    BY <1>3 DEF Agreed, Remembers
  <2>2. pol' = LruInsert(pol, k) \/ pol' = FifoInsert(pol, k)
    BY <1>1, <1>3, Virtual
  <2>3. pol'.order = Append(pol.order, k)
    BY <1>1, <2>2 DEF LruInsert, FifoInsert, Agreed, TypeOK
  <2> QED
    BY <1>1, <2>1, <2>3, EnteredSorted
<1> QED
  BY <1>1, <1>2, <1>3 DEF Stamped

LEMMA PutEvictingStamped ==
    ASSUME Agreed, Stamped, NEW k \in Keys, NEW v \in Values, NEW victim \in Keys,
           PutEvicting(k, v, victim)
    PROVE  /\ Stamped'
           /\ policy \in {Lru, Fifo} => victim = Head(pol.order)
           /\ Len(pol.order) > 0
<1>1. /\ Call /\ Entered(k) /\ k \notin DOMAIN items /\ victim \in DOMAIN items
      /\ policy' = policy /\ skewed' = skewed
      /\ pol.order \in Seq(Keys)
      /\ victim \in Candidates(policy, pol)
      /\ pol' = Insert(policy, Erase(policy, pol, victim), k)
  BY DEF PutEvicting, Call, Entered, Agreed, TypeOK
<1>2. \A j \in Keys : lastUse'[j] <= clock' /\ insertedAt'[j] <= clock'
  BY <1>1, StampsBelowClock
<1>3. Len(pol.order) > 0
  <2>1. Cardinality(DOMAIN items) \in Nat /\ DOMAIN items # {}
    BY <1>1, FS_CardinalityType DEF Agreed
  <2> QED
    BY <2>1, FS_EmptySet DEF Agreed, Size
<1>4. ASSUME policy \in {Lru, Fifo}, ~skewed
      PROVE  /\ SortedBy(pol.order, lastUse) => SortedBy(pol'.order, lastUse')
             /\ SortedBy(pol.order, insertedAt) => SortedBy(pol'.order, insertedAt')
  <2> DEFINE q == Tail(pol.order)
             erased == Erase(policy, pol, victim)
  <2>1. Range(pol.order) = DOMAIN items
    BY <1>4 DEF Agreed, Remembers
  <2>2. q \in Seq(Keys) /\ Range(q) \subseteq DOMAIN items
    BY <1>1, <1>3, <2>1, TailElements
  <2>3. \A j \in Range(pol.order) : lastUse[j] \in Int /\ insertedAt[j] \in Int
    BY <2>1 DEF Agreed, TypeOK
  <2>4. SortedBy(pol.order, lastUse) => SortedBy(q, lastUse)
    BY <1>1, <1>3, <2>3, TailSorted
  <2>5. SortedBy(pol.order, insertedAt) => SortedBy(q, insertedAt)
    BY <1>1, <1>3, <2>3, TailSorted
  <2>6. \/ erased = LruErase(pol, victim) /\ pol' = LruInsert(erased, k)
        \/ erased = FifoErase(pol, victim) /\ pol' = FifoInsert(erased, k)
    BY <1>1, <1>4, Virtual
  <2>7. pol \in [order : Seq(Keys), freq : [Keys -> Nat], finder : SUBSET Keys]
    BY DEF Agreed, TypeOK
  <2> HIDE DEF erased, q
  <2>8. pol'.order = Append(q, k)
    <3>1. CASE erased = LruErase(pol, victim) /\ pol' = LruInsert(erased, k)
      <4>1. erased = [pol EXCEPT !.order = q,
                                 !.finder = pol.finder \ {Head(pol.order)}]
        BY <3>1 DEF LruErase, q
      <4>2. erased.order = q /\ DOMAIN erased = {"order", "freq", "finder"}
        BY <2>7, <4>1
      <4>3. pol' = [erased EXCEPT !.order = Append(erased.order, k),
                                  !.finder = erased.finder \cup {k}]
        BY <3>1 DEF LruInsert
      <4> QED
        BY <4>2, <4>3
    <3>2. CASE erased = FifoErase(pol, victim) /\ pol' = FifoInsert(erased, k)
      <4>1. erased = [pol EXCEPT !.order = q]
        BY <3>2 DEF FifoErase, q
      <4>2. erased.order = q /\ DOMAIN erased = {"order", "freq", "finder"}
        BY <2>7, <4>1
      <4>3. pol' = [erased EXCEPT !.order = Append(erased.order, k)]
        BY <3>2 DEF FifoInsert
      <4> QED
        BY <4>2, <4>3
    <3> QED
      BY <2>6, <3>1, <3>2
  <2> QED
    BY <1>1, <2>2, <2>4, <2>5, <2>8, EnteredSorted
<1>5. policy \in {Lru, Fifo} => victim = Head(pol.order)
  BY <1>1 DEF Candidates, Lru, Fifo, None
<1> QED
  BY <1>1, <1>2, <1>3, <1>4, <1>5 DEF Stamped

LEMMA TouchStamped ==
    ASSUME Agreed, Stamped, NEW k \in Keys, Call, k \in DOMAIN items,
           pol' = Touch(policy, pol, k), Used(k)
    PROVE  Stamped'
<1>1. /\ policy' = policy /\ skewed' = skewed /\ insertedAt' = insertedAt
      /\ pol.order \in Seq(Keys)
      /\ lastUse' = [lastUse EXCEPT ![k] = clock']
      /\ lastUse \in [Keys -> Nat]
  BY DEF Call, Used, Agreed, TypeOK
<1>2. /\ \A j \in Keys : lastUse'[j] <= clock' /\ insertedAt'[j] <= clock'
      /\ \A j \in Keys : lastUse[j] <= clock'
  BY StampsBelowClock
<1>3. ASSUME policy = Lru, ~skewed
      PROVE  SortedBy(pol'.order, lastUse')
  <2> DEFINE q == Without(pol.order, k)
             i == Position(pol.order, k)
  <2>1. Range(pol.order) = DOMAIN items /\ IsInjective(pol.order)
    BY <1>3 DEF Agreed, Remembers
  <2>2. /\ q \in Seq(Keys)
        /\ Range(q) \subseteq Range(pol.order)
        /\ k \notin Range(q)
    BY <1>1, <2>1, WithoutDropsOne
  <2>3. SortedBy(q, lastUse)
    <3>1. \E j \in DOMAIN pol.order : /\ pol.order[j] = k
             /\ \A l \in DOMAIN pol.order : pol.order[l] = k => l <= j
      BY <1>1, <2>1, LastOccurrence
    <3>2. i \in DOMAIN pol.order
      BY <3>1 DEF Position
    <3> HIDE DEF i
    <3>3. i \in 1 .. Len(pol.order)
      BY <1>1, <3>2, LenProperties
    <3>4. SortedBy(pol.order, lastUse)
      BY <1>3 DEF Stamped
    <3>5. SortedBy(RemoveAt(pol.order, i), lastUse)
      BY <1>1, <3>3, <3>4, RemoveAtSorted
    <3> QED
      BY <3>5 DEF Without, i
  <2>4. pol'.order = Append(q, k)
    <3>1. pol' = [pol EXCEPT !.order = Append(q, k)]
      BY <1>3, Virtual DEF LruTouch
    <3>2. pol \in [order : Seq(Keys), freq : [Keys -> Nat], finder : SUBSET Keys]
      BY DEF Agreed, TypeOK
    <3> HIDE DEF q
    <3> QED
      BY <3>1, <3>2
  <2>5. \A x \in Range(q) : lastUse'[x] = lastUse[x] /\ lastUse[x] <= lastUse'[k]
    <3>1. \A x \in Range(q) : x \in Keys /\ x # k
      BY <2>1, <2>2 DEF Agreed, TypeOK
    <3> HIDE DEF q
    <3> QED
      BY <1>1, <1>2, <3>1
  <2> HIDE DEF q
  <2> QED
    BY <2>2, <2>3, <2>4, <2>5, AppendSorted
<1>4. policy = Fifo => pol' = pol
  BY Virtual
<1> QED
  BY <1>1, <1>2, <1>3, <1>4 DEF Stamped

LEMMA StampedStep == Agreed /\ Stamped /\ [Next]_vars => Stamped'
<1> SUFFICES ASSUME Agreed, Stamped, [Next]_vars
             PROVE  Stamped'
  OBVIOUS
<1>1. CASE UNCHANGED vars
  BY <1>1 DEF vars, Stamped
<1>2. ASSUME NEW k \in Keys, NEW v \in Values, PutNew(k, v)
      PROVE  Stamped'
  BY <1>2, PutNewStamped
<1>3. ASSUME NEW k \in Keys, NEW v \in Values, PutUpdate(k, v)
      PROVE  Stamped'
  BY <1>3, TouchStamped DEF PutUpdate
<1>4. ASSUME NEW k \in Keys, NEW v \in Values, NEW victim \in Keys,
             PutEvicting(k, v, victim)
      PROVE  Stamped'
  BY <1>4, PutEvictingStamped
<1>5. ASSUME NEW k \in Keys,
             Lookup(k) \/ RemoveKey(k) \/ PutUndefined(k) \/ UseUndefined(k)
      PROVE  Stamped'
  <2>1. CASE Lookup(k) /\ k \in DOMAIN items
    BY <2>1, TouchStamped DEF Lookup
  <2>2. CASE Lookup(k) /\ k \notin DOMAIN items
    <3>1. Call /\ UNCHANGED <<policy, pol, skewed, stamps>>
      BY <2>2 DEF Lookup, Call
    <3>2. \A j \in Keys : lastUse'[j] <= clock' /\ insertedAt'[j] <= clock'
      BY <3>1, StampsBelowClock
    <3> QED
      BY <3>1, <3>2 DEF Stamped, stamps
  <2>3. CASE RemoveKey(k)
    <3>1. Call /\ policy' = policy /\ UNCHANGED stamps
      BY <2>3 DEF RemoveKey, Call
    <3>2. \A j \in Keys : lastUse'[j] <= clock' /\ insertedAt'[j] <= clock'
      BY <3>1, StampsBelowClock
    <3>3. policy \in {Lru, Fifo} => skewed'
      BY <2>3 DEF RemoveKey, ErasesByKey, Lru, Lfu, Fifo, None
    <3> QED
      BY <3>1, <3>2, <3>3 DEF Stamped
  <2>4. CASE PutUndefined(k) \/ UseUndefined(k)
    <3>1. Call /\ UNCHANGED <<policy, pol, skewed, stamps>>
      BY <2>4 DEF PutUndefined, UseUndefined, Undefined, Call
    <3>2. \A j \in Keys : lastUse'[j] <= clock' /\ insertedAt'[j] <= clock'
      BY <3>1, StampsBelowClock
    <3> QED
      BY <3>1, <3>2 DEF Stamped, stamps
  <2> QED
    BY <1>5, <2>1, <2>2, <2>3, <2>4
<1> QED
  BY <1>1, <1>2, <1>3, <1>4, <1>5 DEF Next

\* A step that pushes a key out is an eviction.
LEMMA PushedOutEvicted ==
    ASSUME [Next]_vars, NEW gone \in PushedOut
    PROVE  \E k \in Keys, v \in Values : gone \in Keys /\ PutEvicting(k, v, gone)
<1>1. ASSUME NEW k \in Keys, NEW v \in Values, NEW victim \in Keys,
             PutEvicting(k, v, victim)
      PROVE  gone = victim
  <2>1. DOMAIN items' = (DOMAIN items \ {victim}) \cup {k}
    BY <1>1 DEF PutEvicting
  <2> QED
    BY <2>1 DEF PushedOut
<1>2. ASSUME DOMAIN items \subseteq DOMAIN items' \/ DOMAIN items' \subseteq DOMAIN items
      PROVE  FALSE
  BY <1>2 DEF PushedOut
<1>3. ASSUME NEW k \in Keys, NEW v \in Values, PutNew(k, v) \/ PutUpdate(k, v)
      PROVE  DOMAIN items \subseteq DOMAIN items'
  <2>1. items' = With(k, v)
    BY <1>3 DEF PutNew, PutUpdate
  <2> QED
    BY <2>1 DEF With
<1>4. ASSUME NEW k \in Keys,
             Lookup(k) \/ RemoveKey(k) \/ PutUndefined(k) \/ UseUndefined(k)
      PROVE  DOMAIN items' \subseteq DOMAIN items
  BY <1>4 DEF Lookup, RemoveKey, PutUndefined, UseUndefined, Undefined
<1>5. CASE UNCHANGED vars
  BY <1>2, <1>5 DEF vars
<1> QED
  BY <1>1, <1>2, <1>3, <1>4, <1>5 DEF Next

\* An LRU cache gives up the key that was not used for the longest time.
THEOREM LruVictims == Spec => LruEvictsLeastRecent
<1>1. Agreed /\ Stamped /\ [Next]_vars =>
         [policy = Lru /\ ~skewed =>
            \A gone \in PushedOut, k \in DOMAIN items :
               lastUse[gone] <= lastUse[k]]_vars
  <2> SUFFICES ASSUME Agreed, Stamped, [Next]_vars, policy = Lru, ~skewed,
                      NEW gone \in PushedOut, NEW k \in DOMAIN items
               PROVE  lastUse[gone] <= lastUse[k]
    OBVIOUS
  <2>1. gone = Head(pol.order) /\ Len(pol.order) > 0
    BY PushedOutEvicted, PutEvictingStamped
  <2>2. Range(pol.order) = DOMAIN items /\ pol.order \in Seq(Keys)
    BY DEF Agreed, TypeOK, Remembers
  <2>3. \A x \in Range(pol.order) : lastUse[x] \in Int
    BY <2>2 DEF Agreed, TypeOK
  <2>4. SortedBy(pol.order, lastUse)
    BY DEF Stamped
  <2> QED
    BY <2>1, <2>2, <2>3, <2>4, TailSorted
<1> QED
  BY <1>1, AlwaysAgreed, StampedInit, StampedStep, PTL DEF Spec, LruEvictsLeastRecent

\* A FIFO cache gives up the key that entered first, used since or not.
THEOREM FifoVictims == Spec => FifoEvictsOldest
<1>1. Agreed /\ Stamped /\ [Next]_vars =>
         [policy = Fifo /\ ~skewed =>
            \A gone \in PushedOut, k \in DOMAIN items :
               insertedAt[gone] <= insertedAt[k]]_vars
  <2> SUFFICES ASSUME Agreed, Stamped, [Next]_vars, policy = Fifo, ~skewed,
                      NEW gone \in PushedOut, NEW k \in DOMAIN items
               PROVE  insertedAt[gone] <= insertedAt[k]
    OBVIOUS
  <2>1. gone = Head(pol.order) /\ Len(pol.order) > 0
    BY PushedOutEvicted, PutEvictingStamped
  <2>2. Range(pol.order) = DOMAIN items /\ pol.order \in Seq(Keys)
    BY DEF Agreed, TypeOK, Remembers
  <2>3. \A x \in Range(pol.order) : insertedAt[x] \in Int
    BY <2>2 DEF Agreed, TypeOK
  <2>4. SortedBy(pol.order, insertedAt)
    BY DEF Stamped
  <2> QED
    BY <2>1, <2>2, <2>3, <2>4, TailSorted
<1> QED
  BY <1>1, AlwaysAgreed, StampedInit, StampedStep, PTL DEF Spec, FifoEvictsOldest

-----------------------------------------------------------------------------
(* The victims of LFU.                                                      *)

\* The policy's counts are the uses, and its list is in their order.
Counting ==
    policy = Lfu =>
        /\ SortedBy(pol.order, pol.freq)
        /\ \A x \in DOMAIN items : pol.freq[x] = uses[x] /\ 1 <= uses[x]

LEMMA CountingInit == Init => Counting
<1> SUFFICES ASSUME Init PROVE Counting
  OBVIOUS
<1>1. pol.order = <<>> /\ DOMAIN <<>> = {} /\ DOMAIN items = {}
  BY DEF Init, NoKeys
<1> QED
  BY <1>1 DEF Counting, SortedBy

\* LFU erases the key that it is given, so that it is never skewed.
LEMMA LfuKeys ==
    ASSUME Agreed, policy = Lfu
    PROVE  /\ pol \in PolicyRecords(Keys)
           /\ Range(pol.order) = DOMAIN items /\ IsInjective(pol.order)
           /\ DOMAIN items \subseteq Keys /\ uses \in [Keys -> Nat]
BY DEF Agreed, TypeOK, PolicyRecords, Remembers, ErasesByKey, Lfu, None

LEMMA PutNewCounting ==
    ASSUME Agreed, Counting, policy = Lfu, NEW k \in Keys, NEW v \in Values, PutNew(k, v)
    PROVE  Counting'
<1>1. /\ Entered(k) /\ k \notin DOMAIN items /\ pol' = LfuInsert(pol, k)
      /\ DOMAIN items' = DOMAIN items \cup {k}
  BY Virtual DEF PutNew, With
<1>2. /\ \A x \in Range(pol.order) : 1 <= pol.freq[x]
      /\ k \notin Range(pol.order) /\ SortedBy(pol.order, pol.freq)
  BY <1>1, LfuKeys DEF Counting
<1>3. /\ SortedBy(pol'.order, pol'.freq) /\ pol'.freq[k] = 1
      /\ \A x \in Keys \ {k} : pol'.freq[x] = pol.freq[x]
  BY <1>1, <1>2, LfuKeys, LfuInsertSorted
<1>4. uses'[k] = 1 /\ \A x \in Keys \ {k} : uses'[x] = uses[x]
  BY <1>1, LfuKeys DEF Entered
<1> QED
  BY <1>1, <1>3, <1>4, LfuKeys DEF Counting

LEMMA PutEvictingCounting ==
    ASSUME Agreed, Counting, policy = Lfu, NEW k \in Keys, NEW v \in Values,
           NEW victim \in Keys, PutEvicting(k, v, victim)
    PROVE  Counting' /\ victim = Head(pol.order) /\ Len(pol.order) > 0
<1> DEFINE erased == LfuErase(pol, victim)
<1>1. /\ Entered(k) /\ k \notin DOMAIN items /\ victim \in DOMAIN items
      /\ victim \in Candidates(policy, pol)
      /\ pol' = LfuInsert(erased, k)
      /\ DOMAIN items' = (DOMAIN items \ {victim}) \cup {k}
  BY Virtual DEF PutEvicting
<1>2. victim = Head(pol.order)
  BY <1>1 DEF Candidates, Lfu, None
<1>3. Len(pol.order) > 0
  <2>1. Cardinality(DOMAIN items) \in Nat /\ DOMAIN items # {}
    BY <1>1, FS_CardinalityType DEF Agreed
  <2> QED
    BY <2>1, FS_EmptySet DEF Agreed, Size
<1>4. /\ SortedBy(erased.order, erased.freq)
      /\ \A x \in Keys \ {victim} : erased.freq[x] = pol.freq[x]
  BY <1>1, LfuKeys, LfuEraseSorted DEF Counting
<1>5. erased \in PolicyRecords(Keys) /\ Range(erased.order) = DOMAIN items \ {victim}
  <2>1. policy \in PolicyNames /\ Lfu \in ErasesByKey
    BY DEF PolicyNames, ErasesByKey
  <2>2. Erase(policy, pol, victim) = erased /\ victim \in Range(pol.order)
    BY <1>1, LfuKeys, Virtual
  <2>3. Remembers(policy, pol, DOMAIN items)
    BY LfuKeys DEF Remembers, Lru, Lfu
  <2> HIDE DEF erased
  <2>4. erased \in PolicyRecords(Keys) /\ Remembers(policy, erased, DOMAIN items \ {victim})
    BY <1>3, <2>1, <2>2, <2>3, LfuKeys, EraseDropsOne
  <2> QED
    BY <2>4 DEF Remembers
<1> HIDE DEF erased
<1>6. /\ \A x \in Range(erased.order) : 1 <= erased.freq[x]
      /\ k \notin Range(erased.order)
  BY <1>1, <1>4, <1>5, LfuKeys DEF Counting
<1>7. /\ SortedBy(pol'.order, pol'.freq) /\ pol'.freq[k] = 1
      /\ \A x \in Keys \ {k} : pol'.freq[x] = erased.freq[x]
  BY <1>1, <1>4, <1>5, <1>6, LfuInsertSorted
<1>8. uses'[k] = 1 /\ \A x \in Keys \ {k} : uses'[x] = uses[x]
  BY <1>1, LfuKeys DEF Entered
<1>9. Counting'
  BY <1>1, <1>4, <1>7, <1>8, LfuKeys DEF Counting
<1> QED
  BY <1>2, <1>3, <1>9

LEMMA TouchCounting ==
    ASSUME Agreed, Counting, policy = Lfu, NEW k \in Keys, k \in DOMAIN items,
           DOMAIN items' = DOMAIN items, pol' = Touch(policy, pol, k), Used(k)
    PROVE  Counting'
<1>1. pol' = LfuTouch(pol, k) /\ k \in Range(pol.order)
  BY LfuKeys, Virtual
<1>2. /\ SortedBy(pol'.order, pol'.freq) /\ pol'.freq[k] = pol.freq[k] + 1
      /\ \A x \in Keys \ {k} : pol'.freq[x] = pol.freq[x]
  BY <1>1, LfuKeys, LfuTouchSorted DEF Counting
<1>3. uses'[k] = uses[k] + 1 /\ \A x \in Keys \ {k} : uses'[x] = uses[x]
  BY LfuKeys DEF Used
<1>4. uses[k] \in Nat
  BY LfuKeys
<1> QED
  BY <1>2, <1>3, <1>4, LfuKeys DEF Counting

LEMMA CountingStep == Agreed /\ Counting /\ [Next]_vars => Counting'
<1> SUFFICES ASSUME Agreed, Counting, [Next]_vars, policy' = Lfu
             PROVE  Counting'
  BY DEF Counting
<1>1. policy = Lfu
  BY DEF Next, PutNew, PutUpdate, PutEvicting, Lookup, RemoveKey, PutUndefined,
         UseUndefined, Call, vars
<1>2. CASE UNCHANGED vars
  BY <1>2 DEF vars, Counting, stamps
<1>3. ASSUME NEW k \in Keys, NEW v \in Values, PutNew(k, v)
      PROVE  Counting'
  BY <1>1, <1>3, PutNewCounting
<1>4. ASSUME NEW k \in Keys, NEW v \in Values, PutUpdate(k, v)
      PROVE  Counting'
  BY <1>1, <1>4, TouchCounting DEF PutUpdate, With
<1>5. ASSUME NEW k \in Keys, NEW v \in Values, NEW victim \in Keys,
             PutEvicting(k, v, victim)
      PROVE  Counting'
  BY <1>1, <1>5, PutEvictingCounting
<1>6. ASSUME NEW k \in Keys, Lookup(k)
      PROVE  Counting'
  BY <1>1, <1>6, TouchCounting DEF Lookup, Counting, stamps
<1>7. ASSUME NEW k \in Keys, RemoveKey(k)
      PROVE  Counting'
  <2>1. /\ pol' = LfuErase(pol, k) /\ k \in Range(pol.order)
        /\ DOMAIN items' = DOMAIN items \ {k} /\ uses' = uses
    BY <1>1, <1>7, LfuKeys, Virtual DEF RemoveKey, stamps
  <2>2. /\ SortedBy(pol'.order, pol'.freq)
        /\ \A x \in Keys \ {k} : pol'.freq[x] = pol.freq[x]
    BY <1>1, <2>1, LfuKeys, LfuEraseSorted DEF Counting
  <2> QED
    BY <1>1, <2>1, <2>2, LfuKeys DEF Counting
<1>8. ASSUME NEW k \in Keys, PutUndefined(k) \/ UseUndefined(k)
      PROVE  Counting'
  BY <1>1, <1>8 DEF PutUndefined, UseUndefined, Undefined, Counting, stamps
<1> QED
  BY <1>2, <1>3, <1>4, <1>5, <1>6, <1>7, <1>8 DEF Next

\* An LFU cache gives up a key that no other key was used less often than.
THEOREM LfuVictims == Spec => LfuEvictsLeastUsed
<1>1. Agreed /\ Counting /\ [Next]_vars =>
         [policy = Lfu =>
            \A gone \in PushedOut, k \in DOMAIN items :
               uses[gone] <= uses[k]]_vars
  <2> SUFFICES ASSUME Agreed, Counting, [Next]_vars, policy = Lfu,
                      NEW gone \in PushedOut, NEW k \in DOMAIN items
               PROVE  uses[gone] <= uses[k]
    OBVIOUS
  <2>1. gone = Head(pol.order) /\ Len(pol.order) > 0 /\ gone \in DOMAIN items
    BY PushedOutEvicted, PutEvictingCounting DEF PushedOut
  <2>2. Range(pol.order) = DOMAIN items /\ pol.order \in Seq(Keys)
    BY LfuKeys DEF PolicyRecords
  <2>3. \A x \in Range(pol.order) : pol.freq[x] \in Int
    BY LfuKeys DEF PolicyRecords
  <2>4. SortedBy(pol.order, pol.freq)
    BY DEF Counting
  <2>5. pol.freq[gone] <= pol.freq[k]
    BY <2>1, <2>2, <2>3, <2>4, TailSorted
  <2> QED
    BY <2>1, <2>5 DEF Counting
<1> QED
  BY <1>1, AlwaysAgreed, CountingInit, CountingStep, PTL DEF Spec, LfuEvictsLeastUsed

=============================================================================
