-------------------------- MODULE FixedSizedCache --------------------------
(***************************************************************************)
(* fixed_sized_cache (include/caches/cache.hpp): a map of at most Capacity *)
(* elements and a policy that chooses which one makes room.  Every public  *)
(* method holds the cache's mutex from beginning to end, so a method is    *)
(* one step.                                                               *)
(*                                                                         *)
(* The map and the policy are two structures with no link but the keys.    *)
(* When they disagree, a method dereferences an iterator that points       *)
(* nowhere: "undefined" is set and nothing is said of what follows.        *)
(***************************************************************************)
EXTENDS CachePolicies

CONSTANTS
    Keys,
    Values,
    Capacity,    \* max_size; the constructor throws when it is 0
    Policies,    \* the policies that a cache is built with
    MaxOps       \* bound on the number of calls

ASSUME CapacityAssumption == Capacity \in Nat \ {0}
ASSUME PoliciesAssumption == Policies \subseteq PolicyNames
ASSUME MaxOpsAssumption == MaxOps \in Nat

VARIABLES
    policy,      \* the Policy template argument
    items,       \* cache_items_map
    pol,         \* cache_policy
    undefined,   \* whether a method went through an invalid iterator
    skewed,      \* history: whether Remove was called under a policy whose
                 \* Erase ignores its key
    clock,       \* history: calls made so far
    lastUse,     \* history: when a key was last inserted, updated or found
    insertedAt,  \* history: when a key last entered the cache
    uses         \* history: inserts, updates and finds since it entered

stamps == <<lastUse, insertedAt, uses>>
vars == <<policy, items, pol, undefined, skewed, clock, lastUse, insertedAt, uses>>

Size == Cardinality(DOMAIN items)

TypeOK ==
    /\ policy \in Policies
    /\ DOMAIN items \subseteq Keys
    /\ items \in [DOMAIN items -> Values]
    /\ pol \in [order : Seq(Keys), freq : [Keys -> Nat], finder : SUBSET Keys]
    /\ undefined \in BOOLEAN
    /\ skewed \in BOOLEAN
    /\ clock \in Nat
    /\ lastUse \in [Keys -> Nat]
    /\ insertedAt \in [Keys -> Nat]
    /\ uses \in [Keys -> Nat]

Init ==
    /\ policy \in Policies
    /\ items = <<>>
    /\ pol = NoKeys(Keys)
    /\ undefined = FALSE
    /\ skewed = FALSE
    /\ clock = 0
    /\ lastUse = [k \in Keys |-> 0]
    /\ insertedAt = [k \in Keys |-> 0]
    /\ uses = [k \in Keys |-> 0]

-----------------------------------------------------------------------------

Call ==
    /\ ~undefined
    /\ clock < MaxOps
    /\ clock' = clock + 1
    /\ UNCHANGED policy

With(k, v) == [j \in DOMAIN items \cup {k} |-> IF j = k THEN v ELSE items[j]]

Undefined ==
    /\ undefined' = TRUE
    /\ UNCHANGED <<items, pol, skewed, stamps>>

Used(k) ==
    /\ lastUse' = [lastUse EXCEPT ![k] = clock']
    /\ uses' = [uses EXCEPT ![k] = @ + 1]
    /\ UNCHANGED <<insertedAt, undefined, skewed>>

Entered(k) ==
    /\ lastUse' = [lastUse EXCEPT ![k] = clock']
    /\ insertedAt' = [insertedAt EXCEPT ![k] = clock']
    /\ uses' = [uses EXCEPT ![k] = 1]
    /\ UNCHANGED <<undefined, skewed>>

\* Mutant: the comparison that keeps one element fewer.
HasRoomTooStrict == Size + 1 < Capacity

\* Mutant: the comparison without its + 1.
HasRoomOffByOne == Size <= Capacity

\* The test of Put: one more element fits.
HasRoom == Size + 1 <= Capacity

\* Put of a new key into a cache with room.
PutNew(k, v) ==
    /\ Call
    /\ k \notin DOMAIN items
    /\ HasRoom
    /\ pol' = Insert(policy, pol, k)
    /\ items' = With(k, v)
    /\ Entered(k)

\* Put of a new key into a full cache erases the policy's candidate first.
PutEvicting(k, v, victim) ==
    /\ Call
    /\ k \notin DOMAIN items
    /\ ~HasRoom
    /\ victim \in Candidates(policy, pol)
    /\ victim \in DOMAIN items
    /\ pol' = Insert(policy, Erase(policy, pol, victim), k)
    /\ items' = [j \in (DOMAIN items \ {victim}) \cup {k} |->
                    IF j = k THEN v ELSE items[j]]
    /\ Entered(k)

\* The policy's candidate is a key that the map does not hold.
PutUndefined(k) ==
    /\ Call
    /\ k \notin DOMAIN items
    /\ ~HasRoom
    /\ \E victim \in Candidates(policy, pol) : victim \notin DOMAIN items
    /\ Undefined

\* Put of a key that is there updates it.
PutUpdate(k, v) ==
    /\ Call
    /\ k \in DOMAIN items
    /\ TouchDefined(policy, pol, k)
    /\ pol' = Touch(policy, pol, k)
    /\ items' = With(k, v)
    /\ Used(k)

\* TryGet and Get: the same step, whether a miss is answered or thrown.
Lookup(k) ==
    /\ Call
    /\ \/ /\ k \in DOMAIN items
          /\ TouchDefined(policy, pol, k)
          /\ pol' = Touch(policy, pol, k)
          /\ UNCHANGED items
          /\ Used(k)
       \/ /\ k \notin DOMAIN items
          /\ UNCHANGED <<items, pol, undefined, skewed, stamps>>

\* Update and lookup of a key that the policy cannot find.
UseUndefined(k) ==
    /\ Call
    /\ k \in DOMAIN items
    /\ ~TouchDefined(policy, pol, k)
    /\ Undefined

RemoveKey(k) ==
    /\ Call
    /\ k \in DOMAIN items
    /\ pol' = Erase(policy, pol, k)
    /\ items' = [j \in DOMAIN items \ {k} |-> items[j]]
    /\ skewed' = (skewed \/ policy \notin ErasesByKey)
    /\ UNCHANGED <<undefined, stamps>>

Next ==
    \E k \in Keys :
        \/ \E v \in Values : PutNew(k, v) \/ PutUpdate(k, v)
        \/ \E v \in Values, victim \in Keys : PutEvicting(k, v, victim)
        \/ Lookup(k)
        \/ RemoveKey(k)
        \/ PutUndefined(k)
        \/ UseUndefined(k)

Spec == Init /\ [][Next]_vars

-----------------------------------------------------------------------------
(* Properties.                                                              *)

\* The map and the policy hold the same keys, each of them once, so that every
\* candidate can be erased and every key that is found can be touched.
PolicyTracksItems ==
    /\ Range(pol.order) = DOMAIN items
    /\ IsInjective(pol.order)
    /\ policy = Lru => pol.finder = DOMAIN items
    /\ ~undefined

\* They do as long as no element is removed from a cache whose policy gives up
\* its own candidate instead.  (Storage, the one user in this repository, has
\* an LRU cache and never calls Remove.)
TracksUnlessRemoved == ~skewed => PolicyTracksItems

\* A cache never holds more than Capacity elements.
WithinCapacity == Size <= Capacity

\* The keys that a step pushes out to let a new one in.
PushedOut ==
    IF DOMAIN items' \subseteq DOMAIN items THEN {}
    ELSE DOMAIN items \ DOMAIN items'

\* The LRU policy gives up the key whose last insert, update or find is oldest.
LruEvictsLeastRecent ==
    [][policy = Lru /\ ~skewed =>
         \A gone \in PushedOut, k \in DOMAIN items :
            lastUse[gone] <= lastUse[k]]_vars

\* The FIFO policy gives up the key that entered first, used since or not.
FifoEvictsOldest ==
    [][policy = Fifo /\ ~skewed =>
         \A gone \in PushedOut, k \in DOMAIN items :
            insertedAt[gone] <= insertedAt[k]]_vars

\* The LFU policy gives up a key that no other key was used less often than.
LfuEvictsLeastUsed ==
    [][policy = Lfu =>
         \A gone \in PushedOut, k \in DOMAIN items :
            uses[gone] <= uses[k]]_vars

\* Up to the first use of an invalid iterator, the cache is a bounded cache.
Bounded == INSTANCE BoundedCache

IsBoundedCache == Bounded!Spec

=============================================================================
