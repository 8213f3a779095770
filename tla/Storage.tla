------------------------------ MODULE Storage ------------------------------
(***************************************************************************)
(* Storage (src/host/storage.cpp): threads read nodes through one LRU      *)
(* cache of buffers, and fill it from a backend.                           *)
(*                                                                         *)
(* get() is not one step.  TryGet() and Put() hold the cache's mutex, but  *)
(* the buffer that TryGet() finds is copied after the mutex was released,  *)
(* through an iterator into the map: first its data pointer, then its      *)
(* size.  The data pointer is a std::shared_ptr, of two words and a count  *)
(* behind one of them: its copy takes time, and an assignment to it        *)
(* meanwhile leaves the copy undefined.  fetch() runs without the mutex.   *)
(*                                                                         *)
(* A buffer stands for the node and the version of it that the backend had *)
(* when it was fetched.                                                    *)
(***************************************************************************)
EXTENDS CachePolicies

CONSTANTS
    Threads,
    Nids,
    Capacity,      \* cache_size; the constructor of the cache throws at 0
    MaxVersion     \* bound on the changes of a node in the backend

ASSUME CapacityAssumption == Capacity \in Nat \ {0}
ASSUME VersionAssumption == MaxVersion \in Nat
ASSUME NidsAssumption == IsFiniteSet(Nids)

Buffer == [nid : Nids, version : 0 .. MaxVersion]

NoBuffer == [nid |-> "none"]

VARIABLES
    items,      \* _cache: the elements
    pol,        \* _cache: the LRU policy
    backend,    \* the version of each node behind _fetch
    at,         \* where a thread is
    nid,        \* the argument of its get()
    dangling,   \* whether the element that its iterator points to was erased
    raced,      \* whether the data pointer that it is copying was assigned to
    data,       \* the buffer whose data pointer it holds
    size,       \* the buffer whose size it holds
    undefined,  \* why the program is undefined: a thread used an element that
                \* was "erased", or a data pointer that "raced"; else "no"
    since,      \* history: the other nodes that were entered or found in the
                \* cache since a thread found the one that it copies
    before      \* history: the version of its node in the backend when a thread
                \* missed it; 0 after a hit

cache == <<items, pol>>
history == <<since, before>>
local == <<at, nid, dangling, raced, data, size>>
vars == <<items, pol, backend, at, nid, dangling, raced, data, size, undefined,
          since, before>>

Places == {"idle", "found", "copy data", "copy size", "fetch", "put"}

TypeOK ==
    /\ DOMAIN items \subseteq Nids
    /\ items \in [DOMAIN items -> Buffer]
    /\ pol \in [order : Seq(Nids), freq : [Nids -> Nat], finder : SUBSET Nids]
    /\ backend \in [Nids -> 0 .. MaxVersion]
    /\ at \in [Threads -> Places]
    /\ nid \in [Threads -> Nids]
    /\ dangling \in [Threads -> BOOLEAN]
    /\ raced \in [Threads -> BOOLEAN]
    /\ data \in [Threads -> Buffer \cup {NoBuffer}]
    /\ size \in [Threads -> Buffer \cup {NoBuffer}]
    /\ undefined \in {"no", "erased", "raced"}
    /\ since \in [Threads -> SUBSET Nids]
    /\ before \in [Threads -> 0 .. MaxVersion]

Init ==
    /\ items = <<>>
    /\ pol = NoKeys(Nids)
    /\ backend = [n \in Nids |-> 0]
    /\ at = [t \in Threads |-> "idle"]
    /\ nid \in [Threads -> Nids]
    /\ dangling = [t \in Threads |-> FALSE]
    /\ raced = [t \in Threads |-> FALSE]
    /\ data = [t \in Threads |-> NoBuffer]
    /\ size = [t \in Threads |-> NoBuffer]
    /\ undefined = "no"
    /\ since = [t \in Threads |-> {}]
    /\ before = [t \in Threads |-> 0]

-----------------------------------------------------------------------------
(* get(), thread t.                                                         *)

In(t, places) == undefined = "no" /\ at[t] \in places

\* A thread that holds an iterator.
Copying(u) == at[u] \in {"found", "copy data", "copy size"}

\* The history after a step of t that enters or finds n.
Seen(n, t) == [u \in Threads |->
    IF u # t /\ Copying(u) THEN since[u] \cup ({n} \ {nid[u]}) ELSE {}]

\* What TryGet leaves with the thread when it finds n.
Found(t, n) ==
    /\ at' = [at EXCEPT ![t] = "found"]
    /\ nid' = [nid EXCEPT ![t] = n]
    /\ dangling' = [dangling EXCEPT ![t] = FALSE]
    /\ since' = Seen(n, t)
    /\ before' = [before EXCEPT ![t] = 0]
    /\ UNCHANGED <<items, backend, raced, data, size, undefined>>

\* Mutant: a TryGet that does not count as a use.
HitWithoutTouch(t, n) ==
    /\ In(t, {"idle"})
    /\ n \in DOMAIN items
    /\ Found(t, n)
    /\ UNCHANGED pol

\* get(n) begins with TryGet, which finds n ...
Hit(t, n) ==
    /\ In(t, {"idle"})
    /\ n \in DOMAIN items
    /\ pol' = Touch(Lru, pol, n)
    /\ Found(t, n)

\* ... or does not.
Miss(t, n) ==
    /\ In(t, {"idle"})
    /\ n \notin DOMAIN items
    /\ at' = [at EXCEPT ![t] = "fetch"]
    /\ nid' = [nid EXCEPT ![t] = n]
    /\ before' = [before EXCEPT ![t] = backend[n]]
    /\ UNCHANGED <<cache, backend, dangling, raced, data, size, undefined, since>>

\* The copy constructor of NodeBuffer, one member after the other: the data
\* pointer from here ...
BeginCopy(t) ==
    /\ In(t, {"found"})
    /\ ~dangling[t]
    /\ at' = [at EXCEPT ![t] = "copy data"]
    /\ UNCHANGED <<cache, backend, nid, dangling, raced, data, size, undefined,
                   history>>

\* ... to here.  A copy that raced may come out well,
CopyData(t) ==
    /\ In(t, {"copy data"})
    /\ ~dangling[t]
    /\ data' = [data EXCEPT ![t] = items[nid[t]]]
    /\ raced' = [raced EXCEPT ![t] = FALSE]
    /\ at' = [at EXCEPT ![t] = "copy size"]
    /\ UNCHANGED <<cache, backend, nid, dangling, size, undefined, history>>

\* or with the two words of different pointers, or one that was freed.
CopyRaced(t) ==
    /\ In(t, {"copy data"})
    /\ raced[t]
    /\ undefined' = "raced"
    /\ UNCHANGED <<cache, backend, local, history>>

CopySize(t) ==
    /\ In(t, {"copy size"})
    /\ ~dangling[t]
    /\ size' = [size EXCEPT ![t] = items[nid[t]]]
    /\ at' = [at EXCEPT ![t] = "idle"]
    /\ UNCHANGED <<cache, backend, nid, dangling, raced, data, undefined, history>>

\* The element that the iterator points to is gone.
CopyErased(t) ==
    /\ undefined = "no"
    /\ Copying(t)
    /\ dangling[t]
    /\ undefined' = "erased"
    /\ UNCHANGED <<cache, backend, local, history>>

\* What fetch() leaves with the thread.
Fetched(t, buf) ==
    /\ data' = [data EXCEPT ![t] = buf]
    /\ size' = [size EXCEPT ![t] = buf]
    /\ at' = [at EXCEPT ![t] = "put"]
    /\ UNCHANGED <<cache, backend, nid, dangling, raced, undefined, history>>

Current(n) == [nid |-> n, version |-> backend[n]]

\* Mutant: an argument kept in a member that all threads share.
FetchShared(t) ==
    /\ In(t, {"fetch"})
    /\ \E u \in Threads : Fetched(t, Current(nid[u]))

\* Mutant: a result of fetch() that is dropped.
FetchDropped(t) ==
    /\ In(t, {"fetch"})
    /\ Fetched(t, NoBuffer)

\* Mutant: a fetch() that the thread spares when it had the node last.
FetchRemembered(t) ==
    /\ In(t, {"fetch"})
    /\ Fetched(t, IF data[t] # NoBuffer /\ data[t].nid = nid[t]
                  THEN data[t] ELSE Current(nid[t]))

Fetch(t) ==
    /\ In(t, {"fetch"})
    /\ Fetched(t, Current(nid[t]))

\* Mutant: a get() that looks the node up again after the fill.
ReturnsByRetry(t) == at' = [at EXCEPT ![t] = "fetch"]

\* Put is the last thing that a get() that missed does.
Returns(t) == at' = [at EXCEPT ![t] = "idle"]

Filled(t, kept) ==
    /\ items' = [n \in kept \cup {nid[t]} |->
                    IF n = nid[t] THEN data[t] ELSE items[n]]
    /\ since' = Seen(nid[t], t)
    /\ Returns(t)
    /\ UNCHANGED <<backend, nid, data, size, undefined, before>>

\* Put of a node that another thread entered in the meantime updates it.  The
\* assignment is one step: a copy overlaps it when it began before and ends after.
PutUpdate(t) ==
    /\ In(t, {"put"})
    /\ nid[t] \in DOMAIN items
    /\ pol' = Touch(Lru, pol, nid[t])
    /\ Filled(t, DOMAIN items)
    /\ raced' = [u \in Threads |->
          raced[u] \/ (at[u] = "copy data" /\ nid[u] = nid[t])]
    /\ UNCHANGED dangling

\* Mutant: a Put that never makes room.
PutNewUnbounded(t) ==
    /\ In(t, {"put"})
    /\ nid[t] \notin DOMAIN items
    /\ pol' = Insert(Lru, pol, nid[t])
    /\ Filled(t, DOMAIN items)
    /\ UNCHANGED <<dangling, raced>>

PutNew(t) ==
    /\ In(t, {"put"})
    /\ nid[t] \notin DOMAIN items
    /\ Cardinality(DOMAIN items) + 1 <= Capacity
    /\ pol' = Insert(Lru, pol, nid[t])
    /\ Filled(t, DOMAIN items)
    /\ UNCHANGED <<dangling, raced>>

\* An eviction, of the element that the list names.
Evicts(t, victim) ==
    /\ Filled(t, DOMAIN items \ {victim})
    /\ dangling' = [u \in Threads |->
          dangling[u] \/ (Copying(u) /\ nid[u] = victim)]
    /\ UNCHANGED raced

\* Mutant: an eviction that the policy is not told of.
PutEvictingUntold(t) ==
    /\ In(t, {"put"})
    /\ nid[t] \notin DOMAIN items
    /\ Cardinality(DOMAIN items) + 1 > Capacity
    /\ pol' = Insert(Lru, pol, nid[t])
    /\ Evicts(t, Head(pol.order))

PutEvicting(t) ==
    /\ In(t, {"put"})
    /\ nid[t] \notin DOMAIN items
    /\ Cardinality(DOMAIN items) + 1 > Capacity
    /\ LET victim == Head(pol.order)
       IN  /\ pol' = Insert(Lru, Erase(Lru, pol, victim), nid[t])
           /\ Evicts(t, victim)

-----------------------------------------------------------------------------

\* The graph behind _fetch changes.
BackendChanges(n) ==
    /\ undefined = "no"
    /\ backend[n] < MaxVersion
    /\ backend' = [backend EXCEPT ![n] = @ + 1]
    /\ UNCHANGED <<cache, local, undefined, history>>

Call(t) == \E n \in Nids : Hit(t, n) \/ Miss(t, n)

Run(t) ==
    \/ BeginCopy(t)
    \/ CopyData(t)
    \/ CopyRaced(t)
    \/ CopySize(t)
    \/ CopyErased(t)
    \/ Fetch(t)
    \/ PutUpdate(t)
    \/ PutNew(t)
    \/ PutEvicting(t)

Next ==
    \/ \E t \in Threads : Call(t) \/ Run(t)
    \/ \E n \in Nids : BackendChanges(n)

Spec == Init /\ [][Next]_vars

\* A thread inside get() runs on, the backend answers, and the mutex is granted.
FairSpec == Spec /\ \A t \in Threads : WF_vars(Run(t))

-----------------------------------------------------------------------------
(* Properties.                                                              *)

\* The cache is used within its contract: its policy and its map agree.
PolicyTracksItems ==
    /\ Range(pol.order) = DOMAIN items
    /\ IsInjective(pol.order)
    /\ pol.finder = DOMAIN items

\* The iterator that a thread copies through dangles only when, between TryGet
\* and the copy, at least Capacity other nodes were used.
DanglingNeedsManyOthers ==
    \A t \in Threads :
        Copying(t) /\ dangling[t] => Cardinality(since[t]) >= Capacity

\* What get() works with, and what it returned last, is of the node that was
\* asked for, in a version that the backend has had; and when it was fetched,
\* in one that is no older than the call.
Genuine ==
    \A t \in Threads : \A b \in {data[t], size[t]} :
        at[t] \in {"put", "idle"} /\ b # NoBuffer =>
            /\ b.nid = nid[t]
            /\ before[t] <= b.version /\ b.version <= backend[b.nid]

\* A Put may overwrite a newer buffer with an older one, but only that of a get()
\* which missed the node before the newer version came to be: calls that do not
\* overlap leave no older buffer behind.
OlderOnlyByOverlap ==
    [][\A n \in DOMAIN items \cap DOMAIN items' :
          items'[n].version < items[n].version =>
              \E t \in Threads : /\ at[t] = "put" /\ nid[t] = n
                                 /\ before[t] < items[n].version]_vars

\* The cache that the threads share is a bounded cache.
Bounded == INSTANCE BoundedCache WITH Keys <- Nids, Values <- Buffer

IsBoundedCache == Bounded!Spec

\* Every get() returns, unless a thread copies what is undefined.
GetReturns ==
    \A t \in Threads : at[t] # "idle" ~> at[t] = "idle" \/ undefined # "no"

\* No thread reads an element that was erased after TryGet returned it.
NoDanglingRead == undefined # "erased"

\* The copy of a buffer takes its data and its size from the same buffer.
CopiesAreWhole == \A t \in Threads : at[t] = "idle" => data[t] = size[t]

=============================================================================
