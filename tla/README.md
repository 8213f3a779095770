# A TLA+ verification of staratlas-gs

staratlas-gs samples subgraphs. A host program gives a `SchedulerBlock` a start node; the
block visits nodes in the order of a scheduling queue, and for every node calls `filter()` of a
user program that runs in a WASM container. `filter()` says whether the node belongs to the
sample, and calls back into the block to queue the neighbours that it wants to visit. Node
records come from a `Storage`, a cache in front of a backend.

The modules in this directory model that program. TLC checks them on small instances. TLAPS
proves theorems about the scheduling block, the cache, the storage, the container, the
sampling programs and the shape of their samples, for all values of their constants. Paths below are relative to the root of
the repository.

## 1. Inventory

| Component | State | Operations | Interacts with |
|---|---|---|---|
| `SchedulerQueue` (`src/host/schedulerq.cpp`) | one of `std::queue`, `std::stack`, `std::priority_queue` | push, pop, empty, clear, init_queue | owned by a block |
| `SchedulerBlock` (`src/host/schedulerb.cpp`) | queue, `_distinct`, `_selected`, container | initialize, push, clear, poll, join, finish, sample, selected | calls the guest; the guest calls `select_node`, `extend_node`, `get_node`, `clk_m`, `console_log` |
| `Runtime` (`src/host/runtime.cpp`) | engine, store, linker, instance, exported functions and memory | open, import_func, instantiate, filter, finish, malloc, free, interrupt | wasmtime |
| guest library (`src/wasm/libwrt.cpp`, `include/wasm/*`) | the parameter array of a call, the buffers that the guest owns | packs arguments, receives the reply of `get_node`, frees buffers | host functions |
| `fixed_sized_cache` (`include/caches/cache.hpp`) | map, policy, mutex | Put, TryGet, Get, Cached, Size, Remove | a policy |
| cache policies (`include/caches/*_policy.hpp`) | list, map or multimap of keys | Insert, Touch, Erase, ReplCandidate | called under the cache's mutex |
| `Storage` (`src/host/storage.cpp`) | LRU cache, fetch callback | get | threads of several blocks |
| sampling programs, wapp (`udf/*.cpp`) | globals of the guest | filter, finish | extend_node, get_node, clk_m |
| random graph (`include/rand_graph.hpp`) | `idatas`, `odatas` | gen_random_graph | fills the storage of a driver |
| test drivers (`test`) | none | generate, initialize, sample | block, storage |
| span, flatbuffers, generated code | | | |

What is hard in it, and what makes each part correct:

* **Callbacks in the middle of a call.** `poll()` pops a node, calls the guest, and asks afterwards
  whether the queue is empty; between the two the guest changes the queue. Correct is: every node
  that was offered is visited, once when `distinct` is on, in the order the queue type promises.
* **State in two places.** What was visited is recorded by the block (`_distinct`, `_selected`) and
  by the guest (its globals). `clear()` resets the one, `finish()` the other. Correct is: a sample
  starts with both reset.
* **Termination.** `join()` loops until a queue is empty that its own body fills. Correct is: it ends,
  by `distinct` or by what the program counts.
* **Failure.** A trap of the guest in `filter()` counts as "not selected"; in `finish()` and in the
  constructors it is logged and dropped; `instantiate()` fails at any of twelve stages, and
  `initialize()` then leaves the block without a container. An export of another kind makes `std::get` throw, and the
  half-loaded container stays. Correct is: after a failure that was returned nothing goes through a
  member that is not set, and what a trap leaves behind is bounded.
* **Two memories.** Host and guest pass arguments as 64-bit words in an array of the guest, whose
  pointers and sizes are 32 bits wide; the reply of `get_node` comes back in the same array, in a
  memory that may move while the host holds a pointer into it. A buffer is allocated by the host and freed
  by the guest. Correct is: what was packed is what is unpacked, and each buffer has one owner.
* **Two structures that must agree.** The cache has a map and a policy with nothing but the keys in
  common. Correct is: the same keys in both, at most `max_size`, and the victim that the policy
  promises.
* **Threads.** `TryGet` and `Put` lock; `Storage::get` reads through an iterator after the lock was
  released, and fetches without it. Correct is: a get returns an untorn buffer of the node asked for, and calls that do
  not overlap leave no older buffer in the cache.
* **Programs.** Each program bounds its sample by counters that survive a call. Correct is: full and
  connected samples inside the radius, also for the second sample.
* **Graphs.** An edge is entered twice, in two builders. Correct is: each list is the reverse of the
  other.

`PROJECT.json` lists the components with what is and is not modelled, and the hazards line by line.

## 2. Modules

```
SchedulerQueue -- SchedulerBlock --+-- MCSchedulerBlock
                                   +-- Container -------- MCContainer
                                   +-- Samplers --+------ MCSamplers
                                                  +-- RandomGraph -- MCRandomGraph
CachePolicies --+-- FixedSizedCache -- MCFixedSizedCache
                +-- Storage ---------- MCStorage

proofs:  SequenceLemmas --+-- SchedulerBlock_proofs --+-- Container_proofs
                          |                           +-- Samplers_proofs -- SampleShapes_proofs
                          +-- CachePolicies_proofs --+-- FixedSizedCache_proofs
                                                     +-- Storage_proofs

refinements:  FixedSizedCache and the cache inside Storage implement BoundedCache;
              Container implements SchedulerBlock, and so do Samplers and RandomGraph
```

**SchedulerQueue.** All three containers are the sequence of their entries in delivery order; they
differ in the position that `push` gives to a new entry (`Place`). For the priority queue that is
behind all entries that outrank it, larger priority first and larger id first among equals, which is
the order of `std::pair<f64, nid_t>`. Priorities are integers: of a floating-point number only its
place in the order matters. NaN is left out.

**SchedulerBlock.** Variables `Q`, `distinct`, `selected`, `wasm` are the members of the class;
`type` and `dedup` are what the constructor was given; `method`, `at`, `cur`, `pending`, `calls` are
the control state of the one thread that drives a block: which public method runs, whether it is in
`poll`, in `filter`, in `finish` or in the constructors, which node is being filtered, and what the
loop of `extend_node` has left to push. `visited` and `guestSeen` are history: the nodes given to
`filter()` since the last clear, and since the guest was last reset.

| Action | Code |
|---|---|
| `Initialize`, `InitializeThrows`, `Initialized` | `initialize`, which succeeds, fails or is left by an exception, and the return of the constructors that `instantiate` runs last |
| `Push`, `Clear` | `push`, `clear` |
| `Enter`, `EnterSample` | entry of `poll`, `join`, `finish`; `clear(); push(s, p)` of `sample` |
| `PollIdle`, `PollPop`, `FilterReturn` | the branches of `poll`: nothing to do; pop and call the guest; the rest after the guest returned |
| `SelectNode`, `ExtendNode`, `ExtendStep` | the host functions; `ExtendStep` is one turn of the loop |
| `Finish` | `finish()` of the guest and what `join`, `finish`, `sample` do after it |

`Api` says which methods the owner calls, and whether it catches what `initialize` throws and goes on ("catch"): the runs that hold
have an owner that does, the traces of the violated ones do without.

The guest is arbitrary: it makes any calls with any of the given spans and returns anything. A trap is
covered by that (`filter` FALSE; `finish` by `FinishOutcomes`).

**Container.** Extends SchedulerBlock by what lies between the block and its guest. `Initialize(ok)`
of the block, one step with two outcomes, is here `Open`, a `Load` for each of the twelve `Stages`, any
of which may be `LoadFails`, and `CallCtors`. At a stage that looks for an export, `LoadThrows` is the exception of `std::get` on an
export of another kind: it passes by `release()`, and a caller that catches it has a block whose container lacks members. A host call of the block is here a sequence: the guest packs
its arguments into a parameter array that holds garbage (`Import`), the host pulls them in the types that it
names (`Pulled`) and acts, and for `get_node` the guest pulls the reply out of the same array (`Receive`).
Words keep their widths: `Size` is cut at `SizeLimit` (2^32 in the code), `Nid` at `WordLimit` (2^64).

| Action | Code |
|---|---|
| `Open`, `Load`, `LoadFails`, `LoadThrows`, `CallCtors` | `initialize` up to `instantiate`; the stages of `Runtime::instantiate`; its error paths with `release()`; `std::get` that throws (`runtime.cpp:188` to `255`); `call_ctors` |
| `StartCallsHost` | a module's start function, which wasmtime runs inside `linker.instantiate`, calls an import |
| `CallHost` (`Import`) | `libwrt.cpp`: `console_log`, `get_node`, `select_node`, both `extend_node`, `clk_m`, with `wasm_funcall_push` |
| `HostLog`, `HostSelect`, `HostExtend`, `HostClock`, `HostGetNode` | the five imports of `initialize`, with `wasm_funcall_pull` and `memory_data` |
| `Receive`, `Destroy` | the end of `wasm::get_node`; `~DataBuffer` |
| `Malloc` | `Runtime::malloc`, with every way in which it may fail |
| `CallFilter`, `FinishThroughNull`, `GuestReturns`, `GuestTraps` | `Runtime::filter`, `Runtime::finish` and the constructors, with the traps that they drop, and what comes of members that are not set |
| `BlockAlone`, `ContainerOwner` | steps of the block without a container, or without a part of it |

The guest's `malloc` works on a heap that it shares with the guest's own allocations. A record takes one block, one to a
page, at any page without a record; the memory may grow, by any number of pages up to its limit, whether
the call succeeds or not; and `malloc` may fail at any time, for want of room or by a trap. A returning guest function
may keep its buffers, as a `DataBuffer` that was moved into a global does. `undefined` says that the code has gone through a null pointer, or
through one into memory that has moved; the model then stops, since nothing can be said of what follows.

**CachePolicies, FixedSizedCache.** A policy is a record of what it remembers of the keys; `Insert`,
`Touch` and `Erase` are functions of the record, one per policy, and the cache calls them through a case
distinction that stands for the virtual call. A method of the cache holds the mutex throughout and
is one action. Where the code would dereference an iterator to nothing, `undefined` is set and the
cache stops. `LRUCachePolicy::Erase` and `FIFOCachePolicy::Erase` drop the candidate whichever key they
get, and so does the model. Time stamps and counts are history.

**BoundedCache.** What a user relies on: a key that was put is there with its value; elements leave by
Remove, or one at a time when a new key enters a full cache.

**Storage.** Threads in `get()`: `Hit` or `Miss` is `TryGet`; after a hit `BeginCopy`, `CopyData` and `CopySize` copy
the two members of the buffer through the iterator, without the mutex; after a miss `Fetch` asks the
backend and one of the `Put` actions enters the result. A buffer stands for a node and a version of it;
`BackendChanges` is external. `dangling[t]` says that the element of t's iterator was erased. The data pointer is a
`std::shared_ptr`: its copy lies between `BeginCopy` and `CopyData`, and a `PutUpdate` of the node in that interval sets `raced[t]`.
A copy that raced comes out well or is undefined (`CopyRaced`), as is a copy of an erased element (`CopyErased`); the
model then stops. The assignment itself is one step under the mutex: each overlap of it with the copy of the pointer
is an interleaving in which it falls into that interval. Erasing is all that makes an iterator dangle: a rehash invalidates it by the letter of
the standard, but leaves the nodes of a `std::unordered_map`, to which it points, in their place. History: `since[t]`, the other nodes used since t's hit, and
`before[t]`, the version that the backend had of the node that t missed.

**Samplers.** Extends SchedulerBlock, replaces its arbitrary guest by `udf/layer_wise.cpp`,
`udf/node_wise.cpp`, `udf/subgraph_wise.cpp` or `udf/wapp.cpp`, and adds the globals of the
guest. `filter()` computes, extends and returns: `FilterLayer`, `FilterNode`, `FilterSubgraph` and
`FilterData` are the part up to the call of `extend_node`, the block runs the extension, and `Return` hands
over the verdict. `max_depth` is `MaxDepth`; `K` gives each program its constant `K`. Random priorities and
shuffles are any choice. wapp reads a node and prints it: it extends nothing, and the text is left out.

**RandomGraph.** `gen_random_graph` edge by edge (`AddEdge`), for any outcome of the random engine, and then
the programs on the `idata` that it leaves, in the order of the drivers' calls: generate, initialize, sample.

## 3. Runs

| Run | Question | Result |
|---|---|---|
| `block_api` | any owner, any guest, all types, `distinct` on and off: order, uniqueness, no loss | holds |
| `block_calls` | an owner that does not call `poll()`: fresh samples, and every call returns | holds |
| `block_sample_after_poll` | the same with `poll()`: is `sample()` stateless, as `scheduler.hh:144` says? | **violated** |
| `container` | any failure of `instantiate`, returned or thrown, any guest calls, buffers and traps: pointers, buffers, leaks, arguments, fresh samples, refinement of SchedulerBlock, every call returns | holds |
| `container_clock` | is `clk_m` a clock, as `libwrt.hh:56` says? | **violated** |
| `cache` | all policies: agreement of map and policy, capacity, victims, refinement of BoundedCache | holds |
| `cache_remove` | agreement of map and policy after Remove under LRU and FIFO | **violated** |
| `storage` | two threads: genuine results, no older buffer left by calls that do not overlap, consistent cache, refinement, when an iterator can dangle, every get returns | holds |
| `storage_dangling` | is the iterator of `TryGet` usable, as `cache.hpp:93` says? | **violated** |
| `storage_torn` | is a buffer copied safely between threads, as `buffer.hh:22` says? | **violated** |
| `samplers` | four programs on generated graphs, all queue types, consecutive samples: full, connected, in the radius, layers linked, ends; edges mirrored | holds |
| `samplers_sst` | is `sst` the length of a shortest path, as `node_wise.cpp:12` says? | **violated** |

What the violations show:

* `block_sample_after_poll`: initialize, push, poll, then sample. `clear()` inside `sample()` does not reset
  the container, so `vis`, `layer_count` or `node_count` of the abandoned sample are still there.
* `container_clock`: the closure of `clk_m` captures the local variable `start` of `initialize()` by reference
  (`schedulerb.cpp:158`). Only a call from the constructors finds it alive; in `filter()` it is gone, and the
  time that is returned is arbitrary. The programs use it as a seed, so no sample becomes wrong by it.
* `cache_remove`: put 1, put 2, remove 2. The policy drops 1, the map drops 2. A later lookup of 1 goes through
  a null iterator, a later eviction of 2 erases `end()`. `Storage` has an LRU cache and never calls Remove,
  so the repository itself does not reach this; `TracksUnlessRemoved` in `cache` is the positive half.
* `storage_dangling`: one thread hits a node, and before it has copied the buffer another thread misses
  enough other nodes to evict it. `DanglingNeedsManyOthers` in `storage` bounds this: since the hit, at least
  `Capacity` different other nodes must have been used (1024 by default).
* `storage_torn`: two threads miss a node, one puts its buffer, a third access hits and copies the data
  pointer, the second put assigns the buffer of another version, then the size is copied. When the assignment comes
  while the pointer is copied, the outcome may be worse (`CopyRaced`): one word of each pointer, or one that was freed.
* `samplers_sst`: the start node samples 2 and 3 of its neighbours, 2 samples 4 (`sst` 2), the start is visited
  again and samples 4 directly. `sst` of 4 stays 2. It does not break the radius (`WithinRadius`): `sst` is an
  upper bound of the distance.

Two positive results say how far container and storage can be trusted. `UndefinedOnlyBy`: a null pointer is used only when a start
function calls an import, or when an exception has left `initialize()` and the block is used all the same; a failure that
`initialize()` returns leaves nothing to call. A moved pointer is used only when fewer pages were asked for than the
memory may have (by default all of them are). `OlderOnlyByOverlap`: two threads that miss a node
at the same time may leave the older of their buffers in the cache, but a call that began after a version came to be never
replaces that version by an older one.

What an empty buffer means is not among them: `get_node` gives one for a node without record, and whenever the guest's
`malloc` fails, which it may do at any time. No program tests for it.

The modules contain operators marked "Mutant": wrong versions of the definition that follows them, each
a mistake that could be made in that code. No action uses them. Put in the place of the right one, each
makes TLC find the property violated that `PROJECT.json` names with it, so every property of a
passing run is known to be able to fail.

### Bounds and why they are enough

* Block: 3 nodes, priorities 0 and 1, an owner-supplied type outside the enum (0), one host call per guest
  function, spans of at most two nodes with repetitions and with overlaps, priority spans shorter and longer
  than the node span. Three nodes let one be visited, one queued and one offered again; two priorities
  give ties and inversions. `MaxVisits` bounds only blocks with `distinct` off, where nothing else would
  bound an arbitrary guest. `block_calls` has `distinct` on, and no bound.
* Container: two host calls per guest function and two buffers at a time (one is held while another is asked for), one trap per
  container, 1 or 2 pages asked for with a limit of 2 and modules that start with 1, so that the memory grows, or is full already.
  `SizeLimit` is 8 and `WordLimit` 16: node 9 cut to the width of a size would be node 1, and garbage
  (15) is no size. Node 9 has a record, node 1 has none. A new container resets `traps`.
  `MaxCalls` stands for "a guest function does not call for ever".
* Cache: 4 keys, capacity 3, 6 calls: fill, touch so that the order changes, evict. `MaxOps` bounds the stamps.
* Storage: 2 threads, 3 nodes, capacity 2, 2 versions. A third node forces eviction while the other
  thread copies; two versions tell an older buffer from a newer one.
* Samplers: 5 nodes, K = 2 (3 for subgraph_wise, so that the nearest nodes are not just any neighbours),
  MaxDepth = 3 (as in the code), and two outcomes of the random engine with two edges per node: one in which layers overflow,
  with cycles and a loop; one path longer than the depth with edges back, parallel edges and a node that no edge leads to.
  `samplers_sst` has a graph of its own, with a shortcut. No counter is bounded: no sample reaches `MaxVisits`, since `SampleReturns`
  would fail if it stopped one.

`CHECK_DEADLOCK FALSE` is set for the cache (`MaxOps`), storage and container models, which stop when something
undefined has happened.

### Fairness

`FairSpec` of SchedulerBlock, `SamplerFairSpec`, `RandomFairSpec` and `ContainerFairSpec` are weakly fair to the steps of a
call in progress: a thread that is inside a method runs on, a stage of `instantiate()` ends, and a guest
function returns after its host calls (the container has no other blocking operation). Nothing obliges the owner to call a
method. `FairSpec` of Storage is weakly fair to each thread inside `get()`: the mutex is held for
bounded sections and the backend answers.

## 4. Proofs

Every theorem rests on the named assumptions of its component's constants alone (nodes are natural
numbers and, for the programs, finitely many, since an id has 64 bits; spans are sequences of them; a container has fewer
pages than a size can name, and so on); TLC evaluates them in the runs. They hold for every set of nodes, every graph,
number of threads, capacity and guest. The four theorems that add a hypothesis of their own
(`SamplesStartFresh`, `StaleNeedsTrap`, `ProgramsAreGuests`, `ProgramsKeepOrder`) name it. Each invariant and each
action property of a passing run is stated by a theorem.

**The block** (`SchedulerBlock_proofs`, which starts with lemmas about the queue):

| Theorem | Says | Argument |
|---|---|---|
| `TypeCorrect` | `TypeOK` | inductive; the queue stays a sequence of entries because `Place` lies between 1 and the length plus 1 |
| `NothingIsLost` | with `distinct` on, `distinct` is the set of the visited and queued nodes | `Accounted`: the equation, injectivity of the schedule and disjointness of visited and queued nodes are inductive together; a push adds one node on both sides, a pop moves one |
| `VisitsAreUnique` | no node is visited twice | corollary of `Accounted`; alone it is not inductive, since a queued node could have been visited |
| `SchedulesFit` | with `distinct` on, as many nodes are in the set as were visited or are queued: neither outgrows the graph, and as each turn of `join()` makes a visit, it has no more turns than there are nodes | `Accounted` makes the two disjoint and without repetition; their sizes add up. It is the safety half of `CallsReturn` |
| `FifoOrder` | the schedule of a FIFO block grows at its end | a FIFO push appends, and visited \o queue is unchanged by a pop |
| `PrioOrder` | a PRIO block visits what nothing outranks | `PrioInOrder`: the queue is sorted by `Outranks`; insertion at `Place` keeps it, for which `Outranks` must be a total order and the entries above the new one an initial segment |
| `SamplesStartFresh` | without `poll` and with a `finish()` that does not trap, a sample starts with a reset guest | `Forgetful`: the guest remembers nothing when the block is idle, and only visited nodes inside a call |

**The cache** (`FixedSizedCache_proofs`, with lemmas about the policies in `CachePolicies_proofs`):

| Theorem | Says | Argument |
|---|---|---|
| `CacheTypeCorrect` | `TypeOK` | inductive |
| `PolicyTracks`, `CapacityHolds` | same keys in map and policy, at most `max_size`, unless Remove was called under LRU or FIFO | `Agreed`: the policy remembers each key of the map once, and an LRU finder names only keys of its list; what Insert, Touch and Erase do to the set of keys is one lemma each for all policies |
| `CacheIsBounded` | refinement of BoundedCache | each step maps to a step or a stutter, with `Agreed` for the case of a full cache |
| `LruVictims`, `FifoVictims` | the victim is the least recently used, or the oldest | `Stamped`: the list is sorted by the time of use, or of entry |
| `LfuVictims` | no key was used less often than the victim | `Counting`: the list is sorted by the policy's counts, and the count of each key in the map is the number of its uses since it entered. Touch takes a key out and inserts it behind its new count; the multimap's order survives both (`InsertAtSorted`, `WithoutSorted`) |

**The storage** (`Storage_proofs`):

| Theorem | Says | Argument |
|---|---|---|
| `StorageTypeCorrect`, `StoragePolicyTracks`, `StorageIsBounded` | as for the cache, for any number of threads | `Shared`, which holds between any two critical sections |
| `GetIsGenuine` | a get that returns gives a record that the node asked for has had, and after a miss one no older than the call | `InFlight`: what each thread has fetched or is copying is of its node, and what it has fetched is no older than `before`; the backend only moves on |
| `OlderNeedsOverlap` | an older buffer replaces a newer one only by a call that missed the node before the newer version came to be | only a put changes an element, to what its thread has fetched, which by `InFlight` is no older than `before` |
| `DanglingIsRare` | an iterator dangles only after `Capacity` other nodes were used | `Recency`: the nodes behind the node of a hit in the LRU list have all been used since; it is a victim only when it is the first of a full list |

**The container** (`Container_proofs`):

| Theorem | Says | Argument |
|---|---|---|
| `ContainerTypeCorrect` | `ContainerTypeOK` | inductive; words stay below their limits because every store goes through `Wrap` |
| `HostReadsArguments` | `ArgumentsArrive`: the host unpacks what the guest packed | `CallForms`: the array of a call has one of six forms, each long enough for its arguments, which fit the types that the host pulls |
| `ContainerIsBlock` | refinement of SchedulerBlock | by `ArgumentsArrive` the spans that the host reads are spans of the guest |
| `ContainerKeepsBlock` | `TypeOK`, `VisitedOnce`, `NothingLost`, `ScheduleFits` and both orders of visits inside a container | carried over by the refinement |
| `PointersAreSound` | `UndefinedOnlyBy` | `Control`: a container in use has passed all stages, or an exception has left its `initialize()`; a guest function runs only when it has been exported, and each stage behind it |
| `BuffersSound` | `BuffersAreGenuine` | `Owned`: also a reply on its way owns its block, wherever malloc has put it |
| `LeaksNeedTraps` | lost blocks are counted by traps | `Kept`: blocks without owner are at most `MaxHeld` for each trap, since a return loses no buffer |
| `StaleNeedsTrap` | `StaleOnlyAfterTrap` | `Fresh`: outside of a call the guest remembers something only if `unreset` |

**The programs and the random graph** (`Samplers_proofs`; each theorem holds on any given graph, `SamplerSpec`, and on
generated ones, `RandomSpec`):

| Theorem | Says | Argument |
|---|---|---|
| `ProgramTypeCorrect` | `GuestTypeOK`, among it that `layer_count` is indexed between 0 and `max_depth` | inductive with `TypeOK`; a depth is at most the running node's plus one, and only admitted depths are stored |
| `ProgramsAreGuests` | the programs implement the guest of SchedulerBlock: refinement, on given and on generated graphs | each filter() makes one call that a guest may make, or none; all else are steps of the block, or leave it alone. Hypothesis `AnySpan`: the guest of SchedulerBlock is free, that is, `NidSpans` and `PrioSpans` are all sequences, while a run has to make do with finitely many |
| `ProgramsKeepOrder` | `FifoNeverOvertakes` and `PrioHighestFirst` for the programs | carried over by that refinement, under the same hypothesis |
| `ProgramsVisitOnce` | `VisitedOnce`, `NothingLost` and `ScheduleFits` for the programs | each filter() is a step in which an arbitrary guest extends some entries (`FilterShape`), so `Accounted` carries over although the programs' lists are not among the constant spans |
| `LayersComeFirst` | `QueuedNodesHaveLayers` | `Layered`: `vis` is empty between samples; until the first filter() only the start node is queued; then all that waits has a layer |
| `LayersHang` | `LayersAreLinked` | `Linked`: the property with `cur` counted only once its filter() has decided TRUE. As it stands it is not inductive: the next pop replaces `cur` |
| `GraphsAreMirrored` | `EdgesMirrored` | an edge adds one occurrence to each side |

**The shape of a sample** (`SampleShapes_proofs`; again on given and on generated graphs, with every queue unless it is
named, for every K and depth):

| Theorem | Says | Argument |
|---|---|---|
| `SamplesAreConnected` | `SampleIsConnected` | `OnePiece`: a part of the sample that contains the start node and that no edge leaves is the whole sample. It speaks of no path, so that a step can keep it: a node enters the sample next to one that is in it (`Fetched`), and nothing is left from the sample before (`Between`) |
| `SamplesReachStart` | `SampledReachStart` | the sample is connected along `idata`, and `idata` mirrors `odata` |
| `SamplesStayClose` | `WithinRadius` | `Measured`: each entry of `vis` is an upper bound of the distance, and for node_wise below `max_depth`, whatever the visits were that made it |
| `SubgraphsAreFull` | `SubgraphIsFull` | `Taking`: `node_count` is the number of visits that were decided, and the first K of them are the sample. `Spreading`: the neighbours of what was taken are visited or queued; at the end nothing is queued, so below K the sample is closed under the edges, and all that can be reached is in it |
| `SubgraphsAreNearest` | `SubgraphIsNearest` (FIFO) | `NearestFirst`: along visits and queue the distance never falls. A new neighbour goes to the end, and is at least as far away as all that is there (`NewIsFarther`): if it is within d and the running node within d - 1, then all visits are within d - 1 and what waits next to them within d; if the running node is not, the visits before it have the whole ball of d - 1 (`Frontier`) and were taken, so that their neighbours are not new |
| `LayersFillUp` | `LayersAreFull` | `Filled`: the count of a layer is the number of its nodes that were judged, and the sample has the first K of them; what `vis` knows is judged or still waits |

These properties speak of paths through `Ball`, a recursive function of the radius. What it computes is proved once:
`BallStep` says that a ball is the previous one and what its edges reach, `BallGrows`, `BallWider`, `BallLeast` and
`BallFills` that it grows with the radius and the graph, is inside each closed set, and is closed after as many steps as
there are nodes. The library's induction theorems take an operator as a parameter, which the provers cannot instantiate; an
induction is done here on the set of numbers at which a fact holds (`NumberInduction`, from the least number at which it
fails). An induction of the same kind over an unbounded structure of data is not needed anywhere.

Only model-checked: what holds eventually under fairness (`CallsReturn`, `ContainerCallsReturn`, `SampleReturns`,
`GetReturns`), which is beyond the prover. For `CallsReturn`, `SchedulesFit` has the bound on which it rests.

No module declares a RECURSIVE operator.

## 5. Not modelled, and why

* `Runtime::interrupt`, `free`, `call_dtors`, `set_wasi`, `memory_size` and `instantiate` from a file: nothing in the
  repository calls them.
* What a program does with an empty buffer: it dereferences a null node pointer. The programs of Samplers have a record for
  every node, and enough memory.
* `Cached`, `begin` and `end` of the cache only read. `Clear` runs in its destructor alone. The callback of `Erase` is empty, for nobody
  gives another. The traps in `finish()` and in the constructors are modelled, but what a sample is worth after one of them is not stated.
* NaN priorities: a heap over an order that is not strict weak has no delivery order.
* A node that the backend does not have yet stays cached as empty (`storage.cpp:16`): an empty buffer is one of the
  versions of a node, and there is no expiry to model.
* The container that `release()` gives up without deleting it (`schedulerb.cpp:168`): a leak that no state of the program shows.
* A node offered again with a higher priority keeps its place: what the code does for every guest, and no document says otherwise.
* Texts: `console_log`, the output of wapp and of the drivers, and the reading of the module's file.
* Vendored code (`tcb/span.hpp`) and generated code (`relations_generated.h`, `bindgen/flatbuffers`).

## 6. What could come next

* Several blocks on one storage in one model: the two meet only in `get_node`, which reads, so it asks no question yet that
  SchedulerBlock and Storage do not answer apart.
