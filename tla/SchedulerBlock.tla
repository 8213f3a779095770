--------------------------- MODULE SchedulerBlock ---------------------------
(***************************************************************************)
(* A sampling scheduler (src/host/schedulerb.cpp): a queue of nodes to     *)
(* visit, the optional set that keeps a node from being queued twice, the  *)
(* set of selected nodes, and the WASM container that holds the user's     *)
(* filter() and finish().                                                  *)
(*                                                                         *)
(* One thread drives a block.  Between two public calls it is idle; inside *)
(* a call it may be in the guest, in filter(), in finish() or in its       *)
(* constructors, which call back into the block (select_node, extend_node) *)
(* before they return.  The guest is arbitrary here: the sampling programs *)
(* of udf/ are modelled in modules of their own that fix what it does.     *)
(***************************************************************************)
EXTENDS SchedulerQueue

CONSTANTS
    Nodes,          \* node ids
    Priorities,     \* priorities, 0 (the default argument) among them
    Types,          \* arguments for the constructor's type parameter
    DistinctFlags,  \* arguments for the constructor's distinct parameter
    Api,            \* the public methods that the block's owner calls; and
                    \* "catch" when an exception of initialize() does not end it
    NidSpans,       \* spans of node ids that a guest passes to a host function
    PrioSpans,      \* spans of priorities that a guest passes to extend_node
    FinishOutcomes, \* whether the guest's finish() may return, may trap
    MaxCalls,       \* bound on the host calls made by one guest function
    MaxVisits       \* bound on the visits between two clears, distinct off

ASSUME NodesAssumption == Nodes \subseteq Nat
ASSUME PrioritiesAssumption == Priorities \subseteq Int /\ 0 \in Priorities
ASSUME FlagsAssumption ==
    DistinctFlags \subseteq BOOLEAN /\ FinishOutcomes \subseteq BOOLEAN
ASSUME SpansAssumption ==
    NidSpans \subseteq Seq(Nodes) /\ PrioSpans \subseteq Seq(Priorities)
ASSUME BoundsAssumption == MaxCalls \in Nat /\ MaxVisits \in Nat

Entry == [nid : Nodes, p : Priorities]

VARIABLES
    type,       \* _Q->_type, after init_queue
    dedup,      \* whether _distinct was allocated
    Q,          \* _Q, in delivery order
    distinct,   \* *_distinct
    selected,   \* *_selected
    wasm,       \* whether _wasm holds a container
    method,     \* the public method that is running
    at,         \* where it is
    cur,        \* the node whose filter() runs
    pending,    \* what the loop of extend_node has left to push
    calls,      \* host calls made by the running guest function
    result,     \* what the last sample() returned
    visited,    \* history: nodes given to filter() since the last clear
    guestSeen   \* history: nodes given to filter() since the container was
                \* created or its finish() last returned

config == <<type, dedup>>
store == <<Q, distinct>>
history == <<visited, guestSeen>>
vars == <<type, dedup, Q, distinct, selected, wasm, method, at, cur, pending,
          calls, result, visited, guestSeen>>

Methods == {"none", "initialize", "poll", "join", "finish", "sample"}

TypeOK ==
    /\ type \in QueueTypes
    /\ dedup \in BOOLEAN
    /\ Q \in Seq(Entry)
    /\ distinct \subseteq Nodes
    /\ selected \subseteq Nodes
    /\ wasm \in BOOLEAN
    /\ method \in Methods
    /\ at \in {"idle", "ctors", "poll", "filter", "finish"}
    /\ cur \in Nodes \cup {0} /\ (at = "filter" => cur \in Nodes)
    /\ pending \in Seq(Entry)
    /\ calls \in 0 .. MaxCalls
    /\ result \subseteq Nodes
    /\ visited \in Seq(Nodes)
    /\ guestSeen \subseteq Nodes

Init ==
    /\ type \in {InitQueue(t) : t \in Types}
    /\ dedup \in DistinctFlags
    /\ Q = <<>>
    /\ distinct = {}
    /\ selected = {}
    /\ wasm = FALSE
    /\ method = "none"
    /\ at = "idle"
    /\ cur = 0
    /\ pending = <<>>
    /\ calls = 0
    /\ result = {}
    /\ visited = <<>>
    /\ guestSeen = {}

-----------------------------------------------------------------------------
(* The two helpers that change the queue.                                   *)

\* Mutant: a push that forgets to record the node.
PushUnrecorded(nid, p) ==
    /\ dedup => nid \notin distinct
    /\ Q' = QueuePush(type, Q, nid, p)
    /\ UNCHANGED distinct

\* SchedulerBlock::push
PushNode(nid, p) ==
    \/ /\ dedup => nid \notin distinct
       /\ Q' = QueuePush(type, Q, nid, p)
       /\ distinct' = IF dedup THEN distinct \cup {nid} ELSE distinct
    \/ /\ dedup /\ nid \in distinct
       /\ UNCHANGED store

\* Mutant: a clear that keeps the record of what was queued.
ClearButDistinct ==
    /\ Q' = <<>>
    /\ selected' = {}
    /\ visited' = <<>>
    /\ UNCHANGED distinct

\* SchedulerBlock::clear
ClearAll ==
    /\ Q' = <<>>
    /\ distinct' = {}
    /\ selected' = {}
    /\ visited' = <<>>

\* Bounds the runs in which nothing stops a guest from extending for ever.
RoomFor(n) == dedup \/ Len(visited) + Len(Q) + n <= MaxVisits

-----------------------------------------------------------------------------
(* What the owner of the block calls.                                       *)

Calls(m) == method = "none" /\ m \in Api

\* initialize replaces the container; the queue and the sets stay as they are.
\* When instantiation fails the block is left without a container.  When it
\* succeeds, its last step runs the constructors of the guest.
Initialize(ok) ==
    /\ Calls("initialize")
    /\ wasm' = ok
    /\ method' = IF ok THEN "initialize" ELSE "none"
    /\ at' = IF ok THEN "ctors" ELSE "idle"
    /\ guestSeen' = {}
    /\ UNCHANGED <<config, store, selected, cur, pending, calls, result,
                   visited>>

\* An export of another kind makes std::get throw inside of instantiate(): the
\* exception leaves initialize() before its release(), so the block keeps the
\* container, whose constructors have not run and whose later members are null.
\* What it means to call these is Container's matter.
InitializeThrows ==
    /\ Calls("initialize")
    /\ "catch" \in Api
    /\ wasm' = TRUE
    /\ guestSeen' = {}
    /\ UNCHANGED <<config, store, selected, method, at, cur, pending, calls,
                   result, visited>>

\* The constructors return, or trap, which does not make initialize() fail.
Initialized ==
    /\ at = "ctors"
    /\ pending = <<>>
    /\ method' = "none"
    /\ at' = "idle"
    /\ calls' = 0
    /\ UNCHANGED <<config, store, selected, wasm, cur, pending, result, history>>

Push(nid, p) ==
    /\ Calls("push")
    /\ RoomFor(1)
    /\ PushNode(nid, p)
    /\ UNCHANGED <<config, selected, wasm, method, at, cur, pending, calls,
                   result, history>>

Clear ==
    /\ Calls("clear")
    /\ ClearAll
    /\ UNCHANGED <<config, wasm, method, at, cur, pending, calls, result,
                   guestSeen>>

\* poll, join and finish start without touching the block's data.
Enter(m) ==
    /\ Calls(m)
    /\ method' = m
    /\ at' = IF m = "finish" THEN "finish" ELSE "poll"
    /\ UNCHANGED <<config, store, selected, wasm, cur, pending, calls, result,
                   history>>

\* sample(s, p) starts with clear(); push(s, p).
EnterSample(s, p) ==
    /\ Calls("sample")
    /\ method' = "sample"
    /\ at' = "poll"
    /\ Q' = QueuePush(type, <<>>, s, p)
    /\ distinct' = IF dedup THEN {s} ELSE {}
    /\ selected' = {}
    /\ visited' = <<>>
    /\ UNCHANGED <<config, wasm, cur, pending, calls, result, guestSeen>>

-----------------------------------------------------------------------------
(* The body of poll(), up to the guest and back.                            *)

\* Mutant: a loop that does not look at what poll() returned.
PollReturnsIgnored(more) ==
    /\ at' = IF method = "poll" THEN "idle" ELSE "poll"
    /\ method' = IF method = "poll" THEN "none" ELSE method

\* poll() returns `more`: its caller is the owner, or the loop of join().
PollReturns(more) ==
    \/ /\ method = "poll"
       /\ method' = "none"
       /\ at' = "idle"
    \/ /\ method # "poll"
       /\ at' = IF more THEN "poll" ELSE "finish"
       /\ UNCHANGED method

\* poll() with nothing to do: no container, or an empty queue.
PollIdle ==
    /\ at = "poll"
    /\ ~wasm \/ QueueEmpty(Q)
    /\ PollReturns(FALSE)
    /\ UNCHANGED <<config, store, selected, wasm, cur, pending, calls, result,
                   history>>

\* poll() pops a node and calls the guest's filter().
PollPop ==
    /\ at = "poll"
    /\ wasm /\ ~QueueEmpty(Q)
    /\ cur' = QueueTop(Q)
    /\ Q' = QueuePop(Q)
    /\ at' = "filter"
    /\ visited' = Append(visited, QueueTop(Q))
    /\ guestSeen' = guestSeen \cup {QueueTop(Q)}
    /\ UNCHANGED <<config, distinct, selected, wasm, method, pending, calls,
                   result>>

\* filter() returns, or traps, which Runtime::filter turns into FALSE.
FilterReturn(ok) ==
    /\ at = "filter"
    /\ pending = <<>>
    /\ selected' = IF ok THEN selected \cup {cur} ELSE selected
    /\ PollReturns(~QueueEmpty(Q))
    /\ cur' = 0
    /\ calls' = 0
    /\ UNCHANGED <<config, store, wasm, pending, result, history>>

\* Mutant: a join that does not call the guest's finish().
GuestFinishSkipped == UNCHANGED guestSeen

\* The guest's finish(), which resets its memory; a trap is logged and dropped.
GuestFinish ==
    \/ ~wasm /\ UNCHANGED guestSeen
    \/ /\ wasm
       /\ \E ok \in FinishOutcomes : guestSeen' = IF ok THEN {} ELSE guestSeen

\* The end of join, finish and sample, which takes the selected nodes and clears.
Finish ==
    /\ at = "finish"
    /\ pending = <<>>
    /\ GuestFinish
    /\ \/ /\ method = "sample"
          /\ result' = selected
          /\ ClearAll
       \/ /\ method # "sample"
          /\ UNCHANGED <<store, selected, result, visited>>
    /\ method' = "none"
    /\ at' = "idle"
    /\ calls' = 0
    /\ UNCHANGED <<config, wasm, cur, pending>>

-----------------------------------------------------------------------------
(* Host functions, called by the guest from inside one of its functions.    *)

HostCall ==
    /\ at \in {"ctors", "filter", "finish"} /\ wasm
    /\ pending = <<>>
    /\ calls < MaxCalls
    /\ calls' = calls + 1

SelectNode(nids) ==
    /\ HostCall
    /\ selected' = selected \cup Range(nids)
    /\ UNCHANGED <<config, store, wasm, method, at, cur, pending, result,
                   history>>

\* extend_node with two parameters uses the default priority; with four, the
\* longer of the two spans is cut to the length of the shorter one.
DefaultEntries(nids) == [i \in DOMAIN nids |-> [nid |-> nids[i], p |-> 0]]

PairedEntries(nids, ps) ==
    [i \in 1 .. Min({Len(nids), Len(ps)}) |-> [nid |-> nids[i], p |-> ps[i]]]

ExtendNode(entries) ==
    /\ HostCall
    /\ RoomFor(Len(entries))
    /\ pending' = entries
    /\ UNCHANGED <<config, store, selected, wasm, method, at, cur, result,
                   history>>

\* One turn of the loop of extend_node: the guest waits until it is done.
ExtendStep ==
    /\ pending # <<>>
    /\ PushNode(Head(pending).nid, Head(pending).p)
    /\ pending' = Tail(pending)
    /\ UNCHANGED <<config, selected, wasm, method, at, cur, calls, result,
                   history>>

-----------------------------------------------------------------------------

Owner ==
    \/ \E ok \in BOOLEAN : Initialize(ok)
    \/ InitializeThrows
    \/ \E nid \in Nodes, p \in Priorities : Push(nid, p)
    \/ Clear
    \/ \E m \in {"poll", "join", "finish"} : Enter(m)
    \/ \E s \in Nodes, p \in Priorities : EnterSample(s, p)

Guest ==
    \/ \E nids \in NidSpans : SelectNode(nids)
    \/ \E nids \in NidSpans : ExtendNode(DefaultEntries(nids))
    \/ \E nids \in NidSpans, ps \in PrioSpans :
          ExtendNode(PairedEntries(nids, ps))

\* The block's own steps, the return of a guest function among them.
Block ==
    \/ Initialized
    \/ PollIdle
    \/ PollPop
    \/ ExtendStep
    \/ \E ok \in BOOLEAN : FilterReturn(ok)
    \/ Finish

Next == Owner \/ Guest \/ Block

Spec == Init /\ [][Next]_vars

\* A method that has been called runs on, and a guest function returns after the
\* host calls that it makes.  Nothing obliges the owner to call anything.
FairSpec == Spec /\ WF_vars(Block)

-----------------------------------------------------------------------------
(* Properties.                                                              *)

\* With distinct on, filter() is called at most once for a node between two
\* clears, whatever mix of host pushes and guest extensions offers it.
VisitedOnce == dedup => IsInjective(visited)

\* With distinct on, the nodes that push() turns away are exactly those that
\* have been visited or are still queued: none is lost, none comes back.
NothingLost == dedup => distinct = Range(visited) \cup Queued(Q)

\* The visits made and the visits to come, in order.
Schedule == visited \o [i \in DOMAIN Q |-> Q[i].nid]

\* A FIFO queue only ever grows its schedule at the end: nothing overtakes a
\* queued node, and nothing but clear() and sample() discards one.
FifoNeverOvertakes ==
    [][type = FIFO =>
         \/ IsPrefix(Schedule, Schedule')
         \/ visited' = <<>> /\ method' \in {"none", "sample"}]_vars

\* A PRIO queue calls filter() for an entry that nothing queued outranks, in
\* particular none that was pushed by the host or the guest after it.
PrioHighestFirst ==
    [][type = PRIO /\ at = "poll" /\ at' = "filter" =>
         \A i \in DOMAIN Q' : ~Outranks(Q'[i], Q[1])]_vars

\* While sample() runs, the guest remembers no node of an earlier sample.
SampleStartsFresh == method = "sample" => guestSeen \subseteq Range(visited)

\* With distinct on, every call of the block returns: join() drains the queue
\* although the guest keeps extending it.
CallsReturn == dedup /\ method # "none" ~> method = "none"

=============================================================================
