------------------------------ MODULE Container ------------------------------
(***************************************************************************)
(* The container of a SchedulerBlock: the stages of Runtime::instantiate   *)
(* (src/host/runtime.cpp), the host functions that initialize() imports    *)
(* (src/host/schedulerb.cpp), and the guest's side of a host call: the     *)
(* packing of arguments (wasm/funcall.hh, src/wasm/libwrt.cpp) and the     *)
(* buffers of get_node (wasm/buffer.hh).  The block's own steps are those  *)
(* of SchedulerBlock, of which this module is an implementation.           *)
(*                                                                         *)
(* The guest is arbitrary, within the library that it is linked with: it   *)
(* may call any host function, hold buffers, return, or trap.  Of its heap *)
(* the blocks of get_node are modelled, one to a page.  What else is on it *)
(* is the guest's, so that its malloc may fail at any time.                *)
(***************************************************************************)
EXTENDS SchedulerBlock

CONSTANTS
    PageRequests,  \* arguments for the pages parameter of initialize()
    MinPages,      \* the limits that initialize() puts on it: 8 and 65536
    MaxPages,
    InitialPages,  \* pages that a module may start with
    MayStart,      \* whether modules may have a start function that calls
                   \* the host
    MayMove,       \* whether the engine may move a memory that grows
    SizeLimit,     \* a wasm_size_t is below it (2^32) ...
    WordLimit,     \* ... and a wasm_wrap_t and a nid_t below this (2^64)
    Garbage,       \* what memory that nobody has written may hold
    NidArrays,     \* the arrays in the guest's memory: at an address, a span
    PrioArrays,
    Recorded,      \* the nodes that the storage has a record of
    MaxHeld,       \* bound on the buffers that a guest holds at once
    MaxTraps       \* bound on the traps of one container

ASSUME PagesAssumption ==
    /\ MinPages \in Nat \ {0} /\ MaxPages \in Nat /\ MinPages <= MaxPages
    /\ PageRequests \subseteq Nat /\ InitialPages \subseteq 0 .. MaxPages
ASSUME WordsAssumption ==
    /\ SizeLimit \in Nat /\ WordLimit \in Nat
    /\ MaxPages < SizeLimit /\ SizeLimit <= WordLimit
    /\ Garbage \subseteq 0 .. WordLimit - 1
    /\ Nodes \subseteq 1 .. WordLimit - 1
ASSUME ArraysAssumption ==
    /\ DOMAIN NidArrays \cup DOMAIN PrioArrays \subseteq 1 .. SizeLimit - 1
    /\ \A a \in DOMAIN NidArrays :
          NidArrays[a] \in NidSpans /\ Len(NidArrays[a]) < SizeLimit
    /\ \A a \in DOMAIN PrioArrays :
          PrioArrays[a] \in PrioSpans /\ Len(PrioArrays[a]) < SizeLimit
ASSUME RecordedAssumption == Recorded \subseteq Nodes
ASSUME ModulesAssumption == MayStart \in BOOLEAN /\ MayMove \in BOOLEAN
ASSUME ContainerBoundsAssumption == MaxHeld \in Nat /\ MaxTraps \in Nat

VARIABLES
    loading,    \* whether initialize() is in instantiate()
    loaded,     \* the number of its stages that the container has passed
    pages,      \* pages of the guest's memory, at first those asked for
    heap,       \* the guest's heap: at a page, the node whose record it holds
    held,       \* the DataBuffers of the guest, local ones and globals
    call,       \* the host function that is called, "reply" after get_node
    params,     \* the words that the guest and the host pass each other
    made,       \* the calls that the running guest function has made
    clock,      \* what the last clk_m of the guest function returned
    undefined,  \* what went wrong: "no", through a "null" pointer, or through
                \* a pointer into memory that "moved"
    asked,      \* history: the pages asked for, within the limits
    started,    \* history: whether the module's start function called the host
    thrown,     \* history: whether an exception left the last initialize()
    meant,      \* history: what the guest packed into params
    traps,      \* history: traps of this container
    unreset     \* history: whether its last finish() trapped

blockVars == vars
guestVars == <<heap, held, call, params, made, clock, meant>>
loadVars == <<loading, loaded, pages, asked, started, thrown>>
trapVars == <<traps, unreset>>
containerVars == <<vars, guestVars, loadVars, trapVars, undefined>>

HostFunctions ==
    {"console_log", "get_node", "select_node", "extend_node", "clk_m"}

\* What instantiate() sets or changes, in order; each step can fail.
Stages == <<"module", "wasi", "instance", "main", "memory", "grow", "malloc",
            "free", "ctors", "dtors", "filter", "finish">>

\* The stages that look for an export, of a kind that they expect.
Exports == {"memory", "malloc", "free", "ctors", "dtors", "filter", "finish"}

Words == 0 .. WordLimit - 1
Buffers == [ptr : Words, size : Words, nid : Nodes]

ContainerTypeOK ==
    /\ loading \in BOOLEAN
    /\ loaded \in 0 .. Len(Stages)
    /\ pages \in 0 .. MaxPages
    /\ DOMAIN heap \subseteq 1 .. MaxPages /\ heap \in [DOMAIN heap -> Nodes]
    /\ held \subseteq Buffers
    /\ call \in HostFunctions \cup {"none", "reply"}
    /\ params \in Seq(Words)
    /\ made \in 0 .. MaxCalls
    /\ clock \in {"unread", "elapsed", "garbage"}
    /\ undefined \in {"no", "null", "moved"}
    /\ asked \in 0 .. MaxPages
    /\ started \in BOOLEAN /\ thrown \in BOOLEAN
    /\ meant \in Seq(Nat)
    /\ traps \in 0 .. MaxTraps
    /\ unreset \in BOOLEAN

ContainerInit ==
    /\ Init
    /\ loading = FALSE /\ loaded = 0 /\ pages = 0
    /\ heap = <<>> /\ held = {}
    /\ call = "none" /\ params = <<>> /\ made = 0 /\ clock = "unread"
    /\ undefined = "no"
    /\ asked = 0 /\ started = FALSE /\ thrown = FALSE /\ meant = <<>>
    /\ traps = 0 /\ unreset = FALSE

IsSet(member) == \E i \in 1 .. loaded : Stages[i] = member
Stage(name) == loading /\ loaded < Len(Stages) /\ Stages[loaded + 1] = name

\* What comes of going through a member that may be null.
Through(member) == IF IsSet(member) THEN "no" ELSE "null"

-----------------------------------------------------------------------------
(* initialize() and instantiate().                                          *)

\* Mutant: limits that are applied in the wrong sense.
UnlimitedPages(n) == Max({n, MinPages})

LimitedPages(n) == Min({Max({n, MinPages}), MaxPages})

\* Runtime::open, in place of the old container, and the imports.
Open(n) ==
    /\ Calls("initialize")
    /\ ~loading
    /\ loading' = TRUE
    /\ loaded' = 0
    /\ pages' = LimitedPages(n)
    /\ asked' = LimitedPages(n)
    /\ heap' = <<>>
    /\ held' = {}
    /\ traps' = 0
    /\ unreset' = FALSE
    /\ started' = FALSE
    /\ thrown' = FALSE
    /\ UNCHANGED <<blockVars, call, params, made, clock, meant, undefined>>

\* A stage that succeeds.  Memory grows to the pages asked for, unless the
\* module starts with more.
Load ==
    /\ loading /\ loaded < Len(Stages)
    /\ loaded' = loaded + 1
    /\ IF Stage("grow")
       THEN \E n \in InitialPages : pages' = Max({n, pages})
       ELSE UNCHANGED pages
    /\ UNCHANGED <<blockVars, guestVars, loading, asked, started, thrown,
                   trapVars, undefined>>

\* Mutant: a failure that keeps the container.
LoadFailsKept ==
    /\ loading /\ loaded < Len(Stages)
    /\ wasm' = TRUE
    /\ guestSeen' = {}
    /\ loading' = FALSE
    /\ UNCHANGED <<config, store, selected, method, at, cur, pending, calls,
                   result, visited, guestVars, loaded, pages, asked, started,
                   thrown, trapVars, undefined>>

\* A stage that fails: initialize() gives the container up.
LoadFails ==
    /\ loading /\ loaded < Len(Stages)
    /\ Initialize(FALSE)
    /\ loading' = FALSE
    /\ loaded' = 0
    /\ pages' = 0
    /\ asked' = 0
    /\ UNCHANGED <<guestVars, started, thrown, trapVars, undefined>>

\* An export of another kind: std::get throws bad_variant_access, and nobody
\* gives the container up.  It stays with the members that it has.
LoadThrows ==
    /\ \E export \in Exports : Stage(export)
    /\ InitializeThrows
    /\ loading' = FALSE
    /\ thrown' = TRUE
    /\ UNCHANGED <<guestVars, loaded, pages, asked, started, trapVars, undefined>>

\* The module's start function runs inside of linker.instantiate.  The import
\* looks for its parameters in a memory that is not known yet.
StartCallsHost ==
    /\ Stage("instance") /\ MayStart
    /\ started' = TRUE
    /\ undefined' = Through("memory")
    /\ UNCHANGED <<blockVars, guestVars, loading, loaded, pages, asked, thrown,
                   trapVars>>

\* The last step of instantiate() runs the constructors.
CallCtors ==
    /\ loading /\ loaded = Len(Stages)
    /\ Initialize(TRUE)
    /\ loading' = FALSE
    /\ UNCHANGED <<guestVars, loaded, pages, asked, started, thrown, trapVars,
                   undefined>>

-----------------------------------------------------------------------------
(* The words of a host call.                                                *)

\* wasm_funcall_wrap and _unwrap: the low bytes of a 64-bit word.
Size(x) == [value |-> x, limit |-> SizeLimit]
Nid(x) == [value |-> x, limit |-> WordLimit]
Wrap(arg) == arg.value % arg.limit
Unwrap(word, limit) == word % limit

\* Mutant: arguments that are stored from the end of the array.
FuncallPushBack(buf, args) ==
    [i \in DOMAIN buf |->
        IF i > Len(buf) - Len(args) THEN Wrap(args[Len(buf) - i + 1]) ELSE buf[i]]

\* wasm_funcall_push: words beyond the arguments stay as they were.
FuncallPush(buf, args) ==
    [i \in DOMAIN buf |-> IF i \in DOMAIN args THEN Wrap(args[i]) ELSE buf[i]]

\* wasm_funcall_pull, for the types of the given limits.
FuncallPull(buf, limits) ==
    [i \in DOMAIN limits |-> Unwrap(buf[i], limits[i])]

\* The types that a host function pulls.
PulledTypes(name) ==
    CASE name = "get_node" -> <<WordLimit>>
      [] name = "clk_m" -> <<>>
      [] OTHER -> [i \in DOMAIN params |-> SizeLimit]

Pulled == FuncallPull(params, PulledTypes(call))

-----------------------------------------------------------------------------
(* The guest's library.                                                     *)

\* A guest function runs that the container has an export for.
Running ==
    at \in {"ctors", "filter", "finish"} /\ wasm /\ IsSet(at) /\ pending = <<>>

\* The parameter array is a local variable of n words.
Import(name, args, n) ==
    /\ Running
    /\ call = "none"
    /\ made < MaxCalls
    /\ made' = made + 1
    /\ call' = name
    /\ \E blank \in [1 .. n -> Garbage] : params' = FuncallPush(blank, args)
    /\ meant' = [i \in DOMAIN args |-> args[i].value]
    /\ UNCHANGED <<blockVars, heap, held, clock, loadVars, trapVars, undefined>>

\* The parameter array goes out of scope.
CallEnds == call' = "none" /\ params' = <<>> /\ meant' = <<>>

NidSpan(a) == <<Size(a), Size(Len(NidArrays[a]))>>
PrioSpan(a) == <<Size(a), Size(Len(PrioArrays[a]))>>

CallHost ==
    \/ Import("clk_m", <<>>, 1)
    \/ \E n \in Nodes :
          Cardinality(held) < MaxHeld /\ Import("get_node", <<Nid(n)>>, 2)
    \/ \E a \in DOMAIN NidArrays :
          \/ Import("console_log", NidSpan(a), 2)
          \/ Import("select_node", NidSpan(a), 2)
          \/ Import("extend_node", NidSpan(a), 2)
          \/ \E b \in DOMAIN PrioArrays :
                Import("extend_node", NidSpan(a) \o PrioSpan(b), 4)

\* Mutant: a get_node that asks again when it gets nothing.
ReceiveOrRetry ==
    /\ call = "reply"
    /\ IF params[1] = 0
       THEN /\ call' = "get_node"
            /\ params' = FuncallPush(params, <<Nid(meant[1])>>)
            /\ UNCHANGED <<held, meant>>
       ELSE /\ held' = held \cup {[ptr |-> params[1], size |-> params[2],
                                   nid |-> meant[1]]}
            /\ CallEnds
    /\ UNCHANGED <<blockVars, heap, made, clock, loadVars, trapVars, undefined>>

\* get_node pulls a pointer and a size, and the DataBuffer owns what they say.
Receive ==
    /\ call = "reply"
    /\ LET reply == FuncallPull(params, <<SizeLimit, SizeLimit>>)
       IN  held' = IF reply[1] = 0 THEN held
                   ELSE held \cup {[ptr |-> reply[1], size |-> reply[2],
                                    nid |-> meant[1]]}
    /\ CallEnds
    /\ UNCHANGED <<blockVars, heap, made, clock, loadVars, trapVars, undefined>>

\* Mutant: a DataBuffer that does not free what it owns.
DestroyKept(b) ==
    /\ Running /\ call = "none"
    /\ held' = held \ {b}
    /\ UNCHANGED <<blockVars, heap, call, params, made, clock, meant, loadVars,
                   trapVars, undefined>>

\* The destructor of a DataBuffer.
Destroy(b) ==
    /\ Running /\ call = "none"
    /\ held' = held \ {b}
    /\ heap' = [p \in DOMAIN heap \ {b.ptr} |-> heap[p]]
    /\ UNCHANGED <<blockVars, call, params, made, clock, meant, loadVars, trapVars,
                   undefined>>

-----------------------------------------------------------------------------
(* The host functions.                                                      *)

Called(name) == call = name /\ pending = <<>>

Answered ==
    /\ CallEnds
    /\ UNCHANGED <<heap, held, made, loadVars, trapVars, undefined>>

\* memory_data<nid_t>(off, n), memory_data<f64>(off, n)
NidsAt(off, n) == SubSeq(NidArrays[off], 1, n)
PriosAt(off, n) == SubSeq(PrioArrays[off], 1, n)

HostLog == Called("console_log") /\ Answered /\ UNCHANGED <<blockVars, clock>>

HostSelect ==
    /\ Called("select_node")
    /\ SelectNode(NidsAt(Pulled[1], Pulled[2]))
    /\ Answered
    /\ UNCHANGED clock

HostExtend ==
    /\ Called("extend_node")
    /\ \/ /\ Len(params) = 2
          /\ ExtendNode(DefaultEntries(NidsAt(Pulled[1], Pulled[2])))
       \/ /\ Len(params) = 4
          /\ ExtendNode(PairedEntries(NidsAt(Pulled[1], Pulled[2]),
                                      PriosAt(Pulled[3], Pulled[4])))
    /\ Answered
    /\ UNCHANGED clock

\* The closure of clk_m refers to a local variable of initialize().
HostClock ==
    /\ Called("clk_m")
    /\ clock' = IF method = "initialize" THEN "elapsed" ELSE "garbage"
    /\ Answered
    /\ UNCHANGED blockVars

\* What get_node leaves in its parameters.
Reply(ptr, size) ==
    /\ call' = "reply"
    /\ params' = FuncallPush(params, <<Size(ptr), Size(size)>>)

\* Mutant: a node without a record that get_node does not answer for.
NoReply == call' = "reply" /\ UNCHANGED params

EmptyReply == Reply(0, 0)

\* The guest's malloc for a record of the node: it may take more pages, up to
\* the limit, and then fail, trap or take any free page.  When it has taken more
\* pages, the memory may have moved away from under the parameters.
Malloc(node) ==
    /\ pages' \in pages .. MaxPages
    /\ \/ EmptyReply /\ UNCHANGED heap
       \/ \E p \in (1 .. pages') \ DOMAIN heap :
             /\ heap' = [q \in DOMAIN heap \cup {p} |->
                          IF q = p THEN node ELSE heap[q]]
             /\ Reply(p, 1)
    /\ \/ undefined' = Through("malloc")
       \/ pages' > pages /\ MayMove /\ undefined' = "moved"

HostGetNode ==
    /\ Called("get_node")
    /\ \/ /\ Pulled[1] \notin Recorded
          /\ EmptyReply
          /\ UNCHANGED <<heap, pages, undefined>>
       \/ /\ Pulled[1] \in Recorded
          /\ Malloc(Pulled[1])
    /\ UNCHANGED <<blockVars, held, made, clock, meant, loading, loaded, asked,
                   started, thrown, trapVars>>

-----------------------------------------------------------------------------
(* Calls of the guest by the host.                                          *)

\* poll() calls filter() through the export.
CallFilter ==
    /\ PollPop
    /\ undefined' = Through("filter")
    /\ UNCHANGED <<guestVars, loadVars, trapVars>>

\* finish() of a container whose last initialize() did not reach that export.
FinishThroughNull ==
    /\ at = "finish" /\ wasm /\ ~IsSet("finish")
    /\ undefined' = "null"
    /\ UNCHANGED <<blockVars, guestVars, loadVars, trapVars>>

\* The end of a guest function.
Leaves ==
    /\ call = "none"
    /\ made' = 0
    /\ clock' = "unread"
    /\ UNCHANGED <<heap, call, params, meant, loadVars, undefined>>

LeavesFinish == Finish /\ wasm /\ IsSet("finish")

\* A guest function has destroyed its local buffers when it returns; those that
\* it has moved into globals it keeps.
GuestReturns ==
    /\ Leaves
    /\ \/ /\ Initialized \/ \E ok \in BOOLEAN : FilterReturn(ok)
          /\ UNCHANGED unreset
       \/ /\ LeavesFinish
          /\ guestSeen' = {}
          /\ unreset' = FALSE
    /\ UNCHANGED <<held, traps>>

\* Mutant: a trap of filter() that throws, out of poll() and out of join().
TrapsThrow ==
    /\ Leaves
    /\ at = "filter" /\ pending = <<>>
    /\ held' \in SUBSET held
    /\ traps < MaxTraps
    /\ traps' = traps + 1
    /\ method' = "none" /\ at' = "idle"
    /\ cur' = 0 /\ calls' = 0
    /\ UNCHANGED <<config, store, selected, wasm, pending, result, history,
                   unreset>>

\* A trap unwinds nothing: what the local buffers owned stays on the heap.
GuestTraps ==
    /\ Leaves
    /\ held' \in SUBSET held
    /\ traps < MaxTraps
    /\ traps' = traps + 1
    /\ \/ /\ Initialized \/ FilterReturn(FALSE)
          /\ UNCHANGED unreset
       \/ /\ LeavesFinish
          /\ guestSeen' = guestSeen
          /\ unreset' = TRUE

\* Mutant: a finish() that does not reach the guest.
BlockAloneFinishes ==
    /\ PollIdle \/ ExtendStep \/ (Finish /\ guestSeen' = guestSeen)
    /\ UNCHANGED <<guestVars, loadVars, trapVars, undefined>>

\* The steps of the block that the container has no part in.
BlockAlone ==
    /\ PollIdle \/ ExtendStep \/ (Finish /\ ~wasm)
    /\ UNCHANGED <<guestVars, loadVars, trapVars, undefined>>

ContainerOwner ==
    /\ ~loading
    /\ \/ Clear
       \/ \E nid \in Nodes, p \in Priorities : Push(nid, p)
       \/ \E m \in {"poll", "join", "finish"} : Enter(m)
       \/ \E s \in Nodes, p \in Priorities : EnterSample(s, p)
    /\ UNCHANGED <<guestVars, loadVars, trapVars, undefined>>

Inside ==
    /\ undefined = "no"
    /\ \/ Load \/ LoadFails \/ LoadThrows \/ StartCallsHost \/ CallCtors
       \/ CallHost \/ Receive \/ \E b \in held : Destroy(b)
       \/ HostLog \/ HostSelect \/ HostExtend \/ HostClock \/ HostGetNode
       \/ CallFilter \/ FinishThroughNull \/ GuestReturns \/ GuestTraps
       \/ BlockAlone

ContainerNext ==
    \/ Inside
    \/ undefined = "no" /\ (ContainerOwner \/ \E n \in PageRequests : Open(n))

ContainerSpec == ContainerInit /\ [][ContainerNext]_containerVars

\* A call in progress runs on, and a guest function does not call for ever.
ContainerFairSpec == ContainerSpec /\ WF_containerVars(Inside)

-----------------------------------------------------------------------------
(* Properties.                                                              *)

\* Nothing goes through a null pointer unless a start function calls the host or
\* an exception has left initialize() half done: a failure that is returned may
\* come at any stage and leaves nothing to call.  And no reply of get_node goes
\* through a pointer into memory that has moved when all the pages were asked
\* for, as initialize() does by default.
UndefinedOnlyBy ==
    /\ undefined = "null" => started \/ thrown
    /\ undefined = "moved" => asked < MaxPages

\* Each buffer that the guest owns is a block of its heap, no other buffer owns
\* it, and it holds the record of the node that get_node was asked for.
HeldAreGenuine ==
    \A b \in held :
        /\ b.size # 0 /\ b.ptr \in DOMAIN heap /\ heap[b.ptr] = b.nid
        /\ \A c \in held : c.ptr = b.ptr => c = b

\* A reply on its way to the guest is empty, or such a block that nobody owns yet.
ReplyIsGenuine ==
    call = "reply" =>
        \/ params[1] = 0 /\ params[2] = 0
        \/ /\ params[2] # 0 /\ params[1] \in DOMAIN heap
           /\ heap[params[1]] = meant[1]
           /\ \A b \in held : b.ptr # params[1]

\* What get_node hands over, from its reply to the destructor of the buffer, is
\* nothing or a block of its own with the record that was asked for.
BuffersAreGenuine == HeldAreGenuine /\ ReplyIsGenuine

\* Only a trap leaves blocks behind that nobody owns, and no more of them than
\* the guest held, although buffers may outlive the function that asked for them.
LeaksOnlyByTraps ==
    undefined = "no" /\ call # "reply" =>
        Cardinality(DOMAIN heap \ {b.ptr : b \in held}) <= MaxHeld * traps

\* The host unpacks what the guest packed, whatever the array held before.
ArgumentsArrive == call \in HostFunctions => Pulled = meant

\* A sample starts with a guest that remembers nothing of an earlier one, unless
\* the last finish() of this container trapped.
StaleOnlyAfterTrap ==
    method = "sample" /\ ~unreset => guestSeen \subseteq Range(visited)

\* The container's steps are steps of the block or change nothing of it.
IsSchedulerBlock == Spec

\* With distinct on, every call of the block returns, whatever the guest does,
\* initialize() among them.
ContainerCallsReturn ==
    dedup /\ (loading \/ method # "none") ~>
        (~loading /\ method = "none") \/ undefined # "no"

\* clk_m is a clock in milliseconds.
ClockRuns == clock # "garbage"

=============================================================================
