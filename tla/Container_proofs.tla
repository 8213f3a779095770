-------------------------- MODULE Container_proofs --------------------------
(***************************************************************************)
(* Proofs about a container, for every guest that is linked with the       *)
(* library, whatever it calls.  The host reads the arguments that the      *)
(* guest passed (CallForms), so the block in a container behaves as        *)
(* SchedulerBlock says.  A pointer that is not set is used only after a    *)
(* start function or an exception (Control, Pointers).  A buffer owns a    *)
(* block of the guest's heap (Owned) and only traps leave blocks behind    *)
(* (Kept).  The guest forgets with every finish() that does not trap       *)
(* (Fresh).                                                                *)
(***************************************************************************)
EXTENDS Container, SchedulerBlock_proofs

-----------------------------------------------------------------------------
(* The words of a host call.                                                *)

LEMMA ModSmall ==
    ASSUME NEW n \in Nat \ {0}, NEW x \in 0 .. n - 1
    PROVE  x % n = x
OBVIOUS

\* What a list of arguments says, and that each fits into its type.
Meaning(args) == [i \in DOMAIN args |-> args[i].value]

Fits(args, limits) ==
    /\ DOMAIN limits = DOMAIN args
    /\ \A i \in DOMAIN args : /\ limits[i] \in Nat \ {0}
                             /\ args[i].limit = limits[i]
                             /\ args[i].value \in 0 .. limits[i] - 1

\* Packing and unpacking restore what fits into its type, whatever the array
\* held before, and the array keeps its length.
LEMMA ArgumentsPass ==
    ASSUME NEW n \in Nat, NEW blank \in [1 .. n -> Garbage],
           NEW args, DOMAIN args \subseteq 1 .. n, NEW limits, Fits(args, limits)
    PROVE  /\ FuncallPull(FuncallPush(blank, args), limits) = Meaning(args)
           /\ DOMAIN FuncallPush(blank, args) = 1 .. n
           /\ Len(FuncallPush(blank, args)) = n
<1> DEFINE buf == FuncallPush(blank, args)
<1>1. buf = [i \in 1 .. n |-> IF i \in DOMAIN args THEN Wrap(args[i]) ELSE blank[i]]
  BY DEF FuncallPush
<1>2. /\ DOMAIN buf = 1 .. n /\ Len(buf) = n
      /\ \A i \in DOMAIN args : buf[i] = args[i].value % args[i].limit
  BY <1>1 DEF Wrap
<1>3. ASSUME NEW i \in DOMAIN args
      PROVE  buf[i] % limits[i] = args[i].value
  BY <1>2, ModSmall DEF Fits
<1> HIDE DEF buf
<1>4. FuncallPull(buf, limits) = [i \in DOMAIN limits |-> buf[i] % limits[i]]
  BY DEF FuncallPull, Unwrap
<1>5. FuncallPull(buf, limits) = Meaning(args)
  BY <1>3, <1>4 DEF Fits, Meaning
<1> QED
  BY <1>2, <1>5 DEF buf

\* A call of the guest's library: what it packs, and where the host looks for
\* it, are in agreement from the start.
CallForms ==
    /\ ArgumentsArrive
    /\ call \in {"get_node", "reply"} =>
          Len(params) = 2 /\ \E n \in Nodes : meant = <<n>>
    /\ call = "select_node" =>
          \E a \in DOMAIN NidArrays : meant = <<a, Len(NidArrays[a])>>
    /\ call = "extend_node" =>
          \/ /\ Len(params) = 2
             /\ \E a \in DOMAIN NidArrays : meant = <<a, Len(NidArrays[a])>>
          \/ /\ Len(params) = 4
             /\ \E a \in DOMAIN NidArrays, b \in DOMAIN PrioArrays :
                   meant = <<a, Len(NidArrays[a]), b, Len(PrioArrays[b])>>

\* The functions that take addresses and lengths.
LEMMA SizesArrive ==
    ASSUME NEW name \in {"console_log", "select_node", "extend_node"},
           NEW n \in Nat, NEW args, DOMAIN args = 1 .. n,
           Fits(args, [i \in 1 .. n |-> SizeLimit]), Import(name, args, n)
    PROVE  /\ ArgumentsArrive'
           /\ Len(params') = n
           /\ meant' = Meaning(args)
           /\ call' = name
<1> DEFINE limits == [i \in 1 .. n |-> SizeLimit]
<1>1. PICK blank \in [1 .. n -> Garbage] : params' = FuncallPush(blank, args)
  BY DEF Import
<1>2. Fits(args, limits)
  OBVIOUS
<1>3. call' = name /\ meant' = Meaning(args)
  BY DEF Import, Meaning
<1> HIDE DEF limits
<1>4. /\ FuncallPull(params', limits) = Meaning(args)
      /\ DOMAIN params' = 1 .. n
      /\ Len(params') = n
  BY <1>1, <1>2, ArgumentsPass
<1>5. PulledTypes(call)' = limits
  BY <1>3, <1>4 DEF PulledTypes, limits
<1>6. Pulled' = FuncallPull(params', limits)
  BY <1>5 DEF Pulled
<1> QED
  BY <1>3, <1>4, <1>6 DEF ArgumentsArrive

\* get_node takes a node, which needs the whole word.
LEMMA NodeArrives ==
    ASSUME NEW node \in Nodes, Import("get_node", <<Nid(node)>>, 2)
    PROVE  /\ ArgumentsArrive'
           /\ Len(params') = 2
           /\ meant' = <<node>>
           /\ call' = "get_node"
<1> DEFINE args == <<Nid(node)>>
           limits == <<WordLimit>>
<1>1. WordLimit \in Nat \ {0} /\ node \in 0 .. WordLimit - 1
  BY WordsAssumption, PagesAssumption
<1>2. /\ DOMAIN args = 1 .. 1 /\ DOMAIN limits = 1 .. 1 /\ limits[1] = WordLimit
      /\ args[1].limit = WordLimit /\ args[1].value = node
  BY DEF Nid
<1>3. Meaning(args) = <<node>>
  BY DEF Meaning, Nid
<1>4. PICK blank \in [1 .. 2 -> Garbage] : params' = FuncallPush(blank, args)
  BY DEF Import
<1>5. call' = "get_node" /\ meant' = Meaning(args)
  BY DEF Import, Meaning
<1>6. PulledTypes(call)' = limits
  BY <1>5 DEF PulledTypes
<1> HIDE DEF args, limits
<1>7. DOMAIN args \subseteq 1 .. 2 /\ \A i \in DOMAIN args : i = 1
  BY <1>2
<1>8. Fits(args, limits)
  BY <1>1, <1>2, <1>7 DEF Fits
<1>9. FuncallPull(params', limits) = Meaning(args) /\ Len(params') = 2
  <2> DEFINE n == 2
  <2>1. n \in Nat /\ blank \in [1 .. n -> Garbage] /\ DOMAIN args \subseteq 1 .. n
    BY <1>7
  <2> HIDE DEF n
  <2>2. FuncallPull(params', limits) = Meaning(args) /\ Len(params') = n
    BY <1>4, <1>8, <2>1, ArgumentsPass
  <2> QED
    BY <2>2 DEF n
<1>10. Pulled' = FuncallPull(params', limits)
  BY <1>6 DEF Pulled
<1> QED
  BY <1>3, <1>5, <1>9, <1>10 DEF ArgumentsArrive

\* clk_m takes nothing.
LEMMA NothingArrives ==
    ASSUME Import("clk_m", <<>>, 1)
    PROVE  ArgumentsArrive' /\ call' = "clk_m"
<1>1. call' = "clk_m" /\ meant' = <<>>
  BY DEF Import
<1>2. PulledTypes(call)' = <<>>
  BY <1>1 DEF PulledTypes
<1>3. Pulled' = <<>>
  BY <1>2 DEF Pulled, FuncallPull
<1> QED
  BY <1>1, <1>3 DEF ArgumentsArrive

LEMMA CallHostForms == CallHost => CallForms'
<1> USE DEF CallForms
<1>1. /\ SizeLimit \in Nat \ {0}
      /\ \A a \in DOMAIN NidArrays :
            a \in 0 .. SizeLimit - 1 /\ Len(NidArrays[a]) \in 0 .. SizeLimit - 1
      /\ \A b \in DOMAIN PrioArrays :
            b \in 0 .. SizeLimit - 1 /\ Len(PrioArrays[b]) \in 0 .. SizeLimit - 1
  <2>1. \A a \in DOMAIN NidArrays : Len(NidArrays[a]) \in Nat
    BY ArraysAssumption, SpansAssumption, LenProperties
  <2>2. \A b \in DOMAIN PrioArrays : Len(PrioArrays[b]) \in Nat
    BY ArraysAssumption, SpansAssumption, LenProperties
  <2> QED
    BY <2>1, <2>2, ArraysAssumption, WordsAssumption, PagesAssumption
<1>2. CASE Import("clk_m", <<>>, 1)
  BY <1>2, NothingArrives
<1>3. ASSUME NEW n \in Nodes, Import("get_node", <<Nid(n)>>, 2)
      PROVE  CallForms'
  BY <1>3, NodeArrives
<1>4. ASSUME NEW a \in DOMAIN NidArrays,
             NEW name \in {"console_log", "select_node", "extend_node"},
             Import(name, NidSpan(a), 2)
      PROVE  CallForms'
  <2> DEFINE args == NidSpan(a)
  <2>1. /\ DOMAIN args = 1 .. 2
        /\ args[1] = Size(a) /\ args[2] = Size(Len(NidArrays[a]))
    BY DEF NidSpan
  <2> HIDE DEF args
  <2>2. /\ Fits(args, [i \in 1 .. 2 |-> SizeLimit])
        /\ Meaning(args) = <<a, Len(NidArrays[a])>>
    BY <1>1, <2>1 DEF Size, Fits, Meaning
  <2>3. /\ ArgumentsArrive' /\ Len(params') = 2 /\ call' = name
        /\ meant' = <<a, Len(NidArrays[a])>>
    BY <1>4, <2>1, <2>2, SizesArrive DEF args
  <2> QED
    BY <2>3
<1>5. ASSUME NEW a \in DOMAIN NidArrays, NEW b \in DOMAIN PrioArrays,
             Import("extend_node", NidSpan(a) \o PrioSpan(b), 4)
      PROVE  CallForms'
  <2> DEFINE args == NidSpan(a) \o PrioSpan(b)
             Sizes == [value : 0 .. SizeLimit - 1, limit : {SizeLimit}]
  <2>1. NidSpan(a) \in Seq(Sizes) /\ PrioSpan(b) \in Seq(Sizes)
    BY <1>1 DEF NidSpan, PrioSpan, Size
  <2>2. Len(NidSpan(a)) = 2 /\ Len(PrioSpan(b)) = 2
    BY DEF NidSpan, PrioSpan
  <2>3. /\ DOMAIN args = 1 .. 4
        /\ args[1] = NidSpan(a)[1] /\ args[2] = NidSpan(a)[2]
        /\ args[3] = PrioSpan(b)[1] /\ args[4] = PrioSpan(b)[2]
    <3> DEFINE s1 == NidSpan(a)
               s2 == PrioSpan(b)
    <3>1. s1 \in Seq(Sizes) /\ s2 \in Seq(Sizes) /\ Len(s1) = 2 /\ Len(s2) = 2
      BY <2>1, <2>2
    <3> HIDE DEF s1, s2, Sizes
    <3>2. /\ s1 \o s2 \in Seq(Sizes) /\ Len(s1 \o s2) = 4
          /\ \A i \in 1 .. 4 : (s1 \o s2)[i] = IF i <= 2 THEN s1[i] ELSE s2[i - 2]
      <4>1. /\ s1 \o s2 \in Seq(Sizes) /\ Len(s1 \o s2) = Len(s1) + Len(s2)
            /\ \A i \in 1 .. Len(s1) + Len(s2) :
                  (s1 \o s2)[i] = IF i <= Len(s1) THEN s1[i] ELSE s2[i - Len(s1)]
        BY <3>1, ConcatProperties, Zenon
      <4>2. Len(s1) + Len(s2) = 4
        BY <3>1
      <4> QED
        BY <3>1, <4>1, <4>2
    <3>3. DOMAIN (s1 \o s2) = 1 .. 4
      BY <3>2, LenProperties
    <3> QED
      BY <3>2, <3>3 DEF s1, s2
  <2> HIDE DEF args
  <2>4. /\ args[1] = Size(a) /\ args[2] = Size(Len(NidArrays[a]))
        /\ args[3] = Size(b) /\ args[4] = Size(Len(PrioArrays[b]))
    BY <2>3 DEF NidSpan, PrioSpan
  <2>5. /\ Fits(args, [i \in 1 .. 4 |-> SizeLimit])
        /\ Meaning(args) = <<a, Len(NidArrays[a]), b, Len(PrioArrays[b])>>
    BY <1>1, <2>3, <2>4 DEF Size, Fits, Meaning
  <2>6. /\ ArgumentsArrive' /\ Len(params') = 4 /\ call' = "extend_node"
        /\ meant' = <<a, Len(NidArrays[a]), b, Len(PrioArrays[b])>>
    BY <1>5, <2>3, <2>5, SizesArrive DEF args
  <2> QED
    BY <2>6
<1> QED
  BY <1>2, <1>3, <1>4, <1>5 DEF CallHost

\* The other steps leave a call as it is, answer it, or end it.
LEMMA OtherForms ==
    ASSUME CallForms,
           \/ UNCHANGED <<call, params, meant>>
           \/ CallEnds
           \/ /\ call = "get_node" /\ UNCHANGED meant
              /\ \E p, n : Reply(p, n)
    PROVE  CallForms'
<1>1. CASE UNCHANGED <<call, params, meant>>
  BY <1>1 DEF CallForms, ArgumentsArrive, Pulled, PulledTypes
<1>2. CASE CallEnds
  BY <1>2 DEF CallForms, ArgumentsArrive, CallEnds, HostFunctions
<1>3. ASSUME call = "get_node", UNCHANGED meant, NEW p, NEW n, Reply(p, n)
      PROVE  CallForms'
  <2>1. call' = "reply" /\ params' = FuncallPush(params, <<Size(p), Size(n)>>)
    BY <1>3 DEF Reply
  <2>2. Len(params) = 2 /\ \E node \in Nodes : meant = <<node>>
    BY <1>3 DEF CallForms
  <2>3. Len(params') = Len(params)
    <3> DEFINE args == <<Size(p), Size(n)>>
    <3>1. params' = [i \in DOMAIN params |->
                       IF i \in DOMAIN args THEN Wrap(args[i]) ELSE params[i]]
      BY <2>1 DEF FuncallPush
    <3>2. DOMAIN params' = DOMAIN params
      BY <3>1
    <3> QED
      BY <3>2
  <2> QED
    BY <1>3, <2>1, <2>2, <2>3 DEF CallForms, ArgumentsArrive, HostFunctions
<1> QED
  BY <1>1, <1>2, <1>3

LEMMA FormsStep == CallForms /\ [ContainerNext]_containerVars => CallForms'
<1> SUFFICES ASSUME CallForms, [ContainerNext]_containerVars
             PROVE  CallForms'
  OBVIOUS
<1>1. CASE CallHost
  BY <1>1, CallHostForms
<1>2. CASE HostGetNode
  <2>1. call = "get_node" /\ UNCHANGED meant
    BY <1>2 DEF HostGetNode, Called
  <2>2. \E p, n : Reply(p, n)
    BY <1>2 DEF HostGetNode, Malloc, EmptyReply
  <2> QED
    BY <2>1, <2>2, OtherForms
<1>3. CASE Receive \/ HostLog \/ HostSelect \/ HostExtend \/ HostClock
  <2>1. CallEnds
    BY <1>3 DEF Receive, HostLog, HostSelect, HostExtend, HostClock, Answered
  <2> QED
    BY <2>1, OtherForms
<1>4. ASSUME \/ Load \/ LoadFails \/ LoadThrows \/ StartCallsHost \/ CallCtors
             \/ \E b \in held : Destroy(b)
             \/ CallFilter \/ FinishThroughNull
             \/ GuestReturns \/ GuestTraps \/ BlockAlone
             \/ ContainerOwner \/ \E n \in PageRequests : Open(n)
             \/ UNCHANGED containerVars
      PROVE  CallForms'
  <2>1. UNCHANGED <<call, params, meant>>
    BY <1>4 DEF Load, LoadFails, LoadThrows, StartCallsHost, CallCtors, Destroy,
                CallFilter, FinishThroughNull, GuestReturns, GuestTraps, Leaves, BlockAlone, ContainerOwner, Open,
                guestVars, containerVars
  <2> QED
    BY <2>1, OtherForms
<1> QED
  BY <1>1, <1>2, <1>3, <1>4 DEF ContainerNext, Inside

LEMMA FormsInit == ContainerInit => CallForms
BY DEF ContainerInit, CallForms, ArgumentsArrive, HostFunctions

LEMMA AlwaysForms == ContainerSpec => []CallForms
BY FormsInit, FormsStep, PTL DEF ContainerSpec

\* The host unpacks what the guest packed, for every width of a word.
THEOREM HostReadsArguments == ContainerSpec => []ArgumentsArrive
<1>1. CallForms => ArgumentsArrive
  BY DEF CallForms
<1> QED
  BY <1>1, AlwaysForms, PTL

-----------------------------------------------------------------------------
(* The container implements the block.                                      *)

LEMMA WholeArrays ==
    /\ \A a \in DOMAIN NidArrays : NidsAt(a, Len(NidArrays[a])) \in NidSpans
    /\ \A b \in DOMAIN PrioArrays : PriosAt(b, Len(PrioArrays[b])) \in PrioSpans
<1>1. ASSUME NEW a \in DOMAIN NidArrays
      PROVE  NidsAt(a, Len(NidArrays[a])) \in NidSpans
  <2>1. NidArrays[a] \in NidSpans /\ NidArrays[a] \in Seq(Nodes)
    BY ArraysAssumption, SpansAssumption
  <2> QED
    BY <2>1, SubSeqFull DEF NidsAt
<1>2. ASSUME NEW b \in DOMAIN PrioArrays
      PROVE  PriosAt(b, Len(PrioArrays[b])) \in PrioSpans
  <2>1. PrioArrays[b] \in PrioSpans /\ PrioArrays[b] \in Seq(Priorities)
    BY ArraysAssumption, SpansAssumption
  <2> QED
    BY <2>1, SubSeqFull DEF PriosAt
<1> QED
  BY <1>1, <1>2

\* A host function reads the whole arrays that the guest named.
LEMMA HostStepsAreGuest ==
    ASSUME CallForms, HostSelect \/ HostExtend
    PROVE  Guest
<1>1. call \in HostFunctions => Pulled = meant
  BY DEF CallForms, ArgumentsArrive
<1>2. CASE HostSelect
  <2>1. call = "select_node" /\ SelectNode(NidsAt(Pulled[1], Pulled[2]))
    BY <1>2 DEF HostSelect, Called
  <2>2. PICK a \in DOMAIN NidArrays : meant = <<a, Len(NidArrays[a])>>
    BY <2>1 DEF CallForms
  <2>3. Pulled[1] = a /\ Pulled[2] = Len(NidArrays[a])
    BY <1>1, <2>1, <2>2 DEF HostFunctions
  <2> QED
    BY <2>1, <2>3, WholeArrays DEF Guest
<1>3. CASE HostExtend
  <2>1. call = "extend_node" /\ Pulled = meant
    BY <1>1, <1>3 DEF HostExtend, Called, HostFunctions
  <2>2. CASE Len(params) = 2
    <3>1. ExtendNode(DefaultEntries(NidsAt(Pulled[1], Pulled[2])))
      BY <1>3, <2>2 DEF HostExtend
    <3>2. PICK a \in DOMAIN NidArrays : meant = <<a, Len(NidArrays[a])>>
      BY <2>1, <2>2 DEF CallForms
    <3>3. Pulled[1] = a /\ Pulled[2] = Len(NidArrays[a])
      BY <2>1, <3>2
    <3> QED
      BY <3>1, <3>3, WholeArrays DEF Guest
  <2>3. CASE Len(params) = 4
    <3>1. ExtendNode(PairedEntries(NidsAt(Pulled[1], Pulled[2]),
                                   PriosAt(Pulled[3], Pulled[4])))
      BY <1>3, <2>3 DEF HostExtend
    <3>2. PICK a \in DOMAIN NidArrays, b \in DOMAIN PrioArrays :
             meant = <<a, Len(NidArrays[a]), b, Len(PrioArrays[b])>>
      BY <2>1, <2>3 DEF CallForms
    <3>3. /\ Pulled[1] = a /\ Pulled[2] = Len(NidArrays[a])
          /\ Pulled[3] = b /\ Pulled[4] = Len(PrioArrays[b])
      BY <2>1, <3>2
    <3> QED
      BY <3>1, <3>3, WholeArrays DEF Guest
  <2> QED
    BY <1>3, <2>2, <2>3 DEF HostExtend
<1> QED
  BY <1>2, <1>3

LEMMA BlockStep ==
    CallForms /\ [ContainerNext]_containerVars => [Next]_vars
<1> SUFFICES ASSUME CallForms, [ContainerNext]_containerVars
             PROVE  [Next]_vars
  OBVIOUS
<1>1. CASE LoadFails \/ LoadThrows \/ CallCtors
  BY <1>1 DEF LoadFails, LoadThrows, CallCtors, Next, Owner
<1>2. CASE HostSelect \/ HostExtend
  BY <1>2, HostStepsAreGuest DEF Next
<1>3. CASE CallFilter
  BY <1>3 DEF CallFilter, Next, Block
<1>4. CASE GuestReturns \/ GuestTraps
  BY <1>4 DEF GuestReturns, GuestTraps, LeavesFinish, Next, Block
<1>5. CASE BlockAlone
  BY <1>5 DEF BlockAlone, Next, Block
<1>6. CASE ContainerOwner
  BY <1>6 DEF ContainerOwner, Next, Owner
<1>7. ASSUME \/ Load \/ StartCallsHost \/ CallHost \/ Receive
             \/ \E b \in held : Destroy(b)
             \/ HostLog \/ HostClock \/ HostGetNode \/ FinishThroughNull
             \/ \E n \in PageRequests : Open(n)
             \/ UNCHANGED containerVars
      PROVE  UNCHANGED vars
  BY <1>7 DEF Load, StartCallsHost, CallHost, Import, Receive, Destroy, HostLog,
              HostClock, HostGetNode, FinishThroughNull, Open, blockVars, containerVars
<1> QED
  BY <1>1, <1>2, <1>3, <1>4, <1>5, <1>6, <1>7 DEF ContainerNext, Inside

\* A container, however its guest is loaded and whatever it calls, does what
\* SchedulerBlock allows.
THEOREM ContainerIsBlock == ContainerSpec => IsSchedulerBlock
<1>1. ContainerInit => Init
  BY DEF ContainerInit
<1> QED
  BY <1>1, AlwaysForms, BlockStep, PTL DEF ContainerSpec, IsSchedulerBlock, Spec

\* So what is proved of the block holds inside of a container.
COROLLARY ContainerKeepsBlock ==
    ContainerSpec => /\ [](TypeOK /\ VisitedOnce /\ NothingLost /\ ScheduleFits)
                     /\ FifoNeverOvertakes /\ PrioHighestFirst
BY ContainerIsBlock, TypeCorrect, VisitsAreUnique, NothingIsLost, SchedulesFit,
   FifoOrder, PrioOrder, PTL
DEF IsSchedulerBlock

-----------------------------------------------------------------------------
(* Where the container is.                                                  *)

Control ==
    /\ method = "none" <=> at = "idle"
    /\ method = "initialize" <=> at = "ctors"
    /\ loading => method = "none"
    /\ loaded \in 0 .. Len(Stages)
    /\ wasm /\ ~loading => loaded = Len(Stages) \/ thrown
    /\ call # "none" =>
          wasm = TRUE /\ at \in {"ctors", "filter", "finish"} /\ IsSet(at)

LEMMA ControlInit == ContainerInit => Control
BY DEF ContainerInit, Init, Control, Stages

LEMMA ControlStep == Control /\ [ContainerNext]_containerVars => Control'
<1> SUFFICES ASSUME Control, [ContainerNext]_containerVars
             PROVE  Control'
  OBVIOUS
<1> USE DEF blockVars, vars, config, store, history, guestVars, loadVars, trapVars,
            IsSet
<1>1. ASSUME NEW n \in PageRequests, Open(n)
      PROVE  Control'
  BY <1>1 DEF Open, Calls, Control, Stages
<1>2. CASE Load
  BY <1>2 DEF Load, Control, Stages
<1>3. CASE LoadFails \/ LoadThrows
  BY <1>3 DEF LoadFails, LoadThrows, Initialize, InitializeThrows, Calls, Control, Stages
<1>4. CASE StartCallsHost
  BY <1>4 DEF StartCallsHost, Control
<1>5. CASE CallCtors
  BY <1>5 DEF CallCtors, Initialize, Calls, Control
<1>6. CASE CallHost
  <2>1. /\ UNCHANGED <<method, at, wasm, loading, loaded, thrown>>
        /\ Running
    BY <1>6 DEF CallHost, Import
  <2> QED
    BY <2>1 DEF Running, Control
<1>7. CASE Receive \/ HostLog \/ HostClock \/ HostGetNode
           \/ \E b \in held : Destroy(b)
  <2>1. /\ UNCHANGED <<method, at, wasm, loading, loaded, thrown>>
        /\ call = "none" => call' = "none"
    BY <1>7 DEF Receive, HostLog, HostClock, HostGetNode, Destroy, Called, Answered,
                CallEnds, HostFunctions
  <2> QED
    BY <2>1 DEF Control
<1>8. CASE HostSelect \/ HostExtend
  <2>1. UNCHANGED <<method, at, wasm, loading, loaded, thrown>> /\ call' = "none"
    BY <1>8 DEF HostSelect, HostExtend, SelectNode, ExtendNode, Answered, CallEnds
  <2> QED
    BY <2>1 DEF Control
<1>9. CASE CallFilter \/ FinishThroughNull
  BY <1>9 DEF CallFilter, FinishThroughNull, PollPop, Control
<1>10. CASE GuestReturns \/ GuestTraps
  <2>1. call' = "none" /\ UNCHANGED <<wasm, loading, loaded, thrown>> /\ method # "none"
    BY <1>10 DEF GuestReturns, GuestTraps, Leaves, LeavesFinish, Initialized,
                 FilterReturn, Finish, Control
  <2>2. \/ method' = "none" /\ at' = "idle"
        \/ method' = method /\ method # "initialize" /\ at' \in {"poll", "finish"}
    BY <1>10 DEF GuestReturns, GuestTraps, LeavesFinish, Initialized, FilterReturn,
                 PollReturns, Finish, Control
  <2> QED
    BY <2>1, <2>2 DEF Control
<1>11. CASE BlockAlone
  BY <1>11 DEF BlockAlone, PollIdle, PollReturns, ExtendStep, Finish, Control
<1>12. CASE ContainerOwner
  BY <1>12 DEF ContainerOwner, Clear, Push, Enter, EnterSample, Calls, Control
<1>13. CASE UNCHANGED containerVars
  BY <1>13 DEF containerVars, Control
<1> QED
  BY <1>1, <1>2, <1>3, <1>4, <1>5, <1>6, <1>7, <1>8, <1>9, <1>10, <1>11, <1>12,
     <1>13
  DEF ContainerNext, Inside

-----------------------------------------------------------------------------
(* Where its pointers lead.                                                 *)

\* A guest that calls the host has been loaded with its malloc, ...
LEMMA MallocIsSet ==
    ASSUME Control, call # "none"
    PROVE  Through("malloc") = "no"
<1>1. loaded \in 0 .. 12 /\ at \in {"ctors", "filter", "finish"} /\ IsSet(at)
  BY DEF Control, Stages
<1>2. loaded >= 7
  BY <1>1 DEF IsSet, Stages
<1> QED
  BY <1>1, <1>2 DEF Through, IsSet, Stages

\* ... and a member that a call of the block misses was lost to an exception.
LEMMA MissingIsThrown ==
    ASSUME Control, wasm, method # "none", NEW m \in {"filter", "finish"}, ~IsSet(m)
    PROVE  thrown
<1>1. loaded = 12 \/ thrown
  BY DEF Control, Stages
<1>2. loaded # 12
  BY DEF IsSet, Stages
<1> QED
  BY <1>1, <1>2

Pointers ==
    /\ UndefinedOnlyBy
    /\ undefined \in {"no", "null", "moved"}
    /\ IsFiniteSet(DOMAIN heap)
    /\ asked \in 0 .. MaxPages /\ pages \in 0 .. MaxPages
    /\ asked <= pages

LEMMA MaxOfTwo ==
    ASSUME NEW a \in Nat, NEW b \in Nat
    PROVE  /\ Max({a, b}) \in {a, b}
           /\ a <= Max({a, b}) /\ b <= Max({a, b})
BY DEF Max

LEMMA LimitedPagesFit ==
    ASSUME NEW n \in PageRequests
    PROVE  LimitedPages(n) \in 0 .. MaxPages
<1>1. n \in Nat /\ MinPages \in Nat /\ MaxPages \in Nat
  BY PagesAssumption
<1>2. Max({n, MinPages}) \in Nat
  BY <1>1, MaxOfTwo
<1> QED
  BY <1>1, <1>2, MinOfTwo DEF LimitedPages

LEMMA PointersInit == ContainerInit => Pointers
BY FS_EmptySet, PagesAssumption DEF ContainerInit, Pointers, UndefinedOnlyBy

\* The allocation for a reply goes through malloc, and moves the memory only
\* while there are fewer pages than the module could have.
LEMMA GetNodePointers ==
    ASSUME Control, Pointers, HostGetNode
    PROVE  Pointers'
<1>1. call = "get_node" /\ UNCHANGED <<asked, started, thrown>>
  BY DEF HostGetNode, Called
<1>2. Through("malloc") = "no"
  BY <1>1, MallocIsSet
<1>3. CASE UNCHANGED <<heap, pages, undefined>>
  BY <1>1, <1>3 DEF Pointers, UndefinedOnlyBy
<1>4. ASSUME NEW node, Malloc(node)
      PROVE  Pointers'
  <2>1. /\ pages' \in pages .. MaxPages
        /\ undefined' = "no" \/ (pages' > pages /\ undefined' = "moved")
    BY <1>2, <1>4 DEF Malloc
  <2>2. pages' \in 0 .. MaxPages /\ asked' <= pages'
    BY <1>1, <2>1, PagesAssumption DEF Pointers
  <2>3. undefined' = "moved" => asked' < MaxPages
    BY <1>1, <2>1, PagesAssumption DEF Pointers
  <2>4. heap' = heap \/ \E p : DOMAIN heap' = DOMAIN heap \cup {p}
    BY <1>4 DEF Malloc
  <2>5. IsFiniteSet(DOMAIN heap')
    BY <2>4, FS_AddElement DEF Pointers
  <2> QED
    BY <1>1, <2>1, <2>2, <2>3, <2>5 DEF Pointers, UndefinedOnlyBy
<1> QED
  BY <1>3, <1>4 DEF HostGetNode

LEMMA PointersStep ==
    Control /\ Pointers /\ [ContainerNext]_containerVars => Pointers'
<1> SUFFICES ASSUME Control, Pointers, [ContainerNext]_containerVars
             PROVE  Pointers'
  OBVIOUS
<1> USE DEF guestVars, loadVars, trapVars
<1>1. ASSUME NEW n \in PageRequests, Open(n), undefined = "no"
      PROVE  Pointers'
  BY <1>1, LimitedPagesFit, FS_EmptySet DEF Open, Pointers, UndefinedOnlyBy
<1>2. CASE Load
  <2>1. pages' \in 0 .. MaxPages /\ pages <= pages'
    <3>1. CASE UNCHANGED pages
      BY <3>1 DEF Pointers
    <3>2. ASSUME NEW n \in InitialPages, pages' = Max({n, pages})
          PROVE  pages' \in 0 .. MaxPages /\ pages <= pages'
      BY <3>2, MaxOfTwo, PagesAssumption DEF Pointers
    <3> QED
      BY <1>2, <3>1, <3>2 DEF Load
  <2>2. UNCHANGED <<undefined, heap, asked, started, thrown>>
    BY <1>2 DEF Load
  <2> QED
    BY <2>1, <2>2 DEF Pointers, UndefinedOnlyBy
<1>3. ASSUME LoadFails \/ LoadThrows, undefined = "no"
      PROVE  Pointers'
  <2>1. UNCHANGED <<undefined, heap>>
    BY <1>3 DEF LoadFails, LoadThrows
  <2>2. \/ asked' = 0 /\ pages' = 0
        \/ UNCHANGED <<asked, pages>>
    BY <1>3 DEF LoadFails, LoadThrows
  <2> QED
    BY <1>3, <2>1, <2>2, PagesAssumption DEF Pointers, UndefinedOnlyBy
<1>4. CASE StartCallsHost
  BY <1>4 DEF StartCallsHost, Through, Pointers, UndefinedOnlyBy
<1>5. CASE HostGetNode
  BY <1>5, GetNodePointers
<1>6. ASSUME NEW b \in held, Destroy(b)
      PROVE  Pointers'
  <2>1. DOMAIN heap' = DOMAIN heap \ {b.ptr}
    BY <1>6 DEF Destroy
  <2>2. IsFiniteSet(DOMAIN heap')
    BY <2>1, FS_RemoveElement DEF Pointers
  <2> QED
    BY <1>6, <2>2 DEF Destroy, Pointers, UndefinedOnlyBy
<1>7. ASSUME CallFilter \/ FinishThroughNull, undefined = "no"
      PROVE  Pointers'
  <2>1. wasm /\ method # "none"
    BY <1>7 DEF CallFilter, FinishThroughNull, PollPop, Control
  <2>2. undefined' = "no" \/ (undefined' = "null" /\ thrown)
    BY <1>7, <2>1, MissingIsThrown DEF CallFilter, FinishThroughNull, Through
  <2>3. UNCHANGED <<heap, asked, started, thrown, pages>>
    BY <1>7 DEF CallFilter, FinishThroughNull
  <2> QED
    BY <2>2, <2>3 DEF Pointers, UndefinedOnlyBy
<1>8. ASSUME \/ CallCtors \/ CallHost \/ Receive
             \/ HostLog \/ HostSelect \/ HostExtend \/ HostClock
             \/ GuestReturns \/ GuestTraps
             \/ BlockAlone \/ ContainerOwner \/ UNCHANGED containerVars
      PROVE  Pointers'
  <2>1. UNCHANGED <<undefined, heap, asked, started, thrown, pages>>
    BY <1>8 DEF CallCtors, CallHost, Import, Receive, HostLog, HostSelect, HostExtend,
                HostClock, Answered, GuestReturns, GuestTraps, Leaves, BlockAlone,
                ContainerOwner, containerVars
  <2> QED
    BY <2>1 DEF Pointers, UndefinedOnlyBy
<1> QED
  BY <1>1, <1>2, <1>3, <1>4, <1>5, <1>6, <1>7, <1>8 DEF ContainerNext, Inside

LEMMA AlwaysPointers == ContainerSpec => [](Control /\ Pointers)
<1>1. ContainerInit => Control /\ Pointers
  BY ControlInit, PointersInit
<1>2. Control /\ Pointers /\ [ContainerNext]_containerVars => (Control /\ Pointers)'
  BY ControlStep, PointersStep
<1> QED
  BY <1>1, <1>2, PTL DEF ContainerSpec

\* Nothing goes through a null pointer unless a start function calls the host or
\* an exception left initialize(), and no reply goes through a pointer into memory
\* that has moved when all the pages were asked for.
THEOREM PointersAreSound == ContainerSpec => []UndefinedOnlyBy
<1>1. Control /\ Pointers => UndefinedOnlyBy
  BY DEF Pointers
<1> QED
  BY <1>1, AlwaysPointers, PTL

-----------------------------------------------------------------------------
(* What the guest remembers.                                                *)

\* Until a finish() traps, a container forgets with every join and sample.
Fresh ==
    /\ method # "poll"
    /\ ~wasm => guestSeen = {}
    /\ ~unreset /\ ~loading /\ method \in {"none", "initialize"} => guestSeen = {}
    /\ ~unreset /\ method = "sample" => guestSeen \subseteq Range(visited)

LEMMA FreshInit == ContainerInit => Fresh
BY DEF ContainerInit, Init, Fresh

\* What filter() is called for is visited.
LEMMA FilterRemembers ==
    ASSUME TypeOK, PollPop, guestSeen \subseteq Range(visited)
    PROVE  guestSeen' \subseteq Range(visited')
<1> DEFINE nid == Head(Q).nid
<1>1. guestSeen' = guestSeen \cup {nid} /\ visited' = Append(visited, nid)
  BY DEF PollPop, QueueTop
<1>2. nid \in Nodes /\ visited \in Seq(Nodes)
  <2>1. Head(Q) \in Entry
    BY HeadTailProperties DEF PollPop, QueueEmpty, TypeOK
  <2> QED
    BY <2>1 DEF Entry, TypeOK
<1> HIDE DEF nid
<1>3. Range(visited') = Range(visited) \cup {nid}
  BY <1>1, <1>2, RangeOfAppend
<1> QED
  BY <1>1, <1>3

LEMMA FreshStep ==
    ASSUME "poll" \notin Api, TypeOK, Control, Fresh,
           [ContainerNext]_containerVars
    PROVE  Fresh'
<1> USE DEF blockVars, vars, config, store, history, guestVars, loadVars, trapVars
<1>1. ASSUME NEW n \in PageRequests, Open(n)
      PROVE  Fresh'
  BY <1>1 DEF Open, Calls, Fresh
<1>2. CASE LoadFails \/ LoadThrows
  BY <1>2 DEF LoadFails, LoadThrows, Initialize, InitializeThrows, Fresh
<1>3. CASE CallCtors
  BY <1>3 DEF CallCtors, Initialize, Fresh
<1>4. CASE CallFilter
  <2>1. /\ at = "poll" /\ wasm = TRUE
        /\ UNCHANGED <<method, wasm, unreset, loading>>
    BY <1>4 DEF CallFilter, PollPop
  <2>2. method \notin {"none", "initialize", "poll"}
    BY <2>1 DEF Control, Fresh
  <2>3. ~unreset' /\ method' = "sample" => guestSeen' \subseteq Range(visited')
    BY <1>4, <2>1, FilterRemembers DEF CallFilter, Fresh
  <2> QED
    BY <2>1, <2>2, <2>3 DEF Fresh
<1>5. CASE GuestReturns \/ GuestTraps
  <2>1. CASE Initialized
    BY <1>5, <2>1 DEF GuestReturns, GuestTraps, Leaves, LeavesFinish, Initialized,
                      Finish, Control, Fresh
  <2>2. ASSUME NEW ok \in BOOLEAN, FilterReturn(ok)
        PROVE  Fresh'
    BY <1>5, <2>2 DEF GuestReturns, GuestTraps, Leaves, LeavesFinish, FilterReturn,
                      PollReturns, Finish, Control, Fresh
  <2>3. CASE LeavesFinish /\ (unreset' = TRUE \/ guestSeen' = {})
    BY <2>3 DEF LeavesFinish, Finish, Fresh
  <2> QED
    BY <1>5, <2>1, <2>2, <2>3 DEF GuestReturns, GuestTraps
<1>6. CASE BlockAlone
  <2>1. CASE PollIdle
    BY <1>6, <2>1 DEF BlockAlone, PollIdle, PollReturns, Control, Fresh
  <2>2. CASE ExtendStep
    BY <1>6, <2>2 DEF BlockAlone, ExtendStep, Fresh
  <2>3. CASE Finish /\ ~wasm
    BY <2>3 DEF Finish, GuestFinish, Fresh
  <2> QED
    BY <1>6, <2>1, <2>2, <2>3 DEF BlockAlone
<1>7. CASE ContainerOwner
  BY <1>7 DEF ContainerOwner, Clear, ClearAll, Push, Enter, EnterSample, Calls, Fresh
<1>8. CASE HostSelect \/ HostExtend
  <2>1. UNCHANGED <<method, wasm, unreset, loading, guestSeen, visited>>
    BY <1>8 DEF HostSelect, HostExtend, SelectNode, ExtendNode, Answered
  <2> QED
    BY <2>1 DEF Fresh
<1>9. ASSUME \/ Load \/ StartCallsHost \/ CallHost \/ Receive
             \/ \E b \in held : Destroy(b)
             \/ HostLog \/ HostClock \/ HostGetNode \/ FinishThroughNull
             \/ UNCHANGED containerVars
      PROVE  Fresh'
  <2>1. UNCHANGED <<method, wasm, unreset, loading, guestSeen, visited>>
    BY <1>9 DEF Load, StartCallsHost, CallHost, Import, Receive, Destroy, HostLog,
                HostClock, HostGetNode, FinishThroughNull, Answered, containerVars
  <2> QED
    BY <2>1 DEF Fresh
<1> QED
  BY <1>1, <1>2, <1>3, <1>4, <1>5, <1>6, <1>7, <1>8, <1>9
  DEF ContainerNext, Inside

\* When the owner never polls by hand, a sample finds a trace of an earlier one
\* in the guest only if the last finish() of this container trapped.
THEOREM StaleNeedsTrap ==
    ASSUME "poll" \notin Api
    PROVE  ContainerSpec => []StaleOnlyAfterTrap
<1>1. TypeOK /\ Control /\ Fresh /\ [ContainerNext]_containerVars => Fresh'
  BY FreshStep
<1>2. Fresh => StaleOnlyAfterTrap
  BY DEF Fresh, StaleOnlyAfterTrap
<1> QED
  BY FreshInit, <1>1, <1>2, ContainerKeepsBlock, AlwaysPointers, PTL DEF ContainerSpec

-----------------------------------------------------------------------------
(* Types.                                                                   *)

Arg == [value : Nat, limit : {SizeLimit, WordLimit}]
Args == Seq(Arg)

LEMMA Limits ==
    /\ SizeLimit \in Nat \ {0, 1} /\ WordLimit \in Nat \ {0}
    /\ SizeLimit <= WordLimit /\ MaxPages \in Nat /\ MaxPages < SizeLimit
    /\ \A x \in Nat, l \in {SizeLimit, WordLimit} :
          x % l \in 0 .. l - 1 /\ x % l \in Words
<1>1. /\ SizeLimit \in Nat \ {0, 1} /\ WordLimit \in Nat \ {0}
      /\ SizeLimit <= WordLimit /\ MaxPages \in Nat /\ MaxPages < SizeLimit
  BY WordsAssumption, PagesAssumption
<1>2. ASSUME NEW x \in Nat, NEW l \in {SizeLimit, WordLimit}
      PROVE  x % l \in 0 .. l - 1 /\ x % l \in Words
  <2>1. l \in Nat \ {0} /\ l <= WordLimit
    BY <1>1
  <2>2. x % l \in 0 .. l - 1
    BY <2>1
  <2> HIDE DEF Words
  <2>3. \A y \in 0 .. l - 1 : y \in Words
    BY <1>1, <2>1 DEF Words
  <2> QED
    BY <2>2, <2>3
<1> QED
  BY <1>1, <1>2

LEMMA PushType ==
    ASSUME NEW buf \in Seq(Words), NEW args \in Args
    PROVE  FuncallPush(buf, args) \in Seq(Words)
<1>1. \A i \in DOMAIN args : Wrap(args[i]) \in Words
  <2> SUFFICES ASSUME NEW i \in DOMAIN args
               PROVE  Wrap(args[i]) \in Words
    OBVIOUS
  <2>1. args[i] \in Arg
    BY DEF Args
  <2>2. args[i].value \in Nat /\ args[i].limit \in {SizeLimit, WordLimit}
    BY <2>1 DEF Arg
  <2> QED
    BY <2>2, Limits DEF Wrap
<1>2. /\ FuncallPush(buf, args) = [i \in 1 .. Len(buf) |->
                                IF i \in DOMAIN args THEN Wrap(args[i]) ELSE buf[i]]
      /\ Len(buf) \in Nat
      /\ \A i \in 1 .. Len(buf) : buf[i] \in Words
  BY DEF FuncallPush
<1>3. FuncallPush(buf, args) \in [1 .. Len(buf) -> Words]
  BY <1>1, <1>2
<1> QED
  BY <1>2, <1>3

LEMMA ReplyType ==
    ASSUME NEW p \in Nat, NEW n \in Nat, params \in Seq(Words), Reply(p, n)
    PROVE  params' \in Seq(Words)
<1>1. <<Size(p), Size(n)>> \in Args
  BY DEF Size, Arg, Args
<1> QED
  BY <1>1, PushType DEF Reply

LEMMA ImportType ==
    ASSUME ContainerTypeOK,
           NEW name \in HostFunctions, NEW n \in Nat, NEW args \in Args,
           Import(name, args, n)
    PROVE  ContainerTypeOK'
<1>1. PICK blank \in [1 .. n -> Garbage] : params' = FuncallPush(blank, args)
  BY DEF Import
<1>2. Garbage \subseteq Words
  BY WordsAssumption DEF Words
<1>3. blank \in Seq(Words)
  BY <1>1, <1>2
<1>4. params' \in Seq(Words)
  BY <1>1, <1>3, PushType
<1>5. meant' \in Seq(Nat)
  <2>1. meant' = [i \in 1 .. Len(args) |-> args[i].value] /\ Len(args) \in Nat
    BY DEF Import, Args
  <2>2. \A i \in 1 .. Len(args) : args[i] \in Arg
    BY DEF Args
  <2>3. \A i \in 1 .. Len(args) : args[i].value \in Nat
    BY <2>2 DEF Arg
  <2> QED
    BY <2>1, <2>3
<1>6. made' \in 0 .. MaxCalls
  BY BoundsAssumption DEF Import, ContainerTypeOK
<1> QED
  BY <1>4, <1>5, <1>6
  DEF Import, blockVars, loadVars, trapVars, ContainerTypeOK

LEMMA CallHostType == ContainerTypeOK /\ CallHost => ContainerTypeOK'
<1> SUFFICES ASSUME ContainerTypeOK, CallHost
             PROVE  ContainerTypeOK'
  OBVIOUS
<1>1. <<>> \in Args /\ \A n \in Nodes : <<Nid(n)>> \in Args
  BY NodesAssumption DEF Nid, Arg, Args
<1>2. /\ \A a \in DOMAIN NidArrays : NidSpan(a) \in Args
      /\ \A b \in DOMAIN PrioArrays : PrioSpan(b) \in Args
  <2>1. \A a \in DOMAIN NidArrays : a \in Nat /\ Len(NidArrays[a]) \in Nat
    BY ArraysAssumption, SpansAssumption, LenProperties
  <2>2. \A b \in DOMAIN PrioArrays : b \in Nat /\ Len(PrioArrays[b]) \in Nat
    BY ArraysAssumption, SpansAssumption, LenProperties
  <2> QED
    BY <2>1, <2>2 DEF NidSpan, PrioSpan, Size, Arg, Args
<1>3. \A a \in DOMAIN NidArrays, b \in DOMAIN PrioArrays :
         NidSpan(a) \o PrioSpan(b) \in Args
  <2> SUFFICES ASSUME NEW a \in DOMAIN NidArrays, NEW b \in DOMAIN PrioArrays
               PROVE  NidSpan(a) \o PrioSpan(b) \in Args
    OBVIOUS
  <2> DEFINE s1 == NidSpan(a)
             s2 == PrioSpan(b)
  <2>1. s1 \in Args /\ s2 \in Args
    BY <1>2
  <2> HIDE DEF s1, s2
  <2>2. s1 \o s2 \in Args
    BY <2>1, ConcatProperties DEF Args
  <2> QED
    BY <2>2 DEF s1, s2
<1> QED
  BY <1>1, <1>2, <1>3, ImportType DEF CallHost, HostFunctions

LEMMA EmptyHeap == DOMAIN <<>> = {} /\ <<>> \in [DOMAIN <<>> -> Nodes]
<1>1. <<>> \in Seq(Nodes) /\ Len(<<>>) = 0 /\ DOMAIN <<>> = 1 .. 0
  BY EmptySeq, LenProperties
<1>2. <<>> \in [1 .. 0 -> Nodes]
  BY <1>1, LenProperties, Zenon
<1> QED
  BY <1>1, <1>2

LEMMA ContainerTypeInit == ContainerInit => ContainerTypeOK
<1> SUFFICES ASSUME ContainerInit
             PROVE  ContainerTypeOK
  OBVIOUS
<1>1. /\ 0 \in 0 .. MaxPages /\ 0 \in 0 .. MaxCalls /\ 0 \in 0 .. MaxTraps
      /\ 0 \in 0 .. Len(Stages)
  BY PagesAssumption, BoundsAssumption, ContainerBoundsAssumption DEF Stages
<1>2. DOMAIN heap \subseteq 1 .. MaxPages /\ heap \in [DOMAIN heap -> Nodes]
  BY EmptyHeap DEF ContainerInit
<1>3. params \in Seq(Words) /\ meant \in Seq(Nat)
  BY DEF ContainerInit
<1> QED
  BY <1>1, <1>2, <1>3 DEF ContainerInit, ContainerTypeOK

LEMMA ContainerTypeStep ==
    ASSUME ContainerTypeOK, CallForms, Control', Pointers', [ContainerNext]_containerVars
    PROVE  ContainerTypeOK'
<1> USE DEF blockVars, guestVars, loadVars, trapVars
<1>1. loaded' \in 0 .. Len(Stages) /\ pages' \in 0 .. MaxPages /\ asked' \in 0 .. MaxPages
      /\ undefined' \in {"no", "null", "moved"}
  BY DEF Control, Pointers
<1>2. CASE CallHost
  BY <1>2, CallHostType
<1>3. CASE Receive
  <2>1. /\ DOMAIN params = 1 .. 2 /\ params[1] \in Nat /\ params[2] \in Nat
        /\ meant[1] \in Nodes
    <3>1. params \in Seq(Words) /\ Len(params) = 2 /\ \E n \in Nodes : meant = <<n>>
      BY <1>3 DEF Receive, CallForms, ContainerTypeOK
    <3>2. DOMAIN params = 1 .. 2 /\ \A i \in 1 .. 2 : params[i] \in Words
      BY <3>1, LenProperties
    <3> QED
      BY <3>1, <3>2 DEF Words
  <2>2. params[1] % SizeLimit \in Words /\ params[2] % SizeLimit \in Words
    BY <2>1, Limits
  <2>3. [ptr |-> params[1] % SizeLimit, size |-> params[2] % SizeLimit,
         nid |-> meant[1]] \in Buffers
    BY <2>1, <2>2 DEF Buffers
  <2>4. held' \subseteq Buffers
    BY <1>3, <2>3 DEF Receive, FuncallPull, Unwrap, ContainerTypeOK
  <2> QED
    <3>1. /\ call' = "none" /\ params' = <<>> /\ meant' = <<>>
          /\ UNCHANGED <<heap, made, clock, loading, started, thrown, traps, unreset>>
      BY <1>3 DEF Receive, CallEnds
    <3>2. params' \in Seq(Words) /\ meant' \in Seq(Nat)
      BY <3>1
    <3> QED
      BY <1>1, <2>4, <3>1, <3>2 DEF ContainerTypeOK
<1>4. ASSUME NEW b \in held, Destroy(b)
      PROVE  ContainerTypeOK'
  BY <1>4 DEF Destroy, ContainerTypeOK
<1>5. CASE HostLog \/ HostSelect \/ HostExtend \/ HostClock
  <2>1. /\ CallEnds /\ UNCHANGED <<heap, held, made, loadVars, trapVars, undefined>>
        /\ clock' \in {clock, "elapsed", "garbage"}
    BY <1>5 DEF HostLog, HostSelect, HostExtend, HostClock, Answered
  <2> QED
    BY <2>1 DEF CallEnds, ContainerTypeOK
<1>6. CASE HostGetNode
  <2>1. params' \in Seq(Words) /\ call' \in {call, "reply"}
    <3>1. params \in Seq(Words) /\ \A p \in 1 .. pages' : p \in Nat
      BY <1>1 DEF ContainerTypeOK
    <3>2. \/ UNCHANGED <<call, params>>
          \/ \E p \in Nat, n \in Nat : Reply(p, n)
      BY <1>6, <3>1 DEF HostGetNode, Malloc, EmptyReply
    <3> QED
      BY <3>1, <3>2, ReplyType DEF Reply
  <2>2. DOMAIN heap' \subseteq 1 .. MaxPages /\ heap' \in [DOMAIN heap' -> Nodes]
    <3>1. CASE UNCHANGED heap
      BY <3>1 DEF ContainerTypeOK
    <3>2. ASSUME NEW p \in 1 .. pages', NEW n \in Nodes,
                 heap' = [q \in DOMAIN heap \cup {p} |-> IF q = p THEN n ELSE heap[q]]
          PROVE  DOMAIN heap' \subseteq 1 .. MaxPages /\ heap' \in [DOMAIN heap' -> Nodes]
      <4>1. p \in 1 .. MaxPages
        BY <1>1, PagesAssumption
      <4>2. DOMAIN heap' = DOMAIN heap \cup {p}
        BY <3>2
      <4>3. \A q \in DOMAIN heap' : heap'[q] \in Nodes
        BY <3>2 DEF ContainerTypeOK
      <4> QED
        BY <3>2, <4>1, <4>2, <4>3 DEF ContainerTypeOK
    <3> QED
      BY <1>6, <3>1, <3>2, RecordedAssumption DEF HostGetNode, Malloc
  <2> QED
    BY <1>1, <1>6, <2>1, <2>2 DEF HostGetNode, ContainerTypeOK
<1>7. CASE GuestReturns \/ GuestTraps
  <2>1. /\ Leaves /\ held' \subseteq held
        /\ traps' = traps \/ (traps < MaxTraps /\ traps' = traps + 1)
    BY <1>7 DEF GuestReturns, GuestTraps
  <2>2. traps' \in 0 .. MaxTraps
    BY <2>1, ContainerBoundsAssumption DEF ContainerTypeOK
  <2>3. unreset' \in {unreset, TRUE, FALSE}
    BY <1>7 DEF GuestReturns, GuestTraps
  <2>4. 0 \in 0 .. MaxCalls
    BY BoundsAssumption
  <2>5. unreset' \in BOOLEAN
    BY <2>3 DEF ContainerTypeOK
  <2> QED
    BY <1>1, <2>1, <2>2, <2>4, <2>5 DEF Leaves, ContainerTypeOK
<1>8. ASSUME \/ Load \/ LoadFails \/ LoadThrows \/ StartCallsHost \/ CallCtors
             \/ CallFilter \/ FinishThroughNull \/ BlockAlone \/ ContainerOwner
             \/ UNCHANGED containerVars
      PROVE  ContainerTypeOK'
  <2>1. /\ UNCHANGED <<guestVars, trapVars>> /\ started' \in {started, TRUE}
        /\ loading' \in {loading, FALSE} /\ thrown' \in {thrown, TRUE}
    BY <1>8 DEF Load, LoadFails, LoadThrows, StartCallsHost, CallCtors, CallFilter,
                FinishThroughNull, BlockAlone, ContainerOwner, containerVars
  <2> QED
    BY <1>1, <2>1 DEF ContainerTypeOK
<1>9. ASSUME NEW n \in PageRequests, Open(n)
      PROVE  ContainerTypeOK'
  <2>1. /\ heap' = <<>> /\ traps' = 0 /\ unreset' = FALSE /\ started' = FALSE
        /\ loading' = TRUE /\ thrown' = FALSE /\ held' = {}
        /\ UNCHANGED <<call, params, made, clock, meant>>
    BY <1>9 DEF Open
  <2>2. 0 \in 0 .. MaxTraps
    BY ContainerBoundsAssumption
  <2> QED
    BY <1>1, <2>1, <2>2, EmptyHeap DEF ContainerTypeOK
<1> QED
  BY <1>2, <1>3, <1>4, <1>5, <1>6, <1>7, <1>8, <1>9 DEF ContainerNext, Inside

LEMMA AlwaysTyped ==
    ContainerSpec => [](CallForms /\ Control /\ Pointers /\ ContainerTypeOK)
BY AlwaysForms, AlwaysPointers, ContainerTypeInit, ContainerTypeStep, PTL
DEF ContainerSpec

\* The type invariant of the container.
THEOREM ContainerTypeCorrect == ContainerSpec => []ContainerTypeOK
BY AlwaysTyped, PTL

-----------------------------------------------------------------------------
(* Who owns the blocks of the guest's heap.                                 *)

\* A record is one page, and its size survives the way to the guest.
Owned ==
    /\ BuffersAreGenuine
    /\ call = "reply" => params[2] \in {0, 1}

LEMMA OwnedInit == ContainerInit => Owned
BY DEF ContainerInit, Owned, BuffersAreGenuine, HeldAreGenuine, ReplyIsGenuine

\* A call of get_node has two words.
LEMMA TwoWords ==
    ASSUME ContainerTypeOK, CallForms, call \in {"get_node", "reply"}
    PROVE  /\ DOMAIN params = 1 .. 2
           /\ params[1] \in Nat /\ params[2] \in Nat
           /\ meant[1] \in Nodes
<1>1. params \in Seq(Words) /\ Len(params) = 2 /\ \E n \in Nodes : meant = <<n>>
  BY DEF CallForms, ContainerTypeOK
<1>2. DOMAIN params = 1 .. 2 /\ \A i \in 1 .. 2 : params[i] \in Words
  BY <1>1, LenProperties
<1> QED
  BY <1>1, <1>2 DEF Words

\* A reply with a pointer and a size that fit says just these.
LEMMA ReplySays ==
    ASSUME ContainerTypeOK, CallForms, call = "get_node",
           NEW p \in 0 .. SizeLimit - 1, NEW n \in 0 .. SizeLimit - 1, Reply(p, n)
    PROVE  params'[1] = p /\ params'[2] = n /\ call' = "reply"
<1> DEFINE args == <<Size(p), Size(n)>>
<1>1. DOMAIN args = 1 .. 2 /\ Wrap(args[1]) = p /\ Wrap(args[2]) = n
  <2>1. p % SizeLimit = p /\ n % SizeLimit = n
    BY Limits, ModSmall
  <2> QED
    BY <2>1 DEF Wrap, Size
<1>2. params' = [i \in DOMAIN params |-> IF i \in DOMAIN args THEN Wrap(args[i]) ELSE params[i]]
  BY DEF Reply, FuncallPush
<1>3. DOMAIN params = 1 .. 2
  BY TwoWords
<1> HIDE DEF args
<1> QED
  BY <1>1, <1>2, <1>3 DEF Reply

LEMMA GetNodeOwned ==
    ASSUME ContainerTypeOK, CallForms, Owned, Pointers', HostGetNode
    PROVE  Owned'
<1>1. call = "get_node" /\ Pulled = meant /\ UNCHANGED <<held, meant, wasm, at>>
  BY DEF HostGetNode, Called, CallForms, ArgumentsArrive, HostFunctions, blockVars, vars
<1>2. 0 \in 0 .. SizeLimit - 1 /\ 1 \in 0 .. SizeLimit - 1
  BY Limits
<1>3. CASE EmptyReply /\ UNCHANGED heap
  <2>1. params'[1] = 0 /\ params'[2] = 0
    BY <1>1, <1>2, <1>3, ReplySays DEF EmptyReply
  <2> QED
    BY <1>1, <1>3, <2>1 DEF Owned, BuffersAreGenuine, HeldAreGenuine, ReplyIsGenuine
<1>4. ASSUME NEW p \in (1 .. pages') \ DOMAIN heap,
             heap' = [q \in DOMAIN heap \cup {p} |-> IF q = p THEN meant[1] ELSE heap[q]],
             Reply(p, 1)
      PROVE  Owned'
  <2>1. /\ DOMAIN heap' = DOMAIN heap \cup {p} /\ heap'[p] = meant[1]
        /\ \A q \in DOMAIN heap : heap'[q] = heap[q]
    BY <1>4
  <2>2. HeldAreGenuine'
    BY <1>1, <2>1 DEF Owned, BuffersAreGenuine, HeldAreGenuine
  <2>3. \A b \in held : b.ptr # p
    BY <1>4 DEF Owned, BuffersAreGenuine, HeldAreGenuine
  <2>4. p \in 0 .. SizeLimit - 1
    <3>1. pages' \in 0 .. MaxPages
      BY DEF Pointers
    <3> QED
      BY <1>4, <3>1, Limits
  <2>5. params'[1] = p /\ params'[2] = 1
    BY <1>1, <1>2, <1>4, <2>4, ReplySays
  <2>6. ReplyIsGenuine'
    BY <1>1, <2>1, <2>3, <2>5 DEF ReplyIsGenuine
  <2> QED
    BY <2>2, <2>5, <2>6 DEF Owned, BuffersAreGenuine
<1>5. \/ EmptyReply /\ UNCHANGED heap
      \/ \E p \in (1 .. pages') \ DOMAIN heap :
            /\ heap' = [q \in DOMAIN heap \cup {p} |->
                         IF q = p THEN meant[1] ELSE heap[q]]
            /\ Reply(p, 1)
  BY <1>1 DEF HostGetNode, Malloc
<1> QED
  BY <1>3, <1>4, <1>5

LEMMA ReceiveOwned ==
    ASSUME ContainerTypeOK, CallForms, Control, Owned, Receive
    PROVE  Owned'
<1> DEFINE b == [ptr |-> params[1] % SizeLimit, size |-> params[2] % SizeLimit,
                 nid |-> meant[1]]
<1>1. /\ call = "reply" /\ call' = "none" /\ UNCHANGED heap
      /\ held' = IF b.ptr = 0 THEN held ELSE held \cup {b}
  BY DEF Receive, CallEnds, FuncallPull, Unwrap, blockVars, vars
<1>2. CASE params[1] = 0
  <2>1. b.ptr = 0
    BY <1>2, Limits
  <2> QED
    BY <1>1, <2>1 DEF Owned, BuffersAreGenuine, HeldAreGenuine, ReplyIsGenuine
<1>3. CASE params[1] # 0
  <2>1. /\ params[1] \in DOMAIN heap /\ params[2] = 1 /\ heap[params[1]] = meant[1]
        /\ \A c \in held : c.ptr # params[1]
    BY <1>1, <1>3 DEF Owned, BuffersAreGenuine, ReplyIsGenuine
  <2>2. params[1] % SizeLimit = params[1] /\ params[2] % SizeLimit = params[2]
    <3>1. params[1] \in 0 .. SizeLimit - 1 /\ params[2] \in 0 .. SizeLimit - 1
      BY <2>1, Limits DEF ContainerTypeOK
    <3> QED
      BY <3>1, Limits, ModSmall
  <2>3. /\ b.ptr \in DOMAIN heap /\ b.size = 1 /\ heap[b.ptr] = b.nid
        /\ \A c \in held : c.ptr # b.ptr
    BY <2>1, <2>2
  <2> HIDE DEF b
  <2>4. held' \subseteq held \cup {b}
    BY <1>1
  <2>5. HeldAreGenuine'
    BY <1>1, <2>3, <2>4 DEF Owned, BuffersAreGenuine, HeldAreGenuine
  <2> QED
    BY <1>1, <2>5 DEF Owned, BuffersAreGenuine, ReplyIsGenuine
<1> QED
  BY <1>2, <1>3

LEMMA OwnedStep ==
    ASSUME ContainerTypeOK, CallForms, Control, Pointers', Owned,
           [ContainerNext]_containerVars
    PROVE  Owned'
<1> USE DEF blockVars, vars, config, store, history, guestVars, loadVars, trapVars
<1>1. CASE HostGetNode
  BY <1>1, GetNodeOwned
<1>2. CASE Receive
  BY <1>2, ReceiveOwned
<1>3. ASSUME NEW b \in held, Destroy(b)
      PROVE  Owned'
  <2>1. /\ held' = held \ {b} /\ call' = "none"
        /\ DOMAIN heap' = DOMAIN heap \ {b.ptr}
        /\ \A p \in DOMAIN heap \ {b.ptr} : heap'[p] = heap[p]
    BY <1>3 DEF Destroy, CallEnds
  <2>2. HeldAreGenuine'
    BY <2>1 DEF Owned, BuffersAreGenuine, HeldAreGenuine
  <2> QED
    BY <2>1, <2>2 DEF Owned, BuffersAreGenuine, ReplyIsGenuine
<1>4. CASE \/ CallHost \/ HostLog \/ HostSelect \/ HostExtend \/ HostClock
           \/ GuestReturns \/ GuestTraps
  <2>1. /\ heap' = heap /\ held' \subseteq held
        /\ call' # "reply"
    BY <1>4 DEF CallHost, Import, HostLog, HostSelect, HostExtend, HostClock, Answered,
                CallEnds, GuestReturns, GuestTraps, Leaves
  <2> QED
    BY <2>1 DEF Owned, BuffersAreGenuine, HeldAreGenuine, ReplyIsGenuine
<1>5. ASSUME NEW n \in PageRequests, Open(n)
      PROVE  Owned'
  <2>1. held' = {} /\ method = "none" /\ call' = call
    BY <1>5 DEF Open, Calls
  <2>2. call # "reply"
    BY <2>1 DEF Control
  <2> QED
    BY <2>1, <2>2 DEF Owned, BuffersAreGenuine, HeldAreGenuine, ReplyIsGenuine
<1>6. CASE \/ Load \/ LoadFails \/ LoadThrows \/ StartCallsHost \/ CallCtors
           \/ CallFilter \/ FinishThroughNull \/ BlockAlone \/ ContainerOwner
           \/ UNCHANGED containerVars
  <2>1. UNCHANGED <<heap, held, call, params, meant>>
    BY <1>6 DEF Load, LoadFails, LoadThrows, StartCallsHost, CallCtors, CallFilter,
                FinishThroughNull, BlockAlone, ContainerOwner, containerVars
  <2> QED
    BY <2>1 DEF Owned, BuffersAreGenuine, HeldAreGenuine, ReplyIsGenuine
<1> QED
  BY <1>1, <1>2, <1>3, <1>4, <1>5, <1>6
  DEF ContainerNext, Inside

LEMMA AlwaysOwned == ContainerSpec => []Owned
<1>1. /\ CallForms /\ Control /\ Pointers /\ ContainerTypeOK /\ Owned
      /\ [ContainerNext]_containerVars /\ Pointers'
      => Owned'
  BY OwnedStep
<1> QED
  BY <1>1, OwnedInit, AlwaysTyped, PTL DEF ContainerSpec

\* From the reply of get_node to its destructor a buffer is empty, or a block of
\* its own with the record of the node that was asked for, also when it outlives
\* the function that asked for it and whenever malloc fails.
THEOREM BuffersSound == ContainerSpec => []BuffersAreGenuine
<1>1. Owned => BuffersAreGenuine
  BY DEF Owned
<1> QED
  BY <1>1, AlwaysOwned, PTL

-----------------------------------------------------------------------------
(* What traps leave behind.                                                 *)

Pointed == {b.ptr : b \in held}

\* The blocks that no buffer owns, and that are not on their way to one.
Lost == DOMAIN heap \ (Pointed \cup IF call = "reply" THEN {params[1]} ELSE {})

Kept ==
    /\ IsFiniteSet(held) /\ Cardinality(held) <= MaxHeld
    /\ call \in {"get_node", "reply"} => Cardinality(held) < MaxHeld
    /\ undefined = "no" => Cardinality(Lost) <= MaxHeld * traps

LEMMA KeptInit == ContainerInit => Kept
<1> SUFFICES ASSUME ContainerInit
             PROVE  Kept
  OBVIOUS
<1>1. Lost = {} /\ held = {}
  BY EmptyHeap DEF ContainerInit, Lost
<1>2. MaxHeld * 0 = 0 /\ MaxHeld \in Nat
  BY ContainerBoundsAssumption
<1> QED
  BY <1>1, <1>2, FS_EmptySet DEF ContainerInit, Kept

\* A buffer owns one block.
LEMMA PointedSize ==
    ASSUME IsFiniteSet(held)
    PROVE  /\ IsFiniteSet(Pointed)
           /\ Cardinality(Pointed) \in Nat /\ Cardinality(held) \in Nat
           /\ Cardinality(Pointed) <= Cardinality(held)
<1> DEFINE f == [b \in held |-> b.ptr]
<1>1. f \in Surjection(held, Pointed)
  BY DEF Surjection, Pointed
<1> QED
  BY <1>1, FS_Surjection, FS_CardinalityType

\* The heap is what is lost and what buffers own.
LEMMA HeapSize ==
    ASSUME Pointers, Kept, ContainerTypeOK, call # "reply", undefined = "no"
    PROVE  /\ Cardinality(DOMAIN heap) \in Nat
           /\ Cardinality(DOMAIN heap) <= MaxHeld * traps + Cardinality(held)
           /\ MaxHeld * (traps + 1) = MaxHeld * traps + MaxHeld
           /\ MaxHeld * traps \in Nat /\ MaxHeld \in Nat /\ Cardinality(held) \in Nat
<1>1. DOMAIN heap \subseteq Lost \cup Pointed
  BY DEF Lost
<1>2. IsFiniteSet(Lost)
  BY FS_Difference DEF Lost, Pointers
<1>3. /\ IsFiniteSet(Lost \cup Pointed)
      /\ Cardinality(Lost \cup Pointed) =
            Cardinality(Lost) + Cardinality(Pointed) - Cardinality(Lost \cap Pointed)
  BY <1>2, PointedSize, FS_Union DEF Kept
<1>4. /\ Cardinality(Lost) \in Nat /\ Cardinality(Lost \cap Pointed) \in Nat
      /\ Cardinality(DOMAIN heap) \in Nat
  BY <1>2, FS_Intersection, FS_CardinalityType DEF Pointers
<1>5. Cardinality(DOMAIN heap) <= Cardinality(Lost \cup Pointed)
  BY <1>1, <1>3, FS_Subset
<1>6. /\ MaxHeld \in Nat /\ traps \in Nat
      /\ MaxHeld * traps \in Nat /\ MaxHeld * (traps + 1) = MaxHeld * traps + MaxHeld
  <2>1. MaxHeld \in Nat /\ traps \in Nat
    BY ContainerBoundsAssumption DEF ContainerTypeOK
  <2> QED
    BY <2>1
<1>7. Cardinality(Lost) <= MaxHeld * traps
  BY DEF Kept
<1>8. /\ Cardinality(Pointed) \in Nat /\ Cardinality(held) \in Nat
      /\ Cardinality(Pointed) <= Cardinality(held)
  BY PointedSize DEF Kept
<1> DEFINE m == MaxHeld * traps
<1>9. m \in Nat /\ Cardinality(Lost) <= m
  BY <1>6, <1>7
<1> HIDE DEF m
<1>10. Cardinality(DOMAIN heap) <= m + Cardinality(held)
  BY <1>3, <1>4, <1>5, <1>8, <1>9
<1> QED
  BY <1>4, <1>6, <1>8, <1>10 DEF m

\* A step after which no more is lost, without a trap.
LEMMA KeptLost ==
    ASSUME Pointers, Kept, ContainerTypeOK, Lost' \subseteq Lost, traps' = traps, undefined = "no"
    PROVE  undefined' = "no" => Cardinality(Lost') <= MaxHeld * traps'
<1>1. IsFiniteSet(Lost)
  BY FS_Difference DEF Lost, Pointers
<1>2. /\ Cardinality(Lost) \in Nat /\ IsFiniteSet(Lost') /\ Cardinality(Lost') \in Nat
      /\ Cardinality(Lost') <= Cardinality(Lost)
  BY <1>1, FS_Subset, FS_CardinalityType
<1>3. Cardinality(Lost) <= MaxHeld * traps
  BY DEF Kept
<1>4. MaxHeld * traps \in Int
  BY ContainerBoundsAssumption DEF ContainerTypeOK
<1> DEFINE m == MaxHeld * traps
<1> HIDE DEF m
<1>5. Cardinality(Lost') <= m
  BY <1>2, <1>3, <1>4 DEF m
<1> QED
  BY <1>5 DEF m

LEMMA GetNodeKept ==
    ASSUME ContainerTypeOK, CallForms, Control, Pointers, Pointers', Owned, Kept,
           undefined = "no", HostGetNode
    PROVE  Kept'
<1>1. /\ call = "get_node" /\ Pulled = meant
      /\ UNCHANGED <<held, meant, traps>>
  BY DEF HostGetNode, Called, CallForms, ArgumentsArrive, HostFunctions, trapVars
<1>2. 0 \in 0 .. SizeLimit - 1 /\ 1 \in 0 .. SizeLimit - 1
  BY Limits
<1>3. IsFiniteSet(held') /\ Cardinality(held') < MaxHeld /\ Cardinality(held') <= MaxHeld
  BY <1>1, PointedSize, ContainerBoundsAssumption DEF Kept
<1>4. ASSUME EmptyReply, UNCHANGED heap
      PROVE  Kept'
  <2>1. Lost' \subseteq Lost
    BY <1>1, <1>4 DEF Lost, Pointed
  <2>2. undefined' = "no" => Cardinality(Lost') <= MaxHeld * traps'
    BY <1>1, <2>1, KeptLost
  <2> QED
    BY <1>1, <1>3, <2>2 DEF Kept
<1>5. ASSUME NEW p \in (1 .. pages') \ DOMAIN heap,
             DOMAIN heap' = DOMAIN heap \cup {p}, Reply(p, 1)
      PROVE  Kept'
  <2>1. p \in 0 .. SizeLimit - 1
    <3>1. pages' \in 0 .. MaxPages
      BY DEF Pointers
    <3> QED
      BY <1>5, <3>1, Limits
  <2>2. params'[1] = p /\ params'[2] = 1 /\ call' = "reply"
    BY <1>1, <1>2, <1>5, <2>1, ReplySays
  <2>3. Lost' \subseteq Lost
    BY <1>1, <1>5, <2>2 DEF Lost, Pointed
  <2>4. undefined' = "no" => Cardinality(Lost') <= MaxHeld * traps'
    BY <1>1, <2>3, KeptLost
  <2> QED
    BY <1>3, <2>2, <2>4 DEF Kept
<1> QED
  <2>1. \/ EmptyReply /\ UNCHANGED heap
        \/ \E p \in (1 .. pages') \ DOMAIN heap :
              DOMAIN heap' = DOMAIN heap \cup {p} /\ Reply(p, 1)
    BY <1>1 DEF HostGetNode, Malloc
  <2> QED
    BY <1>4, <1>5, <2>1

LEMMA ReceiveKept ==
    ASSUME ContainerTypeOK, CallForms, Pointers, Owned, Kept, undefined = "no", Receive
    PROVE  Kept'
<1> DEFINE b == [ptr |-> params[1] % SizeLimit, size |-> params[2] % SizeLimit,
                 nid |-> meant[1]]
<1>1. /\ call = "reply" /\ call' = "none" /\ UNCHANGED <<heap, traps>>
      /\ held' = IF b.ptr = 0 THEN held ELSE held \cup {b}
  <2>1. call = "reply" /\ call' = "none" /\ UNCHANGED <<heap, traps>>
    BY DEF Receive, CallEnds, trapVars
  <2>2. held' = IF b.ptr = 0 THEN held ELSE held \cup {b}
    BY DEF Receive, FuncallPull, Unwrap
  <2> QED
    BY <2>1, <2>2
<1>2. b.ptr = params[1]
  <2>1. params[1] \in 0 .. SizeLimit - 1
    BY <1>1, Limits DEF Owned, BuffersAreGenuine, ReplyIsGenuine,
                     ContainerTypeOK
  <2> QED
    BY <2>1, Limits, ModSmall
<1> HIDE DEF b
<1>3. 0 \notin DOMAIN heap
  BY DEF ContainerTypeOK
<1>4. Lost' \subseteq Lost
  BY <1>1, <1>2, <1>3 DEF Lost, Pointed
<1>5. undefined' = "no" => Cardinality(Lost') <= MaxHeld * traps'
  BY <1>1, <1>4, KeptLost
<1>6. IsFiniteSet(held') /\ Cardinality(held') <= MaxHeld
  <2>1. IsFiniteSet(held) /\ Cardinality(held) \in Nat /\ Cardinality(held) < MaxHeld
    BY <1>1, PointedSize DEF Kept
  <2>2. /\ IsFiniteSet(held \cup {b})
        /\ Cardinality(held \cup {b}) <= Cardinality(held) + 1
    BY <2>1, FS_AddElement
  <2>3. Cardinality(held \cup {b}) \in Nat
    BY <2>2, FS_CardinalityType
  <2>4. Cardinality(held) <= MaxHeld /\ Cardinality(held \cup {b}) <= MaxHeld
    BY <2>1, <2>2, <2>3, ContainerBoundsAssumption
  <2> QED
    BY <1>1, <2>1, <2>2, <2>4
<1> QED
  BY <1>1, <1>5, <1>6 DEF Kept

LEMMA DestroyLosesNone ==
    ASSUME ContainerTypeOK, Pointers, Kept, undefined = "no", \E b \in held : Destroy(b)
    PROVE  Kept'
<1> PICK b \in held : Destroy(b)
  OBVIOUS
<1>1. /\ call = "none" /\ held' = held \ {b} /\ UNCHANGED <<call, traps>>
      /\ DOMAIN heap' = DOMAIN heap \ {b.ptr}
  BY DEF Destroy, trapVars
<1>2. Lost' \subseteq Lost
  BY <1>1 DEF Lost, Pointed
<1>3. undefined' = "no" => Cardinality(Lost') <= MaxHeld * traps'
  BY <1>1, <1>2, KeptLost
<1>4. IsFiniteSet(held') /\ Cardinality(held') <= MaxHeld
  <2>1. IsFiniteSet(held) /\ Cardinality(held) \in Nat /\ Cardinality(held) <= MaxHeld
    BY PointedSize DEF Kept
  <2>2. held' \in SUBSET held
    BY <1>1
  <2>3. IsFiniteSet(held') /\ Cardinality(held') <= Cardinality(held)
    BY <2>1, <2>2, FS_Subset
  <2>4. Cardinality(held') \in Nat
    BY <2>3, FS_CardinalityType
  <2> QED
    BY <2>1, <2>3, <2>4, ContainerBoundsAssumption
<1> QED
  BY <1>1, <1>3, <1>4 DEF Kept

\* A guest function leaves nothing behind when it returns, and a trap no more
\* than the guest held.
LEMMA LeavesKept ==
    ASSUME ContainerTypeOK, Pointers, Kept, undefined = "no", GuestReturns \/ GuestTraps
    PROVE  Kept'
<1>1. /\ call = "none" /\ call' = "none" /\ held' \in SUBSET held /\ UNCHANGED heap
      /\ \/ held' = held /\ traps' = traps
         \/ traps' = traps + 1
  BY DEF GuestReturns, GuestTraps, Leaves
<1>2. IsFiniteSet(held') /\ Cardinality(held') <= MaxHeld
  <2>1. IsFiniteSet(held) /\ Cardinality(held) \in Nat /\ Cardinality(held) <= MaxHeld
    BY PointedSize DEF Kept
  <2>2. IsFiniteSet(held') /\ Cardinality(held') <= Cardinality(held)
    BY <1>1, <2>1, FS_Subset
  <2>3. Cardinality(held') \in Nat
    BY <2>2, FS_CardinalityType
  <2> QED
    BY <2>1, <2>2, <2>3, ContainerBoundsAssumption
<1>3. undefined' = "no" => Cardinality(Lost') <= MaxHeld * traps'
  <2>1. CASE held' = held /\ traps' = traps
    <3>1. Lost' \subseteq Lost
      BY <1>1, <2>1 DEF Lost, Pointed
    <3> QED
      BY <2>1, <3>1, KeptLost
  <2>2. CASE traps' = traps + 1
    <3>1. Lost' \subseteq DOMAIN heap
      BY <1>1 DEF Lost
    <3>2. Cardinality(Lost') <= Cardinality(DOMAIN heap) /\ Cardinality(Lost') \in Nat
      BY <3>1, FS_Subset, FS_CardinalityType DEF Pointers
    <3>3. /\ Cardinality(DOMAIN heap) \in Nat
          /\ Cardinality(DOMAIN heap) <= MaxHeld * traps + Cardinality(held)
          /\ MaxHeld * (traps + 1) = MaxHeld * traps + MaxHeld
          /\ MaxHeld * traps \in Nat /\ MaxHeld \in Nat /\ Cardinality(held) \in Nat
      BY <1>1, HeapSize
    <3>4. Cardinality(held) <= MaxHeld
      BY DEF Kept
    <3> DEFINE m == MaxHeld * traps
               k == MaxHeld * (traps + 1)
    <3>5. /\ Cardinality(DOMAIN heap) <= m + Cardinality(held)
          /\ k = m + MaxHeld /\ m \in Nat
      BY <3>3
    <3> HIDE DEF m, k
    <3>6. Cardinality(Lost') <= k
      BY <3>2, <3>3, <3>4, <3>5
    <3> QED
      BY <2>2, <3>6 DEF k
  <2> QED
    BY <1>1, <2>1, <2>2
<1> QED
  BY <1>1, <1>2, <1>3 DEF Kept

LEMMA KeptStep ==
    ASSUME ContainerTypeOK, CallForms, Control, Pointers, Pointers', Owned, Kept,
           [ContainerNext]_containerVars
    PROVE  Kept'
<1> USE DEF blockVars, vars, config, store, history, guestVars, loadVars, trapVars
<1>2. ASSUME HostGetNode, undefined = "no"
      PROVE  Kept'
  BY <1>2, GetNodeKept
<1>3. ASSUME Receive, undefined = "no"
      PROVE  Kept'
  BY <1>3, ReceiveKept
<1>4. ASSUME \E b \in held : Destroy(b), undefined = "no"
      PROVE  Kept'
  BY <1>4, DestroyLosesNone
<1>5. ASSUME GuestReturns \/ GuestTraps, undefined = "no"
      PROVE  Kept'
  BY <1>5, LeavesKept
<1>6. ASSUME NEW n \in PageRequests, Open(n)
      PROVE  Kept'
  <2>1. heap' = <<>> /\ held' = {} /\ traps' = 0 /\ UNCHANGED call /\ method = "none"
    BY <1>6 DEF Open, Calls
  <2>2. call' \notin {"get_node", "reply"} /\ Lost' = {}
    BY <2>1, EmptyHeap DEF Control, Lost
  <2>3. MaxHeld * 0 = 0 /\ MaxHeld \in Nat
    BY ContainerBoundsAssumption
  <2> QED
    BY <2>1, <2>2, <2>3, FS_EmptySet DEF Kept
<1>7. CASE CallHost
  <2>1. UNCHANGED <<heap, held, traps, undefined>> /\ call = "none"
    BY <1>7 DEF CallHost, Import
  <2>2. call' \in HostFunctions /\ (call' = "get_node" => Cardinality(held) < MaxHeld)
    BY <1>7 DEF CallHost, Import, HostFunctions
  <2>3. Lost' = Lost
    BY <2>1, <2>2 DEF Lost, Pointed, HostFunctions
  <2> QED
    BY <2>1, <2>2, <2>3 DEF Kept, HostFunctions
<1>8. CASE HostLog \/ HostSelect \/ HostExtend \/ HostClock
  <2>1. /\ UNCHANGED <<heap, held, traps, undefined>> /\ call' = "none"
        /\ call # "reply"
    BY <1>8 DEF HostLog, HostSelect, HostExtend, HostClock, Called, Answered, CallEnds
  <2>2. Lost' = Lost
    BY <2>1 DEF Lost, Pointed
  <2> QED
    BY <2>1, <2>2 DEF Kept
<1>9. ASSUME \/ Load \/ LoadFails \/ LoadThrows \/ StartCallsHost \/ CallCtors
             \/ BlockAlone \/ ContainerOwner \/ CallFilter \/ FinishThroughNull
             \/ UNCHANGED containerVars
      PROVE  UNCHANGED <<heap, held, traps, call, params>>
  BY <1>9 DEF Load, LoadFails, LoadThrows, StartCallsHost, CallCtors, BlockAlone,
              ContainerOwner, CallFilter, FinishThroughNull, containerVars
<1>10. ASSUME UNCHANGED <<heap, held, traps, call, params>>,
              undefined = "no" \/ UNCHANGED undefined
       PROVE  Kept'
  <2>1. Lost' = Lost
    BY <1>10 DEF Lost, Pointed
  <2> QED
    BY <1>10, <2>1 DEF Kept
<1> QED
  BY <1>2, <1>3, <1>4, <1>5, <1>6, <1>7, <1>8, <1>9, <1>10
  DEF ContainerNext, Inside, containerVars

LEMMA AlwaysKept == ContainerSpec => []Kept
<1>1. /\ CallForms /\ Control /\ Pointers /\ ContainerTypeOK /\ Owned /\ Kept
      /\ [ContainerNext]_containerVars /\ Pointers'
      => Kept'
  BY KeptStep
<1> QED
  BY <1>1, KeptInit, AlwaysTyped, AlwaysOwned, PTL DEF ContainerSpec

\* Only traps leave blocks behind that nobody owns, and each of them no more than
\* the guest function held.
THEOREM LeaksNeedTraps == ContainerSpec => []LeaksOnlyByTraps
<1>1. Kept => LeaksOnlyByTraps
  <2> SUFFICES ASSUME Kept, undefined = "no", call # "reply"
               PROVE  Cardinality(DOMAIN heap \ {b.ptr : b \in held}) <= MaxHeld * traps
    BY DEF LeaksOnlyByTraps
  <2>1. Lost = DOMAIN heap \ {b.ptr : b \in held}
    BY DEF Lost, Pointed
  <2> QED
    BY <2>1 DEF Kept
<1> QED
  BY <1>1, AlwaysKept, PTL

=============================================================================
