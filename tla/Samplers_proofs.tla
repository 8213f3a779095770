-------------------------- MODULE Samplers_proofs --------------------------
(***************************************************************************)
(* Proofs about the sampling programs, on all graphs (SamplerSpec) and on  *)
(* the graphs that gen_random_graph makes (RandomSpec): types, among them  *)
(* that no index leaves layer_count, that a program is a guest of the      *)
(* block, so that what is proved of the block holds under it, the layers   *)
(* of layer_wise, and the two directions of an edge.                       *)
(***************************************************************************)
EXTENDS RandomGraph, SchedulerBlock_proofs

-----------------------------------------------------------------------------
(* What filter() passes to extend_node.                                     *)

\* The nodes of a list of entries are among those of a list of nodes.
NodesFrom(entries, nids) ==
    entries \in Seq(Entry) /\ \A e \in Range(entries) : e.nid \in Range(nids)

LEMMA EntriesFrom ==
    ASSUME NEW nids \in Seq(Nodes), NEW n \in Nat, n <= Len(nids),
           NEW ps, \A i \in 1 .. n : ps[i] \in Priorities
    PROVE  NodesFrom([i \in 1 .. n |-> [nid |-> nids[i], p |-> ps[i]]], nids)
<1> DEFINE entries == [i \in 1 .. n |-> [nid |-> nids[i], p |-> ps[i]]]
<1>1. \A i \in 1 .. n : i \in DOMAIN nids /\ nids[i] \in Nodes
  BY LenProperties
<1>2. \A i \in 1 .. n : entries[i] \in Entry /\ entries[i].nid \in Range(nids)
  BY <1>1 DEF Entry, Range
<1>3. DOMAIN entries = 1 .. n
  OBVIOUS
<1> HIDE DEF entries
<1>4. entries \in [1 .. n -> Entry]
  <2>1. entries = [i \in 1 .. n |-> entries[i]]
    BY DEF entries
  <2> QED
    BY <1>2, <2>1
<1>5. \A e \in Range(entries) : e.nid \in Range(nids)
  BY <1>2, <1>3 DEF Range
<1>6. entries \in Seq(Entry)
  BY <1>4
<1> QED
  BY <1>5, <1>6 DEF NodesFrom, entries

LEMMA PrioritisedFrom ==
    ASSUME NEW nids \in Seq(Nodes), NEW entries \in Prioritised(nids)
    PROVE  NodesFrom(entries, nids)
<1>1. PICK ps \in [DOMAIN nids -> Priorities] : entries = PairedEntries(nids, ps)
  BY DEF Prioritised
<1>2. Len(nids) \in Nat /\ DOMAIN nids = 1 .. Len(nids)
  BY LenProperties
<1>3. ps \in Seq(Priorities) /\ Len(ps) = Len(nids)
  BY <1>1, <1>2
<1> DEFINE n == Min({Len(nids), Len(ps)})
<1>4. n \in Nat /\ n <= Len(nids)
  BY <1>2, <1>3, MinOfTwo
<1>5. entries = [i \in 1 .. n |-> [nid |-> nids[i], p |-> ps[i]]]
  BY <1>1 DEF PairedEntries
<1> HIDE DEF n
<1>6. \A i \in 1 .. n : ps[i] \in Priorities
  BY <1>1, <1>2, <1>4
<1> QED
  BY <1>4, <1>5, <1>6, EntriesFrom

LEMMA DefaultsFrom ==
    ASSUME NEW nids \in Seq(Nodes)
    PROVE  NodesFrom(DefaultEntries(nids), nids)
<1> DEFINE n == Len(nids)
           ps == [i \in 1 .. n |-> 0]
<1>1. n \in Nat /\ DOMAIN nids = 1 .. n
  BY LenProperties
<1>2. \A i \in 1 .. n : ps[i] \in Priorities /\ ps[i] = 0
  BY PrioritiesAssumption
<1> HIDE DEF ps
<1>3. NodesFrom([i \in 1 .. n |-> [nid |-> nids[i], p |-> ps[i]]], nids)
  BY <1>1, <1>2, EntriesFrom
<1>4. DefaultEntries(nids) = [i \in 1 .. n |-> [nid |-> nids[i], p |-> ps[i]]]
  BY <1>1, <1>2 DEF DefaultEntries
<1> QED
  BY <1>3, <1>4

LEMMA KeptFrom ==
    ASSUME NEW nids \in Seq(Nodes), NEW kept \in Kept(nids)
    PROVE  /\ kept \in Seq(Nodes)
           /\ \A v \in Range(kept) : v \in Range(nids) /\ Admits(v)
<1> DEFINE admitted == {i \in DOMAIN nids : Admits(nids[i])}
           n == Cardinality(admitted)
<1>1. PICK f \in [1 .. n -> admitted] : kept = [i \in DOMAIN f |-> nids[f[i]]]
  BY DEF Kept
<1>2. n \in Nat
  <2>1. IsFiniteSet(1 .. Len(nids)) /\ DOMAIN nids = 1 .. Len(nids)
    BY LenProperties, FS_Interval
  <2>2. admitted \in SUBSET (1 .. Len(nids))
    BY <2>1
  <2>3. IsFiniteSet(admitted)
    BY <2>1, <2>2, FS_Subset
  <2> QED
    BY <2>3, FS_CardinalityType
<1>3. \A i \in 1 .. n : f[i] \in DOMAIN nids /\ Admits(nids[f[i]])
  BY <1>1
<1> HIDE DEF n, admitted
<1>4. DOMAIN f = 1 .. n /\ kept = [i \in 1 .. n |-> nids[f[i]]]
  BY <1>1
<1>5. \A i \in 1 .. n : nids[f[i]] \in Nodes
  BY <1>3, LenProperties
<1>6. kept \in [1 .. n -> Nodes]
  BY <1>4, <1>5
<1>7. kept \in Seq(Nodes)
  BY <1>2, <1>6
<1>8. \A v \in Range(kept) : \E i \in 1 .. n : v = nids[f[i]]
  BY <1>4 DEF Range
<1> QED
  BY <1>3, <1>7, <1>8 DEF Range

LEMMA ShuffledFrom ==
    ASSUME Node \in Programs, NEW nids \in Seq(Nodes), NEW sampled \in Shuffled(nids)
    PROVE  sampled \in Seq(Nodes) /\ Range(sampled) \subseteq Range(nids)
<1> DEFINE n == Min({Len(nids), K[Node]})
<1>1. n \in Nat
  <2>1. K[Node] \in Nat
    BY LimitsAssumption DEF Node, Data
  <2> QED
    BY <2>1, LenProperties, MinOfTwo
<1>2. PICK f \in [1 .. n -> DOMAIN nids] : sampled = [i \in 1 .. n |-> nids[f[i]]]
  BY DEF Shuffled
<1> HIDE DEF n
<1>3. \A i \in 1 .. n : nids[f[i]] \in Nodes /\ nids[f[i]] \in Range(nids)
  BY <1>2, LenProperties DEF Range
<1>4. sampled \in [1 .. n -> Nodes]
  BY <1>2, <1>3
<1>5. sampled \in Seq(Nodes)
  BY <1>1, <1>4
<1>6. Range(sampled) \subseteq Range(nids)
  <2>1. \A v \in Range(sampled) : \E i \in 1 .. n : v = nids[f[i]]
    BY <1>2 DEF Range
  <2> QED
    BY <1>3, <2>1
<1> QED
  BY <1>5, <1>6

-----------------------------------------------------------------------------
(* The steps of the programs, seen from the block.                          *)

Filters == FilterLayer \/ FilterNode \/ FilterSubgraph \/ FilterData

\* filter() has offered nodes out of nids, or none.
Offered(nids) ==
    \/ UNCHANGED <<block, taken>>
    \/ \E entries \in Seq(Entry) :
          /\ NodesFrom(entries, nids)
          /\ ExtendNode(entries)
          /\ taken' = taken \cup {<<cur, e.nid>> : e \in Range(entries)}

\* What a filter() of layer_wise does.
LayerShape ==
    /\ program = Layer
    /\ UNCHANGED cnt /\ layer_count' = Counted
    /\ \/ vis' = Known /\ verdict' = "no" /\ UNCHANGED <<block, taken>>
       \/ \E kept \in Kept(graph[cur]) :
             vis' = KnownWith(kept) /\ verdict' = "yes" /\ Offered(kept)

\* What a filter() of node_wise does.
NodeShape ==
    /\ program = Node
    /\ UNCHANGED layer_count /\ cnt' = [cnt EXCEPT ![cur] = @ + 1]
    /\ \/ vis' = Known /\ UNCHANGED <<block, taken>>
       \/ /\ ~Exhausted(cnt[cur] + 1, Known[cur])
          /\ \E sampled \in Shuffled(graph[cur]) :
                vis' = KnownWith(sampled) /\ Offered(sampled)

FilterShape ==
    /\ at = "filter" /\ verdict = "none" /\ verdict' \in {"yes", "no"}
    /\ UNCHANGED <<setting, start>>
    /\ Offered(graph[cur])
    /\ node_count' \in {node_count, node_count + 1}
    /\ \/ LayerShape
       \/ NodeShape
       \/ program # Layer /\ UNCHANGED <<vis, cnt, layer_count>>

\* The block of a program is typed, and so is the program.
Typed == TypeOK /\ GuestTypeOK

LEMMA OfferedWider ==
    ASSUME NEW nids, NEW wider, Range(nids) \subseteq Range(wider), Offered(nids)
    PROVE  Offered(wider)
BY DEF Offered, NodesFrom

LEMMA ExtendOffers ==
    ASSUME NEW entries, NEW nids, NEW v, NodesFrom(entries, nids), Extend(entries, v)
    PROVE  Offered(nids) /\ verdict' = v
BY DEF Extend, Offered, NodesFrom

LEMMA NeighboursTyped ==
    ASSUME Typed, at = "filter"
    PROVE  cur \in Nodes /\ graph[cur] \in Seq(Nodes)
<1>1. cur \in Nodes
  BY DEF Typed, TypeOK
<1>2. graph \in [Nodes -> Seq(Nodes)]
  BY DEF Typed, GuestTypeOK
<1> QED
  BY <1>1, <1>2

LEMMA ExtendLayerShape ==
    ASSUME Typed, at = "filter", NEW v, ExtendLayer(v)
    PROVE  \E kept \in Kept(graph[cur]) :
              /\ vis' = KnownWith(kept) /\ verdict' = v
              /\ Offered(kept) /\ Offered(graph[cur])
<1>1. PICK kept \in Kept(graph[cur]) :
         /\ vis' = KnownWith(kept)
         /\ IF graph[cur] = <<>> THEN Leaf(v)
            ELSE \E entries \in Prioritised(kept) : Extend(entries, v)
  BY DEF ExtendLayer
<1>2. kept \in Seq(Nodes) /\ Range(kept) \subseteq Range(graph[cur])
  BY KeptFrom, NeighboursTyped
<1>3. CASE Leaf(v)
  BY <1>1, <1>3 DEF Leaf, Offered
<1>4. ASSUME NEW entries \in Prioritised(kept), Extend(entries, v)
      PROVE  Offered(kept) /\ verdict' = v
  BY <1>2, <1>4, PrioritisedFrom, ExtendOffers
<1>5. Offered(kept) /\ verdict' = v
  BY <1>1, <1>3, <1>4 DEF Leaf, Offered
<1> QED
  BY <1>1, <1>2, <1>5, OfferedWider

LEMMA FilterShapes ==
    ASSUME Typed, Filters
    PROVE  FilterShape
<1>1. CASE FilterLayer
  <2>1. at = "filter" /\ verdict = "none" /\ program = Layer
    BY <1>1 DEF FilterLayer, Filtering
  <2>2. /\ UNCHANGED <<setting, start>> /\ UNCHANGED cnt
        /\ layer_count' = Counted /\ node_count' = node_count
    BY <1>1 DEF FilterLayer
  <2>3. CASE vis' = Known /\ Leaf("no")
    BY <2>1, <2>2, <2>3 DEF FilterShape, LayerShape, Leaf, Offered
  <2>4. CASE ExtendLayer("yes")
    <3>1. PICK kept \in Kept(graph[cur]) :
              /\ vis' = KnownWith(kept) /\ verdict' = "yes"
              /\ Offered(kept) /\ Offered(graph[cur])
      BY <2>1, <2>4, ExtendLayerShape
    <3> QED
      BY <2>1, <2>2, <3>1 DEF FilterShape, LayerShape
  <2> QED
    BY <1>1, <2>3, <2>4 DEF FilterLayer
<1>2. CASE FilterNode
  <2>1. at = "filter" /\ verdict = "none" /\ program = Node
    BY <1>2 DEF FilterNode, Filtering
  <2>2. /\ UNCHANGED <<setting, start>> /\ UNCHANGED layer_count
        /\ cnt' = [cnt EXCEPT ![cur] = @ + 1] /\ node_count' = node_count
    BY <1>2 DEF FilterNode
  <2>3. CASE vis' = Known /\ Leaf("yes")
    BY <2>1, <2>2, <2>3 DEF FilterShape, NodeShape, Leaf, Offered
  <2>4. ASSUME ~Exhausted(cnt[cur] + 1, Known[cur]),
               NEW sampled \in Shuffled(graph[cur]), vis' = KnownWith(sampled),
               Extend(DefaultEntries(sampled), "yes")
        PROVE  FilterShape
    <3>1. sampled \in Seq(Nodes) /\ Range(sampled) \subseteq Range(graph[cur])
      BY <2>1, ShuffledFrom, NeighboursTyped DEF Typed, GuestTypeOK
    <3>2. Offered(sampled) /\ verdict' = "yes"
      BY <2>4, <3>1, DefaultsFrom, ExtendOffers
    <3>3. Offered(graph[cur])
      BY <3>1, <3>2, OfferedWider
    <3> QED
      BY <2>1, <2>2, <2>4, <3>2, <3>3 DEF FilterShape, NodeShape
  <2> QED
    BY <1>2, <2>3, <2>4 DEF FilterNode
<1>3. CASE FilterSubgraph
  <2>1. /\ at = "filter" /\ verdict = "none" /\ program # Layer
        /\ UNCHANGED <<setting, start, vis, cnt, layer_count>>
        /\ node_count' = node_count + 1
    BY <1>3 DEF FilterSubgraph, Filtering, Subgraph, Layer
  <2>2. Offered(graph[cur]) /\ verdict' \in {"yes", "no"}
    <3>1. CASE Leaf("no") \/ Leaf("yes")
      BY <3>1 DEF Leaf, Offered
    <3>2. ASSUME NEW entries \in Prioritised(graph[cur]), Extend(entries, "yes")
          PROVE  Offered(graph[cur]) /\ verdict' \in {"yes", "no"}
      BY <2>1, <3>2, NeighboursTyped, PrioritisedFrom, ExtendOffers
    <3> QED
      BY <1>3, <3>1, <3>2 DEF FilterSubgraph
  <2> QED
    BY <2>1, <2>2 DEF FilterShape
<1>4. CASE FilterData
  BY <1>4 DEF FilterData, Filtering, Leaf, Offered, FilterShape, memory, Data, Layer
<1> QED
  BY <1>1, <1>2, <1>3, <1>4 DEF Filters

-----------------------------------------------------------------------------
(* The steps of the block under a program.                                  *)

\* An edge is entered, while nothing runs; nothing else of the program changes.
Grow ==
    /\ method = "none"
    /\ UNCHANGED <<block, program, start, verdict, memory, taken>>
    /\ \E nid, dst \in Nodes : graph' = EnteredBack(graph, nid, dst)

\* The steps of a program on a given graph, and those that make the graph.
AnyNext == SamplerNext \/ Grow

\* The shape of any step outside filter().
OuterShape ==
    \/ \E ok \in BOOLEAN : Load(ok)
    \/ \E s \in Nodes : Sample(s)
    \/ Return
    \/ Silent
    \/ End

LEMMA BlockSteps ==
    ASSUME Typed, [AnyNext]_samplerVars
    PROVE  \/ [Next]_block
           \/ \E entries \in Seq(Entry) : ExtendNode(entries)
<1>1. CASE Filters
  BY <1>1, FilterShapes DEF FilterShape, Offered, block
<1>2. CASE OuterShape
  BY <1>2, PrioritiesAssumption DEF OuterShape, Load, Sample, Return, Silent, End,
     Next, Owner, Block
<1>3. CASE Grow \/ UNCHANGED samplerVars
  BY <1>3 DEF Grow, samplerVars, block
<1> QED
  BY <1>1, <1>2, <1>3 DEF AnyNext, SamplerNext, Run, OuterShape, Filters

LEMMA BlockTypeStep ==
    ASSUME Typed, [AnyNext]_samplerVars
    PROVE  TypeOK'
<1>1. CASE [Next]_block
  BY <1>1, TypeStep DEF Typed, block
<1>2. ASSUME NEW entries \in Seq(Entry), ExtendNode(entries)
      PROVE  TypeOK'
  BY <1>2, BoundsAssumption DEF ExtendNode, HostCall, Typed, TypeOK, config, store,
     history, Methods
<1> QED
  BY <1>1, <1>2, BlockSteps

-----------------------------------------------------------------------------
(* Types of the program.                                                    *)

LEMMA KnownType ==
    ASSUME Typed, at = "filter"
    PROVE  /\ DOMAIN Known = DOMAIN vis \cup {cur}
           /\ DOMAIN Known \subseteq Nodes
           /\ \A n \in DOMAIN Known : Known[n] \in 0 .. MaxDepth
           /\ \A n \in DOMAIN vis : Known[n] = vis[n]
           /\ cur \in DOMAIN Known
           /\ cur \notin DOMAIN vis => Known[cur] = 0
<1>1. DOMAIN vis \subseteq Nodes /\ \A n \in DOMAIN vis : vis[n] \in 0 .. MaxDepth
  BY DEF Typed, GuestTypeOK
<1>2. cur \in Nodes
  BY NeighboursTyped
<1> QED
  BY <1>1, <1>2, LimitsAssumption DEF Known

LEMMA KnownWithType ==
    ASSUME Typed, at = "filter", NEW nids, Range(nids) \subseteq Nodes,
           \A v \in Range(nids) : Depth(v) <= MaxDepth
    PROVE  /\ DOMAIN KnownWith(nids) = DOMAIN Known \cup Range(nids)
           /\ DOMAIN KnownWith(nids) \subseteq Nodes
           /\ \A n \in DOMAIN KnownWith(nids) :
                 /\ KnownWith(nids)[n] = Depth(n)
                 /\ KnownWith(nids)[n] \in 0 .. MaxDepth
<1>1. DOMAIN KnownWith(nids) = DOMAIN Known \cup Range(nids)
  BY DEF KnownWith
<1>2. \A n \in DOMAIN KnownWith(nids) : KnownWith(nids)[n] = Depth(n)
  BY DEF KnownWith
<1>3. \A n \in DOMAIN Known : Depth(n) \in 0 .. MaxDepth
  BY KnownType DEF Depth
<1>4. \A n \in Range(nids) : Depth(n) \in 0 .. MaxDepth
  <2>1. Known[cur] \in Nat
    BY KnownType
  <2>2. \A n \in Range(nids) : n \notin DOMAIN Known => Depth(n) = Known[cur] + 1
    BY DEF Depth
  <2> QED
    BY <1>3, <2>1, <2>2, LimitsAssumption
<1> QED
  BY <1>1, <1>2, <1>3, <1>4, KnownType

LEMMA GuestTypeInit == SamplerInit \/ RandomInit => Typed
<1> SUFFICES ASSUME SamplerInit \/ RandomInit
             PROVE  Typed
  OBVIOUS
<1>1. SamplerInit
  BY DEF RandomInit
<1>2. TypeOK
  BY <1>1, TypeInit DEF SamplerInit
<1>3. graph \in [Nodes -> Seq(Nodes)]
  BY <1>1, GraphsAssumption DEF SamplerInit
<1>4. vis = NoVisits /\ DOMAIN vis = {}
  BY <1>1 DEF SamplerInit, NoVisits
<1>5. vis \in [DOMAIN vis -> 0 .. MaxDepth]
  BY <1>4 DEF NoVisits
<1>6. cnt \in [Nodes -> Nat] /\ layer_count \in [0 .. MaxDepth -> Nat]
  BY <1>1 DEF SamplerInit, NoCounts, NoLayers
<1>7. /\ start = 0 /\ verdict = "none" /\ node_count = 0 /\ taken = {}
      /\ program \in Programs
  BY <1>1 DEF SamplerInit
<1> QED
  BY <1>2, <1>3, <1>4, <1>5, <1>6, <1>7 DEF Typed, GuestTypeOK

\* The counts of the layers, the running node counted in.
LEMMA CountedType ==
    ASSUME Typed, at = "filter"
    PROVE  Counted \in [0 .. MaxDepth -> Nat]
<1> DEFINE before == IF vis = NoVisits THEN NoLayers ELSE layer_count
<1>1. before \in [0 .. MaxDepth -> Nat]
  BY DEF NoLayers, Typed, GuestTypeOK
<1>2. Counted = [before EXCEPT ![Known[cur]] = @ + 1]
  BY DEF Counted
<1>3. Known[cur] \in 0 .. MaxDepth
  BY KnownType
<1> HIDE DEF before
<1> QED
  BY <1>1, <1>2, <1>3

LEMMA FilterTypes ==
    ASSUME Typed, Filters
    PROVE  /\ DOMAIN vis' \subseteq Nodes
           /\ vis' \in [DOMAIN vis' -> 0 .. MaxDepth]
           /\ cnt' \in [Nodes -> Nat]
           /\ layer_count' \in [0 .. MaxDepth -> Nat]
<1>1. FilterShape /\ at = "filter"
  BY FilterShapes DEF FilterShape
<1>2. /\ DOMAIN vis \subseteq Nodes
      /\ vis \in [DOMAIN vis -> 0 .. MaxDepth]
      /\ cnt \in [Nodes -> Nat]
      /\ layer_count \in [0 .. MaxDepth -> Nat]
  BY DEF Typed, GuestTypeOK
<1>3. /\ DOMAIN Known \subseteq Nodes
      /\ Known \in [DOMAIN Known -> 0 .. MaxDepth]
  <2>1. Known = [n \in DOMAIN Known |-> Known[n]]
    BY DEF Known
  <2> QED
    BY <1>1, <2>1, KnownType
<1>4. ASSUME NEW nids, Range(nids) \subseteq Nodes,
             \A v \in Range(nids) : Depth(v) <= MaxDepth, vis' = KnownWith(nids)
      PROVE  /\ DOMAIN vis' \subseteq Nodes
             /\ vis' \in [DOMAIN vis' -> 0 .. MaxDepth]
  <2>1. KnownWith(nids) = [n \in DOMAIN KnownWith(nids) |-> KnownWith(nids)[n]]
    BY DEF KnownWith
  <2> QED
    BY <1>1, <1>4, <2>1, KnownWithType
<1>5. graph[cur] \in Seq(Nodes) /\ cur \in Nodes
  BY <1>1, NeighboursTyped
<1>6. Range(graph[cur]) \subseteq Nodes
  BY <1>5, LenProperties DEF Range
<1>7. CASE LayerShape
  <2>1. cnt' = cnt /\ layer_count' \in [0 .. MaxDepth -> Nat]
    BY <1>1, <1>7, CountedType DEF LayerShape
  <2>2. CASE vis' = Known
    BY <1>2, <1>3, <2>1, <2>2
  <2>3. ASSUME NEW kept \in Kept(graph[cur]), vis' = KnownWith(kept)
        PROVE  DOMAIN vis' \subseteq Nodes /\ vis' \in [DOMAIN vis' -> 0 .. MaxDepth]
    <3>1. \A v \in Range(kept) : v \in Nodes /\ Depth(v) <= MaxDepth
      BY <1>5, <1>6, KeptFrom DEF Admits
    <3> QED
      BY <1>4, <2>3, <3>1
  <2> QED
    BY <1>2, <1>7, <2>1, <2>2, <2>3 DEF LayerShape
<1>8. CASE NodeShape
  <2>1. layer_count' = layer_count /\ cnt' \in [Nodes -> Nat]
    BY <1>2, <1>5, <1>8 DEF NodeShape
  <2>2. CASE vis' = Known
    BY <1>2, <1>3, <2>1, <2>2
  <2>3. ASSUME ~Exhausted(cnt[cur] + 1, Known[cur]),
               NEW sampled \in Shuffled(graph[cur]), vis' = KnownWith(sampled)
        PROVE  DOMAIN vis' \subseteq Nodes /\ vis' \in [DOMAIN vis' -> 0 .. MaxDepth]
    <3>1. Node \in Programs
      BY <1>8 DEF NodeShape, Typed, GuestTypeOK
    <3>2. Range(sampled) \subseteq Nodes
      BY <1>5, <1>6, <3>1, ShuffledFrom
    <3>3. Known[cur] + 1 <= MaxDepth
      <4>1. Known[cur] \in Nat /\ cnt[cur] \in Nat /\ MaxDepth \in Nat
        BY <1>1, <1>2, <1>5, KnownType, LimitsAssumption
      <4> QED
        BY <2>3, <4>1 DEF Exhausted
    <3>4. \A v \in Range(sampled) : Depth(v) <= MaxDepth
      <4>1. \A v \in DOMAIN Known : Known[v] <= MaxDepth
        BY <1>1, KnownType, LimitsAssumption
      <4> QED
        BY <3>3, <4>1 DEF Depth
    <3> QED
      BY <1>4, <2>3, <3>2, <3>4
  <2> QED
    BY <1>2, <1>8, <2>1, <2>2, <2>3 DEF NodeShape
<1>9. CASE UNCHANGED <<vis, cnt, layer_count>>
  BY <1>2, <1>9
<1> QED
  BY <1>1, <1>7, <1>8, <1>9 DEF FilterShape

LEMMA GuestTypeStep ==
    ASSUME Typed, [AnyNext]_samplerVars
    PROVE  Typed'
<1>1. TypeOK'
  BY BlockTypeStep
<1>2. CASE Filters
  <2>1. FilterShape /\ cur \in Nodes
    BY <1>2, FilterShapes, NeighboursTyped DEF FilterShape
  <2>2. /\ UNCHANGED <<program, graph, start>> /\ node_count' \in Nat
        /\ verdict' \in {"none", "yes", "no"}
    BY <2>1 DEF FilterShape, setting, Typed, GuestTypeOK
  <2>3. taken' \subseteq Nodes \X Nodes
    <3>1. taken \subseteq Nodes \X Nodes
      BY DEF Typed, GuestTypeOK
    <3>2. CASE taken' = taken
      BY <3>1, <3>2
    <3>3. ASSUME NEW entries \in Seq(Entry),
                 taken' = taken \cup {<<cur, e.nid>> : e \in Range(entries)}
          PROVE  taken' \subseteq Nodes \X Nodes
      <4>1. \A e \in Range(entries) : e.nid \in Nodes
        <5>1. \A i \in DOMAIN entries : entries[i] \in Entry
          BY LenProperties
        <5> QED
          BY <5>1 DEF Range, Entry
      <4> QED
        BY <2>1, <3>1, <3>3, <4>1
    <3> QED
      BY <2>1, <3>2, <3>3 DEF FilterShape, Offered
  <2> QED
    BY <1>1, <1>2, <2>2, <2>3, FilterTypes DEF Typed, GuestTypeOK
<1>3. CASE OuterShape
  <2> USE DEF Typed, GuestTypeOK, setting, memory
  <2>1. /\ NoVisits \in [DOMAIN NoVisits -> 0 .. MaxDepth]
        /\ DOMAIN NoVisits \subseteq Nodes
    BY DEF NoVisits
  <2>2. NoCounts \in [Nodes -> Nat] /\ NoLayers \in [0 .. MaxDepth -> Nat]
    BY DEF NoCounts, NoLayers
  <2> HIDE DEF NoVisits, NoCounts, NoLayers
  <2>3. ASSUME NEW ok \in BOOLEAN, Load(ok)
        PROVE  GuestTypeOK'
    BY <2>1, <2>2, <2>3 DEF Load
  <2>4. ASSUME NEW s \in Nodes, Sample(s)
        PROVE  GuestTypeOK'
    BY <2>4 DEF Sample
  <2>5. CASE Return \/ Silent
    <3>1. /\ UNCHANGED <<program, graph, start, vis, cnt, layer_count,
                         node_count, taken>>
          /\ verdict' \in {verdict, "none"}
      BY <2>5 DEF Return, Silent
    <3> QED
      BY <1>1, <3>1
  <2>6. CASE End
    <3>1. UNCHANGED <<program, graph, start, verdict, layer_count, taken>>
      BY <2>6 DEF End
    <3>2. CASE vis' = NoVisits /\ cnt' = NoCounts /\ node_count' = 0
      BY <1>1, <2>1, <2>2, <3>1, <3>2
    <3>3. CASE UNCHANGED <<vis, cnt, node_count>>
      BY <1>1, <3>1, <3>3
    <3> QED
      BY <2>6, <3>2, <3>3 DEF End, Reset
  <2> QED
    BY <1>1, <1>3, <2>3, <2>4, <2>5, <2>6 DEF OuterShape
<1>4. CASE Grow
  <2>1. UNCHANGED <<program, start, verdict, memory, taken>>
    BY <1>4 DEF Grow
  <2>2. graph' \in [Nodes -> Seq(Nodes)]
    <3>1. PICK nid \in Nodes, dst \in Nodes : graph' = EnteredBack(graph, nid, dst)
      BY <1>4 DEF Grow
    <3>2. graph \in [Nodes -> Seq(Nodes)]
      BY DEF Typed, GuestTypeOK
    <3>3. Append(graph[dst], nid) \in Seq(Nodes)
      BY <3>2, AppendProperties
    <3>4. graph' = [graph EXCEPT ![dst] = Append(graph[dst], nid)]
      BY <3>1 DEF EnteredBack
    <3> QED
      BY <3>2, <3>3, <3>4
  <2> QED
    BY <1>1, <2>1, <2>2 DEF Typed, GuestTypeOK, memory
<1>5. CASE UNCHANGED samplerVars
  BY <1>1, <1>5 DEF samplerVars, setting, memory, Typed, GuestTypeOK
<1> QED
  BY <1>2, <1>3, <1>4, <1>5 DEF AnyNext, SamplerNext, Run, OuterShape, Filters

-----------------------------------------------------------------------------
(* The generated graphs.                                                    *)

\* The types of what RandomGraph adds, and that nothing runs before the graph is made.
RandomTyped ==
    /\ outcome \in [Nodes -> [1 .. Degree -> Nodes]]
    /\ odatas \in [Nodes -> Seq(Nodes)]
    /\ Generated \/ method = "none"

LEMMA RandomTypeInit == RandomInit => RandomTyped
<1>1. NoEdges \in [Nodes -> Seq(Nodes)]
  BY EmptySeq DEF NoEdges
<1> QED
  BY <1>1, OutcomesAssumption DEF RandomInit, SamplerInit, Init, RandomTyped

\* What AddEdge adds: an edge from nid to dst.
Entering(nid, dst) ==
    /\ odatas' = [odatas EXCEPT ![nid] = Append(@, dst)]
    /\ graph' = EnteredBack(graph, nid, dst)

LEMMA AddEdgeEnters ==
    ASSUME RandomTyped, AddEdge
    PROVE  /\ \E nid, dst \in Nodes : Entering(nid, dst)
           /\ method = "none"
           /\ UNCHANGED <<block, program, start, verdict, memory, taken, outcome>>
<1>1. PICK nid \in Nodes :
         /\ Len(odatas[nid]) < Degree
         /\ LET dst == outcome[nid][Len(odatas[nid]) + 1]
            IN  /\ odatas' = [odatas EXCEPT ![nid] = Append(@, dst)]
                /\ graph' = EnteredBack(graph, nid, dst)
  BY DEF AddEdge
<1> DEFINE i == Len(odatas[nid]) + 1
<1>2. i \in 1 .. Degree
  <2>1. odatas[nid] \in Seq(Nodes)
    BY DEF RandomTyped
  <2>2. Len(odatas[nid]) \in Nat
    BY <2>1, LenProperties
  <2> QED
    BY <1>1, <2>2, OutcomesAssumption
<1>3. Entering(nid, outcome[nid][i])
  BY <1>1 DEF Entering
<1> HIDE DEF i
<1>4. outcome[nid][i] \in Nodes
  BY <1>2 DEF RandomTyped
<1>5. method = "none"
  <2>1. Len(odatas[nid]) # Degree
    <3>1. odatas[nid] \in Seq(Nodes)
      BY DEF RandomTyped
    <3> QED
      BY <1>1, <3>1, LenProperties, OutcomesAssumption
  <2> QED
    BY <2>1 DEF RandomTyped, Generated
<1> QED
  BY <1>3, <1>4, <1>5 DEF AddEdge

LEMMA RandomSteps ==
    ASSUME RandomTyped, [RandomNext]_generatedVars
    PROVE  RandomTyped' /\ [AnyNext]_samplerVars
<1>1. CASE AddEdge
  <2>1. /\ method = "none"
        /\ UNCHANGED <<block, program, start, verdict, memory, taken, outcome>>
    BY <1>1, AddEdgeEnters
  <2>2. PICK nid \in Nodes, dst \in Nodes : Entering(nid, dst)
    BY <1>1, AddEdgeEnters
  <2>3. Grow
    BY <2>1, <2>2 DEF Grow, Entering
  <2>4. odatas' \in [Nodes -> Seq(Nodes)]
    <3>1. Append(odatas[nid], dst) \in Seq(Nodes)
      BY AppendProperties DEF RandomTyped
    <3>2. odatas' = [odatas EXCEPT ![nid] = Append(odatas[nid], dst)]
      BY <2>2 DEF Entering
    <3> QED
      BY <3>1, <3>2 DEF RandomTyped
  <2>5. method' = method
    BY <2>1 DEF block, vars
  <2> QED
    BY <2>1, <2>3, <2>4, <2>5 DEF RandomTyped, AnyNext
<1>2. CASE RandomNext /\ ~AddEdge
  <2>1. UNCHANGED randomVars /\ Generated
    BY <1>2 DEF RandomNext, RunGenerated
  <2>2. SamplerNext
    BY <1>2 DEF RandomNext, RunGenerated, SamplerNext
  <2> QED
    BY <2>1, <2>2 DEF randomVars, RandomTyped, Generated, AnyNext
<1>3. CASE UNCHANGED generatedVars
  BY <1>3 DEF generatedVars, randomVars, samplerVars, block, vars, RandomTyped, Generated
<1> QED
  BY <1>1, <1>2, <1>3

\* The programs on any graph, given or generated.
ProgramSpec == (SamplerInit \/ RandomInit) /\ [][AnyNext]_samplerVars

LEMMA ProgramsRun == SamplerSpec \/ RandomSpec => ProgramSpec
<1>1. [SamplerNext]_samplerVars => [AnyNext]_samplerVars
  BY DEF AnyNext
<1>2. RandomInit => RandomTyped
  BY RandomTypeInit
<1>3. RandomTyped /\ [RandomNext]_generatedVars => RandomTyped'
  BY RandomSteps
<1>4. RandomTyped /\ [RandomNext]_generatedVars => [AnyNext]_samplerVars
  BY RandomSteps
<1>5. SamplerSpec => ProgramSpec
  BY <1>1, PTL DEF SamplerSpec, ProgramSpec
<1>6. RandomSpec => ProgramSpec
  BY <1>2, <1>3, <1>4, PTL DEF RandomSpec, ProgramSpec
<1> QED
  BY <1>5, <1>6, PTL

LEMMA ProgramTyped == ProgramSpec => []Typed
<1>1. SamplerInit \/ RandomInit => Typed
  BY GuestTypeInit
<1>2. Typed /\ [AnyNext]_samplerVars => Typed'
  BY GuestTypeStep
<1> QED
  BY <1>1, <1>2, PTL DEF ProgramSpec

-----------------------------------------------------------------------------
(* A program is a guest of a block.                                         *)

\* The guest of SchedulerBlock passes any span of nodes and of priorities.
AnySpan == NidSpans = Seq(Nodes) /\ PrioSpans = Seq(Priorities)

\* A filter() of a program makes one call to the block that any guest may make,
\* or none.
LEMMA FilterIsGuest ==
    ASSUME AnySpan, Typed, Filters
    PROVE  Guest \/ UNCHANGED block
<1>1. ASSUME NEW nids \in Seq(Nodes), NEW entries \in Prioritised(nids), NEW v,
             Extend(entries, v)
      PROVE  Guest
  <2>1. PICK ps \in [DOMAIN nids -> Priorities] : entries = PairedEntries(nids, ps)
    BY <1>1 DEF Prioritised
  <2>2. ps \in Seq(Priorities)
    <3>1. DOMAIN nids = 1 .. Len(nids) /\ Len(nids) \in Nat
      BY <1>1, LenProperties
    <3> QED
      BY <2>1, <3>1
  <2>3. nids \in NidSpans /\ ps \in PrioSpans /\ ExtendNode(PairedEntries(nids, ps))
    BY <1>1, <2>1, <2>2 DEF AnySpan, Extend
  <2> QED
    BY <2>3 DEF Guest
<1>2. ASSUME NEW v, Leaf(v)
      PROVE  UNCHANGED block
  BY <1>2 DEF Leaf
<1>3. cur \in Nodes /\ graph[cur] \in Seq(Nodes) /\ at = "filter"
  <2>1. at = "filter"
    BY DEF Filters, FilterLayer, FilterNode, FilterSubgraph, FilterData, Filtering
  <2> QED
    BY <2>1, NeighboursTyped
<1>4. CASE FilterLayer
  <2>1. ASSUME NEW v, ExtendLayer(v)
        PROVE  Guest \/ UNCHANGED block
    <3>1. PICK kept \in Kept(graph[cur]) :
             IF graph[cur] = <<>> THEN Leaf(v)
             ELSE \E entries \in Prioritised(kept) : Extend(entries, v)
      BY <2>1 DEF ExtendLayer
    <3>2. kept \in Seq(Nodes)
      BY <1>3, KeptFrom
    <3> QED
      BY <1>1, <1>2, <3>1, <3>2
  <2> QED
    BY <1>2, <1>4, <2>1 DEF FilterLayer
<1>5. CASE FilterNode
  <2>1. ASSUME NEW sampled \in Shuffled(graph[cur]),
               Extend(DefaultEntries(sampled), "yes")
        PROVE  Guest
    <3>1. sampled \in Seq(Nodes)
      <4>1. Node \in Programs
        BY <1>5 DEF FilterNode, Filtering, Typed, GuestTypeOK
      <4> QED
        BY <1>3, <4>1, ShuffledFrom
    <3> QED
      BY <2>1, <3>1 DEF Extend, AnySpan, Guest
  <2> QED
    BY <1>2, <1>5, <2>1 DEF FilterNode
<1>6. CASE FilterSubgraph
  BY <1>1, <1>2, <1>3, <1>6 DEF FilterSubgraph
<1>7. CASE FilterData
  BY <1>2, <1>7 DEF FilterData
<1> QED
  BY <1>4, <1>5, <1>6, <1>7 DEF Filters

LEMMA ProgramBlockStep ==
    ASSUME AnySpan, Typed, [AnyNext]_samplerVars
    PROVE  [Next]_block
<1>1. CASE Filters
  BY <1>1, FilterIsGuest DEF Next
<1>2. CASE OuterShape
  BY <1>2, PrioritiesAssumption DEF OuterShape, Load, Sample, Return, Silent, End,
     Next, Owner, Block
<1>3. CASE Grow \/ UNCHANGED samplerVars
  BY <1>3 DEF Grow, samplerVars, block
<1> QED
  BY <1>1, <1>2, <1>3 DEF AnyNext, SamplerNext, Run, OuterShape, Filters

\* The sampling programs implement the guest of SchedulerBlock: whatever graph they
\* walk, given or generated, the block under them does what it does under a guest
\* that is free to make any call.
THEOREM ProgramsAreGuests ==
    ASSUME AnySpan
    PROVE  SamplerSpec \/ RandomSpec => Spec
<1>1. SamplerInit \/ RandomInit => Init
  BY DEF SamplerInit, RandomInit
<1>2. Typed /\ [AnyNext]_samplerVars => [Next]_vars
  BY ProgramBlockStep DEF block
<1> QED
  BY <1>1, <1>2, ProgramsRun, ProgramTyped, PTL DEF ProgramSpec, Spec

\* So the queue serves them in its order: FIFO lets nothing overtake, PRIO visits
\* what nothing queued outranks.
COROLLARY ProgramsKeepOrder ==
    ASSUME AnySpan
    PROVE  SamplerSpec \/ RandomSpec => FifoNeverOvertakes /\ PrioHighestFirst
BY ProgramsAreGuests, FifoOrder, PrioOrder, PTL

-----------------------------------------------------------------------------
(* The theorems about types, visits and edges.                              *)

\* In every program on every graph, given or generated, the globals keep their
\* types: filter() of layer_wise indexes layer_count between 0 and max_depth, and
\* no vis of node_wise is beyond max_depth.
THEOREM ProgramTypeCorrect == SamplerSpec \/ RandomSpec => []GuestTypeOK
<1>1. Typed => GuestTypeOK
  BY DEF Typed
<1> QED
  BY <1>1, ProgramsRun, ProgramTyped, PTL

LEMMA ProgramAccountedStep ==
    ASSUME Typed, Accounted, [AnyNext]_samplerVars
    PROVE  Accounted'
<1>1. CASE [Next]_block
  BY <1>1, AccountedStep DEF Typed, block
<1>2. ASSUME NEW entries \in Seq(Entry), ExtendNode(entries)
      PROVE  Accounted'
  <2>1. UNCHANGED <<dedup, Q, distinct, visited>>
    BY <1>2 DEF ExtendNode, config, store, history
  <2> QED
    BY <2>1 DEF Accounted, VisitedOnce, NothingLost, IsInjective
<1> QED
  BY <1>1, <1>2, BlockSteps

\* Whatever a program extends, the block calls its filter() at most once for a
\* node of a sample, loses no node that it offered and has no more visits to make
\* than nodes (for node_wise, which runs with distinct off, this says nothing).
THEOREM ProgramsVisitOnce ==
    SamplerSpec \/ RandomSpec => [](VisitedOnce /\ NothingLost /\ ScheduleFits)
<1>1. SamplerInit \/ RandomInit => Accounted
  BY AccountedInit DEF SamplerInit, RandomInit
<1>2. Typed /\ Accounted /\ [AnyNext]_samplerVars => Accounted'
  BY ProgramAccountedStep
<1>3. Typed /\ Accounted => VisitedOnce /\ NothingLost /\ ScheduleFits
  BY AccountedFits DEF Typed, Accounted
<1> QED
  BY <1>1, <1>2, <1>3, ProgramsRun, ProgramTyped, PTL DEF ProgramSpec

LEMMA TimesOfAppend ==
    ASSUME NEW s \in Seq(Nodes), NEW e \in Nodes, NEW n \in Nodes
    PROVE  /\ Times(n, s) \in Nat
           /\ Times(n, Append(s, e)) = IF n = e THEN Times(n, s) + 1 ELSE Times(n, s)
<1> DEFINE Places(q) == {i \in DOMAIN q : q[i] = n}
           last == Len(s) + 1
           t == Append(s, e)
<1>1. /\ Len(s) \in Nat /\ DOMAIN s = 1 .. Len(s)
      /\ DOMAIN t = 1 .. last /\ t[last] = e
      /\ \A i \in DOMAIN s : t[i] = s[i]
  BY AppendProperties, LenProperties
<1>2. last \notin DOMAIN s /\ DOMAIN t = DOMAIN s \cup {last}
  BY <1>1
<1> HIDE DEF last, t
<1>3. Places(t) = IF n = e THEN Places(s) \cup {last} ELSE Places(s)
  BY <1>1, <1>2
<1>4. IsFiniteSet(Places(s)) /\ last \notin Places(s)
  <2>1. IsFiniteSet(1 .. Len(s)) /\ Places(s) \in SUBSET (1 .. Len(s))
    BY <1>1, FS_Interval
  <2>2. IsFiniteSet(Places(s))
    BY <2>1, FS_Subset
  <2> QED
    BY <1>2, <2>2
<1>5. Times(n, s) = Cardinality(Places(s)) /\ Times(n, t) = Cardinality(Places(t))
  BY DEF Times
<1> HIDE DEF Places
<1>6. Cardinality(Places(s)) \in Nat
  BY <1>4, FS_CardinalityType
<1>7. Cardinality(Places(s) \cup {last}) = Cardinality(Places(s)) + 1
  BY <1>4, FS_AddElement
<1> QED
  BY <1>3, <1>5, <1>6, <1>7 DEF t

LEMMA EdgesMirroredStep ==
    ASSUME Typed, RandomTyped, EdgesMirrored, [RandomNext]_generatedVars
    PROVE  EdgesMirrored'
<1>1. ASSUME NEW nid \in Nodes, NEW dst \in Nodes, Entering(nid, dst)
      PROVE  EdgesMirrored'
  <2>1. /\ odatas \in [Nodes -> Seq(Nodes)] /\ graph \in [Nodes -> Seq(Nodes)]
        /\ odatas' = [odatas EXCEPT ![nid] = Append(odatas[nid], dst)]
        /\ graph' = [graph EXCEPT ![dst] = Append(graph[dst], nid)]
    BY <1>1 DEF Entering, EnteredBack, Typed, GuestTypeOK, RandomTyped
  <2> SUFFICES ASSUME NEW u \in Nodes, NEW v \in Nodes
               PROVE  Times(v, odatas'[u]) = Times(u, graph'[v])
    BY DEF EdgesMirrored
  <2>2. Times(v, odatas[u]) = Times(u, graph[v])
    BY DEF EdgesMirrored
  <2>3. Times(v, odatas'[u]) = IF u = nid /\ v = dst THEN Times(v, odatas[u]) + 1
                               ELSE Times(v, odatas[u])
    <3>1. CASE u = nid
      <4>1. odatas'[u] = Append(odatas[nid], dst) /\ odatas[nid] \in Seq(Nodes)
        BY <2>1, <3>1
      <4> QED
        BY <3>1, <4>1, TimesOfAppend
    <3>2. CASE u # nid
      BY <2>1, <3>2
    <3> QED
      BY <3>1, <3>2
  <2>4. Times(u, graph'[v]) = IF u = nid /\ v = dst THEN Times(u, graph[v]) + 1
                              ELSE Times(u, graph[v])
    <3>1. CASE v = dst
      <4>1. graph'[v] = Append(graph[dst], nid) /\ graph[dst] \in Seq(Nodes)
        BY <2>1, <3>1
      <4> QED
        BY <3>1, <4>1, TimesOfAppend
    <3>2. CASE v # dst
      BY <2>1, <3>2
    <3> QED
      BY <3>1, <3>2
  <2> QED
    BY <2>2, <2>3, <2>4
<1>2. CASE AddEdge
  BY <1>1, <1>2, AddEdgeEnters
<1>3. CASE UNCHANGED <<odatas, graph>>
  BY <1>3 DEF EdgesMirrored
<1>4. RandomNext => AddEdge \/ UNCHANGED odatas
  BY DEF RandomNext, RunGenerated, randomVars
<1>5. RandomNext => AddEdge \/ UNCHANGED setting
  <2>1. Filters => UNCHANGED setting
    BY FilterShapes DEF FilterShape
  <2>2. OuterShape => UNCHANGED setting
    BY DEF OuterShape, Load, Sample, Return, Silent, End
  <2>3. RandomNext => AddEdge \/ Filters \/ OuterShape
    BY DEF RandomNext, RunGenerated, Run, Filters, OuterShape
  <2> QED
    BY <2>1, <2>2, <2>3
<1> QED
  BY <1>2, <1>3, <1>4, <1>5 DEF generatedVars, samplerVars, setting, randomVars

\* gen_random_graph, at every size and for every outcome of its random engine:
\* after each edge, idata is the reverse of odata, parallel edges counted.
THEOREM GraphsAreMirrored == RandomSpec => []EdgesMirrored
<1>1. RandomInit => RandomTyped /\ Typed
  BY RandomTypeInit, GuestTypeInit
<1>2. RandomInit => EdgesMirrored
  <2>1. \A n \in Nodes : NoEdges[n] = <<>>
    BY DEF NoEdges
  <2>2. \A n \in Nodes : Times(n, <<>>) = Cardinality({})
    <3>1. \A n \in Nodes : {i \in DOMAIN <<>> : <<>>[i] = n} = {}
      OBVIOUS
    <3> QED
      BY <3>1 DEF Times
  <2> HIDE DEF NoEdges
  <2> QED
    BY <2>1, <2>2 DEF RandomInit, EdgesMirrored
<1>3. RandomTyped /\ [RandomNext]_generatedVars => RandomTyped'
  BY RandomSteps
<1>4. RandomTyped /\ Typed /\ [RandomNext]_generatedVars => Typed'
  BY RandomSteps, GuestTypeStep
<1>5. Typed /\ RandomTyped /\ EdgesMirrored /\ [RandomNext]_generatedVars
      => EdgesMirrored'
  BY EdgesMirroredStep
<1> QED
  BY <1>1, <1>2, <1>3, <1>4, <1>5, PTL DEF RandomSpec

-----------------------------------------------------------------------------
(* The layers of layer_wise.                                                *)

\* Where the block is when its owner calls initialize() and sample() only.
Phases ==
    /\ method \in {"none", "initialize", "sample"}
    /\ at = "idle" <=> method = "none"
    /\ at = "ctors" <=> method = "initialize"
    /\ pending # <<>> => at = "filter"
    /\ verdict # "none" => at = "filter"
    /\ at = "filter" => wasm

Waiting == Queued(Q) \cup {e.nid : e \in Range(pending)}

\* Between two samples vis is empty.
ClearedBetween == method # "sample" \/ ~wasm => vis = NoVisits

\* Until the first filter() of a sample vis is empty, and that one is for start.
StartFirst ==
    vis = NoVisits /\ method = "sample" =>
        /\ pending = <<>> /\ verdict = "none"
        /\ Queued(Q) \subseteq {start}
        /\ at = "filter" => cur = start

\* From then on what waits has a layer, and start is alone in the first one.
HasLayers ==
    vis # NoVisits =>
        /\ Waiting \subseteq DOMAIN vis
        /\ start \in DOMAIN vis
        /\ at = "filter" => cur \in DOMAIN vis
        /\ \A v \in DOMAIN vis : vis[v] = 0 <=> v = start

Layered ==
    /\ Phases
    /\ program = Layer => ClearedBetween /\ StartFirst /\ HasLayers

LEMMA LayeredInit == SamplerInit \/ RandomInit => Layered
BY DEF SamplerInit, RandomInit, Init, Layered, Phases, ClearedBetween, StartFirst,
       HasLayers, NoVisits

LEMMA PhasesStep ==
    ASSUME Typed, Phases, [AnyNext]_samplerVars
    PROVE  Phases'
<1>1. CASE Filters
  <2>1. FilterShape
    BY <1>1, FilterShapes
  <2>2. UNCHANGED <<method, at, wasm>>
    BY <2>1 DEF FilterShape, Offered, block, vars, ExtendNode
  <2> QED
    BY <2>1, <2>2 DEF FilterShape, Phases
<1>2. ASSUME NEW ok \in BOOLEAN, Load(ok)
      PROVE  Phases'
  BY <1>2 DEF Load, Initialize, Calls, Phases
<1>3. ASSUME NEW s \in Nodes, Sample(s)
      PROVE  Phases'
  BY <1>3 DEF Sample, EnterSample, Calls, Phases
<1>4. CASE Return
  BY <1>4 DEF Return, FilterReturn, PollReturns, Phases
<1>5. CASE Silent
  <2>1. verdict' = verdict
    BY <1>5 DEF Silent
  <2>2. CASE Initialized
    BY <2>1, <2>2 DEF Initialized, Phases
  <2>3. CASE PollIdle
    BY <2>1, <2>3 DEF PollIdle, PollReturns, Phases
  <2>4. CASE PollPop
    BY <2>1, <2>4 DEF PollPop, Phases
  <2>5. CASE ExtendStep
    BY <2>1, <2>5 DEF ExtendStep, Phases
  <2> QED
    BY <1>5, <2>2, <2>3, <2>4, <2>5 DEF Silent
<1>6. CASE End
  BY <1>6 DEF End, Finish, Phases
<1>7. CASE Grow \/ UNCHANGED samplerVars
  BY <1>7 DEF Grow, samplerVars, block, vars, Phases
<1> QED
  BY <1>1, <1>2, <1>3, <1>4, <1>5, <1>6, <1>7
     DEF AnyNext, SamplerNext, Run, Filters

\* The first filter() of a sample is for start, a later one for a node of vis.
LEMMA RunningNode ==
    ASSUME Typed, Layered, program = Layer, at = "filter"
    PROVE  /\ method = "sample"
           /\ DOMAIN Known \subseteq DOMAIN vis \cup {start}
           /\ Waiting \subseteq DOMAIN Known
           /\ start \in DOMAIN Known
           /\ \A v \in DOMAIN Known : Known[v] = 0 <=> v = start
<1>1. method = "sample"
  BY DEF Layered, Phases
<1>2. DOMAIN Known = DOMAIN vis \cup {cur}
  BY KnownType
<1>3. CASE vis = NoVisits
  <2>1. cur = start /\ pending = <<>> /\ Queued(Q) \subseteq {start}
    BY <1>1, <1>3 DEF Layered, StartFirst
  <2>2. DOMAIN vis = {}
    BY <1>3 DEF NoVisits
  <2>3. Known[cur] = 0
    BY <2>2, KnownType
  <2>4. Waiting \subseteq {start}
    BY <2>1 DEF Waiting, Range
  <2> QED
    BY <1>1, <1>2, <2>1, <2>2, <2>3, <2>4
<1>4. CASE vis # NoVisits
  <2>1. /\ Waiting \subseteq DOMAIN vis
        /\ start \in DOMAIN vis /\ cur \in DOMAIN vis
        /\ \A v \in DOMAIN vis : vis[v] = 0 <=> v = start
    BY <1>4 DEF Layered, HasLayers
  <2>2. \A v \in DOMAIN vis : Known[v] = vis[v]
    BY KnownType
  <2> QED
    BY <1>1, <1>2, <2>1, <2>2
<1> QED
  BY <1>3, <1>4

\* What a filter() of layer_wise makes of vis.
LayerStep(nids) ==
    /\ DOMAIN vis' = DOMAIN Known \cup Range(nids)
    /\ Range(nids) \subseteq Neighbours(cur)
    /\ \A v \in DOMAIN Known : vis'[v] = Known[v]
    /\ \A v \in Range(nids) \ DOMAIN Known :
          vis'[v] = Known[cur] + 1 /\ verdict' = "yes"
    /\ verdict' \in {"yes", "no"}
    /\ Offered(nids)

LEMMA LayerSteps ==
    ASSUME Typed, Filters, program = Layer
    PROVE  \E nids : LayerStep(nids)
<1>1. FilterShape /\ LayerShape /\ at = "filter"
  BY FilterShapes DEF FilterShape, NodeShape, Node, Layer
<1>2. CASE vis' = Known /\ verdict' = "no" /\ UNCHANGED <<block, taken>>
  <2> DEFINE none == <<>>
  <2>1. Range(none) = {}
    BY DEF Range
  <2>2. Offered(none)
    BY <1>2 DEF Offered
  <2> HIDE DEF none
  <2>3. LayerStep(none)
    BY <1>2, <2>1, <2>2 DEF LayerStep
  <2> QED
    BY <2>3
<1>3. ASSUME NEW kept \in Kept(graph[cur]), vis' = KnownWith(kept), verdict' = "yes",
             Offered(kept)
      PROVE  LayerStep(kept)
  <2>1. /\ Range(kept) \subseteq Range(graph[cur])
        /\ \A v \in Range(kept) : v \in Nodes /\ Depth(v) <= MaxDepth
    <3>1. /\ kept \in Seq(Nodes)
          /\ \A v \in Range(kept) : v \in Range(graph[cur]) /\ Admits(v)
      BY <1>1, KeptFrom, NeighboursTyped
    <3>2. \A v \in Range(kept) : v \in Nodes
      BY <3>1, LenProperties DEF Range
    <3> QED
      BY <3>1, <3>2 DEF Admits
  <2>2. /\ DOMAIN vis' = DOMAIN Known \cup Range(kept)
        /\ \A v \in DOMAIN vis' : vis'[v] = Depth(v)
    BY <1>1, <1>3, <2>1, KnownWithType
  <2> QED
    BY <1>3, <2>1, <2>2 DEF LayerStep, Depth, Neighbours
<1> QED
  BY <1>1, <1>2, <1>3 DEF LayerShape

\* A pop takes a queued node.
LEMMA PopWaits ==
    ASSUME Typed, PollPop
    PROVE  cur' \in Queued(Q) /\ Queued(Q') \subseteq Queued(Q)
<1>1. Q \in Seq(Entry) /\ Q # <<>> /\ Q' = Tail(Q) /\ cur' = Head(Q).nid
  BY DEF PollPop, QueueTop, QueuePop, QueueEmpty, Typed, TypeOK
<1>2. /\ 1 \in DOMAIN Q /\ Head(Q) = Q[1]
      /\ \A i \in DOMAIN Q' : i + 1 \in DOMAIN Q /\ Q'[i] = Q[i + 1]
  BY <1>1, HeadTailProperties, LenProperties
<1> QED
  BY <1>1, <1>2 DEF Queued

\* A push lets nothing wait that did not wait before.
LEMMA ExtendWaits ==
    ASSUME Typed, ExtendStep
    PROVE  Waiting' \subseteq Waiting
<1>1. /\ pending \in Seq(Entry) /\ pending # <<>>
      /\ Q \in Seq(Entry) /\ type \in QueueTypes
      /\ PushNode(Head(pending).nid, Head(pending).p) /\ pending' = Tail(pending)
  BY DEF ExtendStep, Typed, TypeOK
<1> DEFINE first == Head(pending)
<1>2. /\ 1 \in DOMAIN pending /\ first = pending[1] /\ first \in Entry
      /\ \A i \in DOMAIN pending' :
            i + 1 \in DOMAIN pending /\ pending'[i] = pending[i + 1]
  BY <1>1, HeadTailProperties, LenProperties
<1>3. first \in Range(pending) /\ Range(pending') \subseteq Range(pending)
  BY <1>2 DEF Range
<1> HIDE DEF first
<1>4. first.nid \in Nodes /\ first.p \in Priorities
  BY <1>2 DEF Entry
<1>5. Queued(QueuePush(type, Q, first.nid, first.p)) = Queued(Q) \cup {first.nid}
  BY <1>1, <1>4, StoredType, QueuePushGains
<1>6. Queued(Q') \subseteq Queued(Q) \cup {first.nid}
  <2>1. Q' = QueuePush(type, Q, first.nid, first.p) \/ Q' = Q
    BY <1>1 DEF PushNode, store, first
  <2> QED
    BY <1>5, <2>1
<1> QED
  BY <1>3, <1>6 DEF Waiting

LEMMA OfferedWaits ==
    ASSUME NEW nids, Offered(nids)
    PROVE  Waiting' \subseteq Waiting \cup Range(nids)
<1>1. CASE UNCHANGED <<block, taken>>
  BY <1>1 DEF block, vars, Waiting, Queued
<1>2. ASSUME NEW entries \in Seq(Entry), NodesFrom(entries, nids), ExtendNode(entries)
      PROVE  Waiting' \subseteq Waiting \cup Range(nids)
  <2>1. Q' = Q /\ pending' = entries
    BY <1>2 DEF ExtendNode, store
  <2> QED
    BY <1>2, <2>1 DEF Waiting, NodesFrom, Queued
<1> QED
  BY <1>1, <1>2 DEF Offered

\* The layers keep their order in every step of layer_wise.
LayersKept == program = Layer => ClearedBetween /\ StartFirst /\ HasLayers

LEMMA LayeredFilter ==
    ASSUME Typed, Layered, Filters
    PROVE  LayersKept'
<1> SUFFICES ASSUME program' = Layer
             PROVE  ClearedBetween' /\ StartFirst' /\ HasLayers'
  BY DEF LayersKept
<1>1. FilterShape /\ at = "filter" /\ start' = start /\ program' = program
  BY FilterShapes DEF FilterShape, setting
<1>2. PICK nids : LayerStep(nids)
  BY <1>1, LayerSteps
<1>3. UNCHANGED <<method, at, wasm, cur>>
  BY <1>2 DEF LayerStep, Offered, block, vars, ExtendNode
<1>4. /\ method = "sample"
      /\ DOMAIN Known \subseteq DOMAIN vis \cup {start}
      /\ Waiting \subseteq DOMAIN Known
      /\ start \in DOMAIN Known
      /\ \A v \in DOMAIN Known : Known[v] = 0 <=> v = start
  BY <1>1, RunningNode
<1>5. wasm
  BY <1>1 DEF Layered, Phases
<1>6. ClearedBetween'
  BY <1>3, <1>4, <1>5 DEF ClearedBetween
<1>7. start' \in DOMAIN vis' /\ vis' # NoVisits
  BY <1>1, <1>2, <1>4 DEF LayerStep, NoVisits
<1>8. StartFirst'
  BY <1>7 DEF StartFirst
<1>9. HasLayers'
  <2>1. Waiting' \subseteq DOMAIN vis'
    BY <1>2, <1>4, OfferedWaits DEF LayerStep
  <2>2. cur' \in DOMAIN vis'
    BY <1>1, <1>2, <1>3, KnownType DEF LayerStep
  <2>3. \A v \in DOMAIN vis' : vis'[v] = 0 <=> v = start'
    <3>1. \A v \in DOMAIN Known : vis'[v] = Known[v]
      BY <1>2 DEF LayerStep
    <3>2. Known[cur] \in Nat
      BY <1>1, KnownType
    <3>3. \A v \in DOMAIN vis' \ DOMAIN Known : vis'[v] = Known[cur] + 1
      BY <1>2 DEF LayerStep
    <3>4. \A v \in DOMAIN vis' \ DOMAIN Known : vis'[v] # 0 /\ v # start
      BY <1>4, <3>2, <3>3
    <3> QED
      BY <1>1, <1>4, <3>1, <3>4
  <2> QED
    BY <1>7, <2>1, <2>2, <2>3 DEF HasLayers
<1> QED
  BY <1>6, <1>8, <1>9

LEMMA LayeredStep ==
    ASSUME Typed, Layered, [AnyNext]_samplerVars
    PROVE  Layered'
<1>1. Phases'
  BY PhasesStep DEF Layered
<1> SUFFICES ASSUME program' = Layer
             PROVE  ClearedBetween' /\ StartFirst' /\ HasLayers'
  BY <1>1 DEF Layered
<1>2. Phases
  BY DEF Layered
<1>3. CASE Filters
  BY <1>3, LayeredFilter DEF LayersKept
<1>4. CASE vis' = NoVisits /\ method' # "sample"
  BY <1>4 DEF ClearedBetween, StartFirst, HasLayers
<1> DEFINE Before == program = Layer => ClearedBetween /\ StartFirst /\ HasLayers
<1>5. Before
  BY DEF Layered
<1> HIDE DEF Before
<1>6. ASSUME NEW ok \in BOOLEAN, Load(ok)
      PROVE  vis' = NoVisits /\ method' # "sample"
  BY <1>6 DEF Load, Initialize
<1>7. ASSUME NEW s \in Nodes, Sample(s)
      PROVE  ClearedBetween' /\ StartFirst' /\ HasLayers'
  <2>1. /\ method = "none" /\ program = program' /\ vis' = vis /\ start' = s
        /\ pending' = pending /\ verdict' = verdict /\ at' = "poll"
        /\ Q' = QueuePush(type, <<>>, s, 0)
    BY <1>7 DEF Sample, EnterSample, Calls, setting, memory
  <2>2. vis = NoVisits
    BY <1>5, <2>1 DEF Before, ClearedBetween
  <2>3. pending = <<>> /\ verdict = "none"
    BY <1>2, <2>1 DEF Phases
  <2>4. Queued(Q') = {s}
    BY <2>1, SampleQueueType, PrioritiesAssumption DEF Typed, TypeOK
  <2> QED
    BY <2>1, <2>2, <2>3, <2>4 DEF ClearedBetween, StartFirst, HasLayers
<1>8. CASE Return
  <2>1. /\ UNCHANGED <<program, start, vis, Q, pending, wasm>>
        /\ at = "filter" /\ at' \in {"poll", "finish", "idle"}
        /\ method' \in {method, "none"}
        /\ pending = <<>> /\ verdict' = "none"
    BY <1>8 DEF Return, FilterReturn, PollReturns, setting, memory, store
  <2>2. method' = method
    <3>1. method = "sample"
      BY <1>2, <2>1 DEF Phases
    <3> QED
      BY <1>8, <3>1 DEF Return, FilterReturn, PollReturns
  <2>3. vis # NoVisits => Waiting' = Waiting
    BY <2>1 DEF Waiting, Queued
  <2>4. Before => ClearedBetween' /\ StartFirst' /\ HasLayers'
    BY <2>1, <2>2, <2>3 DEF Before, ClearedBetween, StartFirst, HasLayers, Queued
  <2> QED
    BY <1>5, <2>4
<1>9. CASE Silent
  <2>1. UNCHANGED <<program, start, verdict, vis>>
    BY <1>9 DEF Silent, setting, memory
  <2>2. CASE Initialized
    <3>1. UNCHANGED wasm /\ method' # "sample" /\ method # "sample"
      BY <1>2, <2>2 DEF Initialized, Phases
    <3> QED
      BY <1>4, <1>5, <2>1, <3>1 DEF Before, ClearedBetween
  <2>3. CASE PollIdle
    <3>1. /\ UNCHANGED <<wasm, Q, pending, cur>> /\ at' # "filter" /\ method' = method
      BY <1>2, <2>3 DEF PollIdle, PollReturns, store, Phases
    <3> QED
      BY <1>5, <2>1, <3>1
         DEF Before, ClearedBetween, StartFirst, HasLayers, Waiting, Queued
  <2>4. CASE PollPop
    <3>1. UNCHANGED <<wasm, pending, method>>
      BY <2>4 DEF PollPop
    <3>2. cur' \in Queued(Q) /\ Queued(Q') \subseteq Queued(Q)
      BY <2>4, PopWaits
    <3>3. Waiting' \subseteq Waiting /\ cur' \in Waiting
      BY <3>1, <3>2 DEF Waiting
    <3> HIDE DEF Waiting
    <3> QED
      BY <1>5, <2>1, <3>1, <3>2, <3>3 DEF Before, ClearedBetween, StartFirst, HasLayers
  <2>5. CASE ExtendStep
    <3>1. UNCHANGED <<wasm, method, at, cur>> /\ pending # <<>>
      BY <2>5 DEF ExtendStep
    <3>2. vis # NoVisits
      <4>1. method = "sample"
        BY <1>2, <3>1 DEF Phases
      <4> QED
        BY <1>5, <2>1, <3>1, <4>1 DEF Before, StartFirst
    <3>3. Waiting' \subseteq Waiting
      BY <2>5, ExtendWaits
    <3> QED
      BY <1>5, <2>1, <3>1, <3>2, <3>3 DEF Before, ClearedBetween, StartFirst, HasLayers
  <2> QED
    BY <1>9, <2>2, <2>3, <2>4, <2>5 DEF Silent
<1>10. CASE End
  <2>1. method' = "none" /\ program' = program
    BY <1>10 DEF End, Finish, setting
  <2>2. vis' = NoVisits
    BY <1>5, <1>10, <2>1 DEF End, Reset, Before, ClearedBetween
  <2> QED
    BY <1>4, <2>1, <2>2
<1>11. CASE Grow \/ UNCHANGED samplerVars
  <2>1. UNCHANGED <<program, start, verdict, vis, block>>
    BY <1>11 DEF Grow, samplerVars, memory, setting
  <2>2. UNCHANGED <<method, at, cur, Q, pending, wasm>>
    BY <2>1 DEF block, vars
  <2> QED
    BY <1>5, <2>1, <2>2
         DEF Before, ClearedBetween, StartFirst, HasLayers, Waiting, Queued
<1> QED
  BY <1>3, <1>4, <1>6, <1>7, <1>8, <1>9, <1>10, <1>11
     DEF AnyNext, SamplerNext, Run, Filters

LEMMA ProgramLayered == ProgramSpec => []Layered
<1>1. SamplerInit \/ RandomInit => Layered
  BY LayeredInit
<1>2. Typed /\ Layered /\ [AnyNext]_samplerVars => Layered'
  BY LayeredStep
<1> QED
  BY <1>1, <1>2, ProgramTyped, PTL DEF ProgramSpec

\* layer_wise, on every graph and with every type of queue: all that is queued has
\* a layer, and none but the start node is in layer 0, so that a later node never
\* clears the counts as the first one of a sample does.
THEOREM LayersComeFirst == SamplerSpec \/ RandomSpec => []QueuedNodesHaveLayers
<1>1. Layered => QueuedNodesHaveLayers
  BY DEF Layered, HasLayers, Waiting, QueuedNodesHaveLayers
<1> QED
  BY <1>1, ProgramsRun, ProgramLayered, PTL

\* LayersAreLinked with the running node counted in only once its filter() has
\* decided to return TRUE: the next pop replaces cur.
Decided == IF verdict = "yes" THEN {cur} ELSE {}

LinkedBy(u, v) == <<u, v>> \in Edges /\ u \in DOMAIN vis /\ vis[u] = vis[v] - 1

Linked ==
    program = Layer =>
        \A v \in DOMAIN vis : vis[v] > 0 =>
            \E u \in selected \cup Decided : LinkedBy(u, v)

LEMMA LinkedInit == SamplerInit \/ RandomInit => Linked
BY DEF SamplerInit, RandomInit, Linked, NoVisits

\* A step that forgets no sampled node, changes no layer and only adds edges.
LEMMA LinkedStill ==
    ASSUME Linked, program' = program, vis' = vis, Edges \subseteq Edges',
           selected \cup Decided \subseteq selected' \cup Decided'
    PROVE  Linked'
<1> SUFFICES ASSUME program' = Layer, NEW v \in DOMAIN vis', vis'[v] > 0
             PROVE  \E u \in selected' \cup Decided' : LinkedBy(u, v)'
  BY DEF Linked
<1>1. PICK u \in selected \cup Decided : LinkedBy(u, v)
  BY DEF Linked
<1>2. LinkedBy(u, v)'
  BY <1>1 DEF LinkedBy
<1> QED
  BY <1>1, <1>2

LEMMA LinkedFilter ==
    ASSUME Typed, Layered, Linked, Filters
    PROVE  Linked'
<1>1. /\ FilterShape /\ at = "filter" /\ verdict = "none"
      /\ UNCHANGED <<program, graph, start>>
  BY FilterShapes DEF FilterShape, setting
<1> SUFFICES ASSUME program' = Layer, NEW v \in DOMAIN vis', vis'[v] > 0
             PROVE  \E u \in selected' \cup Decided' : LinkedBy(u, v)'
  BY DEF Linked
<1>2. PICK nids : LayerStep(nids)
  BY <1>1, LayerSteps
<1>3. UNCHANGED <<cur, selected>>
  BY <1>2 DEF LayerStep, Offered, block, vars, ExtendNode
<1>4. Edges' = Edges
  BY <1>1 DEF Edges, Neighbours
<1>5. CASE v \in DOMAIN Known
  <2>1. vis'[v] = Known[v]
    BY <1>2, <1>5 DEF LayerStep
  <2>2. v \in DOMAIN vis /\ vis[v] = Known[v]
    <3>1. DOMAIN Known = DOMAIN vis \cup {cur}
      BY <1>1, KnownType
    <3>2. v \notin DOMAIN vis => v = cur /\ Known[v] = 0
      BY <1>1, <1>5, <3>1, KnownType
    <3>3. v \in DOMAIN vis
      BY <2>1, <3>2
    <3> QED
      BY <1>1, <3>3, KnownType
  <2>3. PICK u \in selected \cup Decided : LinkedBy(u, v)
    BY <1>1, <2>1, <2>2 DEF Linked
  <2>4. u \in selected'
    BY <1>1, <1>3, <2>3 DEF Decided
  <2>5. u \in DOMAIN Known /\ Known[u] = vis[u]
    BY <1>1, <2>3, KnownType DEF LinkedBy
  <2>6. u \in DOMAIN vis' /\ vis'[u] = vis[u]
    BY <1>2, <2>5 DEF LayerStep
  <2> QED
    BY <1>4, <2>1, <2>2, <2>3, <2>4, <2>6 DEF LinkedBy
<1>6. CASE v \notin DOMAIN Known
  <2>1. v \in Range(nids) /\ v \in Neighbours(cur)
    BY <1>2, <1>6 DEF LayerStep
  <2>2. vis'[v] = Known[cur] + 1 /\ verdict' = "yes"
    BY <1>2, <1>6, <2>1 DEF LayerStep
  <2>3. cur \in DOMAIN vis' /\ vis'[cur] = Known[cur] /\ Known[cur] \in Nat
    BY <1>1, <1>2, KnownType DEF LayerStep
  <2>4. <<cur, v>> \in Edges
    <3>1. cur \in Nodes /\ graph[cur] \in Seq(Nodes)
      BY <1>1, NeighboursTyped
    <3>2. v \in Nodes
      BY <2>1, <3>1, LenProperties DEF Neighbours, Range
    <3> QED
      BY <2>1, <3>1, <3>2 DEF Edges
  <2>5. LinkedBy(cur, v)'
    BY <1>3, <1>4, <2>2, <2>3, <2>4 DEF LinkedBy
  <2>6. cur' \in Decided'
    BY <1>3, <2>2 DEF Decided
  <2> QED
    BY <2>5, <2>6 DEF LinkedBy
<1> QED
  BY <1>5, <1>6

LEMMA LinkedStep ==
    ASSUME Typed, Layered, Linked, [AnyNext]_samplerVars
    PROVE  Linked'
<1>1. CASE Filters
  BY <1>1, LinkedFilter
<1>2. CASE vis' = NoVisits
  BY <1>2 DEF Linked, NoVisits
<1>3. graph' = graph => Edges \subseteq Edges'
  BY DEF Edges, Neighbours
<1>4. Phases /\ (program = Layer => ClearedBetween)
  BY DEF Layered
<1>5. ASSUME NEW ok \in BOOLEAN, Load(ok)
      PROVE  vis' = NoVisits
  BY <1>5 DEF Load
<1>6. ASSUME NEW s \in Nodes, Sample(s)
      PROVE  Linked'
  <2>1. program' = program /\ vis' = vis /\ method = "none"
    BY <1>6 DEF Sample, EnterSample, Calls, setting, memory
  <2>2. program = Layer => vis = NoVisits
    BY <1>4, <2>1 DEF ClearedBetween
  <2> QED
    BY <1>2, <2>1, <2>2 DEF Linked
<1>7. CASE Return
  <2>1. /\ UNCHANGED <<program, graph, vis>>
        /\ selected' = IF verdict = "yes" THEN selected \cup {cur} ELSE selected
    BY <1>7 DEF Return, FilterReturn, setting, memory
  <2>2. selected \cup Decided \subseteq selected'
    BY <2>1 DEF Decided
  <2> QED
    BY <1>3, <2>1, <2>2, LinkedStill
<1>8. CASE Silent
  <2>1. UNCHANGED <<program, graph, vis, verdict, selected>>
    BY <1>8 DEF Silent, setting, memory, Initialized, PollIdle, PollPop, ExtendStep
  <2>2. Decided' = Decided
    <3>1. CASE verdict = "yes"
      <4>1. at = "filter"
        BY <1>4, <3>1 DEF Phases
      <4>2. cur' = cur
        BY <1>8, <4>1 DEF Silent, Initialized, PollIdle, PollPop, ExtendStep
      <4> QED
        BY <2>1, <4>2 DEF Decided
    <3>2. CASE verdict # "yes"
      BY <2>1, <3>2 DEF Decided
    <3> QED
      BY <3>1, <3>2
  <2> QED
    BY <1>3, <2>1, <2>2, LinkedStill
<1>9. CASE End
  <2>1. program' = program /\ vis' \in {vis, NoVisits} /\ (wasm => vis' = NoVisits)
    BY <1>9 DEF End, Reset, setting
  <2>2. program = Layer => vis' = NoVisits
    BY <1>4, <2>1 DEF ClearedBetween
  <2> QED
    BY <1>2, <2>1, <2>2 DEF Linked
<1>10. CASE Grow \/ UNCHANGED samplerVars
  <2>1. UNCHANGED <<program, verdict, vis, selected, cur>>
    BY <1>10 DEF Grow, samplerVars, memory, setting, block, vars
  <2>2. Edges \subseteq Edges'
    <3>1. CASE Grow
      <4>1. PICK nid \in Nodes, dst \in Nodes : graph' = EnteredBack(graph, nid, dst)
        BY <3>1 DEF Grow
      <4>2. graph' = [graph EXCEPT ![dst] = Append(graph[dst], nid)]
            /\ graph \in [Nodes -> Seq(Nodes)]
        BY <4>1 DEF EnteredBack, Typed, GuestTypeOK
      <4>3. graph[dst] \in Seq(Nodes)
        BY <4>2
      <4>4. Range(Append(graph[dst], nid)) = Range(graph[dst]) \cup {nid}
        BY <4>3, RangeOfAppend
      <4>5. \A n \in Nodes : Range(graph[n]) \subseteq Range(graph'[n])
        BY <4>2, <4>4
      <4> QED
        BY <4>5 DEF Edges, Neighbours
    <3>2. CASE UNCHANGED samplerVars
      BY <1>3, <3>2 DEF samplerVars, setting
    <3> QED
      BY <1>10, <3>1, <3>2
  <2> QED
    BY <2>1, <2>2, LinkedStill DEF Decided
<1> QED
  BY <1>1, <1>2, <1>5, <1>6, <1>7, <1>8, <1>9, <1>10
     DEF AnyNext, SamplerNext, Run, Filters

\* layer_wise: whichever nodes its full layers drop and in whatever order the queue
\* delivers, a node beyond the first layer is known only through a sampled node of
\* the layer before, by an edge of the graph.
THEOREM LayersHang == SamplerSpec \/ RandomSpec => []LayersAreLinked
<1>1. SamplerInit \/ RandomInit => Linked
  BY LinkedInit
<1>2. Typed /\ Layered /\ Linked /\ [AnyNext]_samplerVars => Linked'
  BY LinkedStep
<1>3. Linked => LayersAreLinked
  BY DEF Linked, LayersAreLinked, LinkedBy, Decided
<1> QED
  BY <1>1, <1>2, <1>3, ProgramsRun, ProgramTyped, ProgramLayered, PTL
     DEF ProgramSpec

=============================================================================
