------------------------------ MODULE Samplers ------------------------------
(***************************************************************************)
(* The programs of udf/ (layer_wise, node_wise, subgraph_wise, wapp), each *)
(* running in the container of a SchedulerBlock whose owner calls          *)
(* initialize() and sample().  The block's actions are those of            *)
(* SchedulerBlock; this module fixes what the guest does in filter() and   *)
(* finish(), and adds the guest's globals, which outlive a call.           *)
(*                                                                         *)
(* A random number is any member of Priorities and a shuffle is any        *)
(* choice of positions.  Every node has a record in the storage.           *)
(***************************************************************************)
EXTENDS SchedulerBlock

CONSTANTS
    Programs,   \* the programs that are run
    Graphs,     \* the graphs: for each node, the neighbours that idata lists
    K,          \* for each program, its constant of that name
    MaxDepth    \* max_depth

Layer == "layer_wise"
Node == "node_wise"
Subgraph == "subgraph_wise"
Data == "wapp"

\* A node id is a number of 64 bits.
ASSUME FiniteAssumption == IsFiniteSet(Nodes)
ASSUME ProgramsAssumption == Programs \subseteq {Layer, Node, Subgraph, Data}
ASSUME GraphsAssumption == \A g \in Graphs : g \in [Nodes -> Seq(Nodes)]
ASSUME LimitsAssumption ==
    K \in [Programs \ {Data} -> Nat \ {0}] /\ MaxDepth \in Nat \ {0}

VARIABLES
    program,     \* what the container was given
    graph,       \* the graph that get_node reads
    start,       \* history: the argument of the last sample()
    verdict,     \* what the running filter() is about to return
    vis,         \* vis: the layer (layer_wise) or sst (node_wise) of a node
    cnt,         \* vis[...].cnt of node_wise
    layer_count,
    node_count,
    taken        \* history: the edges that the running sample extended along

block == vars
memory == <<vis, cnt, layer_count, node_count>>
setting == <<program, graph>>
samplerVars == <<block, setting, start, verdict, memory, taken>>

Neighbours(n) == Range(graph[n])

GuestTypeOK ==
    /\ program \in Programs
    /\ graph \in [Nodes -> Seq(Nodes)]
    /\ start \in Nodes \cup {0}
    /\ verdict \in {"none", "yes", "no"}
    /\ DOMAIN vis \subseteq Nodes
    /\ vis \in [DOMAIN vis -> 0 .. MaxDepth]
    /\ cnt \in [Nodes -> Nat]
    /\ layer_count \in [0 .. MaxDepth -> Nat]
    /\ node_count \in Nat
    /\ taken \subseteq Nodes \X Nodes

NoVisits == <<>>

NoCounts == [n \in Nodes |-> 0]
NoLayers == [d \in 0 .. MaxDepth |-> 0]

\* The programs say which distinct flag they need.
SamplerInit ==
    /\ Init
    /\ program \in Programs
    /\ dedup = (program # Node)
    /\ graph \in Graphs
    /\ start = 0
    /\ verdict = "none"
    /\ vis = NoVisits
    /\ cnt = NoCounts
    /\ layer_count = NoLayers
    /\ node_count = 0
    /\ taken = {}

-----------------------------------------------------------------------------
(* filter(): one action per program.                                        *)

Filtering(name) == program = name /\ at = "filter" /\ verdict = "none"

\* filter() ends without a call of extend_node.
Leaf(v) == verdict' = v /\ UNCHANGED <<block, taken>>

Extend(entries, v) ==
    /\ ExtendNode(entries)
    /\ verdict' = v
    /\ taken' = taken \cup {<<cur, e.nid>> : e \in Range(entries)}

\* A random priority for each of the nodes.
Prioritised(nids) ==
    {PairedEntries(nids, ps) : ps \in [DOMAIN nids -> Priorities]}

\* vis with the running node in it: operator[] makes an entry of zeros.
Known ==
    [n \in DOMAIN vis \cup {cur} |-> IF n \in DOMAIN vis THEN vis[n] ELSE 0]

\* Mutant: a neighbour that is known already moves to the current layer.
DepthOverwritten(v) == Known[cur] + 1

\* The layer of neighbour v: the one it was first seen in, or the next.
Depth(v) == IF v \in DOMAIN Known THEN Known[v] ELSE Known[cur] + 1

\* Mutant: neighbours beyond the last layer are not left out.
AdmitsAll(v) == TRUE

Admits(v) == Depth(v) <= MaxDepth

\* Mutant: a count that is compared before it is raised.
LayerFullLate(count) == count > K[Layer] + 1

LayerFull(count) == count > K[Layer]

\* The first node of a sample finds vis empty and clears the counts.
Counted == [(IF vis = NoVisits THEN NoLayers ELSE layer_count)
               EXCEPT ![Known[cur]] = @ + 1]

\* vis with the given nodes in it.
KnownWith(nids) == [n \in DOMAIN Known \cup Range(nids) |-> Depth(n)]

\* The neighbours that are admitted, in their order.
Kept(nids) ==
    LET admitted == {i \in DOMAIN nids : Admits(nids[i])}
        picks == {f \in [1 .. Cardinality(admitted) -> admitted] :
                     \A i, j \in DOMAIN f : i < j => f[i] < f[j]}
    IN  {[i \in DOMAIN f |-> nids[f[i]]] : f \in picks}

ExtendLayer(v) ==
    \E kept \in Kept(graph[cur]) :
        /\ vis' = KnownWith(kept)
        /\ IF graph[cur] = <<>> THEN Leaf(v)
           ELSE \E entries \in Prioritised(kept) : Extend(entries, v)

\* Mutant: a node that its full layer drops is extended all the same.
FilterLayerLate ==
    /\ Filtering(Layer)
    /\ layer_count' = Counted
    /\ ExtendLayer(IF LayerFull(Counted[Known[cur]]) THEN "no" ELSE "yes")
    /\ UNCHANGED <<setting, start, cnt, node_count>>

FilterLayer ==
    /\ Filtering(Layer)
    /\ layer_count' = Counted
    /\ \/ /\ LayerFull(Counted[Known[cur]])
          /\ vis' = Known
          /\ Leaf("no")
       \/ /\ ~LayerFull(Counted[Known[cur]])
          /\ ExtendLayer("yes")
    /\ UNCHANGED <<setting, start, cnt, node_count>>

\* Mutant: a test of the distance alone.
ExhaustedByDistance(count, sst) == sst >= MaxDepth

\* Visits and distance together bound how often a node is extended.
Exhausted(count, sst) == count + sst >= MaxDepth

\* shuffle, and the first K: distinct positions of the list.
Shuffled(nids) ==
    LET size == Min({Len(nids), K[Node]})
        picks == {f \in [1 .. size -> DOMAIN nids] : IsInjective(f)}
    IN  {[i \in 1 .. size |-> nids[f[i]]] : f \in picks}

FilterNode ==
    /\ Filtering(Node)
    /\ cnt' = [cnt EXCEPT ![cur] = @ + 1]
    /\ \/ /\ Exhausted(cnt[cur] + 1, Known[cur]) \/ graph[cur] = <<>>
          /\ vis' = Known
          /\ Leaf("yes")
       \/ /\ ~Exhausted(cnt[cur] + 1, Known[cur]) /\ graph[cur] # <<>>
          /\ \E sampled \in Shuffled(graph[cur]) :
                /\ vis' = KnownWith(sampled)
                /\ Extend(DefaultEntries(sampled), "yes")
    /\ UNCHANGED <<setting, start, layer_count, node_count>>

FilterSubgraph ==
    /\ Filtering(Subgraph)
    /\ node_count' = node_count + 1
    /\ IF node_count + 1 > K[Subgraph] THEN Leaf("no")
       ELSE IF graph[cur] = <<>> THEN Leaf("yes")
       ELSE \E entries \in Prioritised(graph[cur]) : Extend(entries, "yes")
    /\ UNCHANGED <<setting, start, vis, cnt, layer_count>>

\* wapp prints its node and its edges.
FilterData ==
    /\ Filtering(Data)
    /\ Leaf("yes")
    /\ UNCHANGED <<setting, start, memory>>

\* filter() returns what it decided before the block ran its extension.
Return ==
    /\ verdict # "none"
    /\ FilterReturn(verdict = "yes")
    /\ verdict' = "none"
    /\ UNCHANGED <<setting, start, memory, taken>>

-----------------------------------------------------------------------------
(* The other steps of the block.                                            *)

\* A new container has new globals.
Load(ok) ==
    /\ Initialize(ok)
    /\ vis' = NoVisits
    /\ cnt' = NoCounts
    /\ layer_count' = NoLayers
    /\ node_count' = 0
    /\ UNCHANGED <<setting, start, verdict, taken>>

Sample(s) ==
    /\ EnterSample(s, 0)
    /\ start' = s
    /\ taken' = {}
    /\ UNCHANGED <<setting, verdict, memory>>

\* The steps of the block in which no guest function decides anything.
Silent ==
    /\ Initialized \/ PollIdle \/ PollPop \/ ExtendStep
    /\ UNCHANGED <<setting, start, verdict, memory, taken>>

\* Mutant: a finish() that is empty.
ResetNothing == UNCHANGED <<vis, cnt, node_count>>

\* finish() of the programs: vis.clear(), or node_count = 0.
Reset ==
    /\ vis' = NoVisits
    /\ cnt' = NoCounts
    /\ node_count' = 0

End ==
    /\ Finish
    /\ IF wasm THEN Reset ELSE UNCHANGED <<vis, cnt, node_count>>
    /\ UNCHANGED <<setting, start, verdict, layer_count, taken>>

Run ==
    \/ FilterLayer
    \/ FilterNode
    \/ FilterSubgraph
    \/ FilterData
    \/ Return
    \/ Silent
    \/ End

SamplerNext ==
    \/ \E ok \in BOOLEAN : Load(ok)
    \/ \E s \in Nodes : Sample(s)
    \/ Run

SamplerSpec == SamplerInit /\ [][SamplerNext]_samplerVars

\* A sample() that was called runs on, in the block and in the guest.
SamplerFairSpec == SamplerSpec /\ WF_samplerVars(Run)

-----------------------------------------------------------------------------
(* Properties.                                                              *)

\* The nodes of S that a path inside S leads to from s in at most d edges, under
\* the edge relation E.
Ball(S, E, s, depth) ==
    LET ball[d \in 0 .. depth] ==
            IF d = 0 THEN {s} \cap S
            ELSE ball[d - 1] \cup
                 {v \in S : \E u \in ball[d - 1] : <<u, v>> \in E}
    IN  ball[depth]

Edges == {e \in Nodes \X Nodes : e[2] \in Neighbours(e[1])}

Near(d) == Ball(Nodes, Edges, start, d)
Reachable == Near(Cardinality(Nodes))

\* A sample is one piece: a path inside it leads from the start node to each of
\* its nodes, whichever nodes the limits of the program made it drop.
SampleIsConnected ==
    at = "finish" =>
        selected = Ball(selected, Edges, start, Cardinality(selected))

\* subgraph_wise takes as many nodes as there are, up to K: neither the queue
\* nor the globals left by an earlier sample cost the sample a node.
SubgraphIsFull ==
    program = Subgraph /\ at = "finish" /\ wasm =>
        Cardinality(selected) = Min({K[Subgraph], Cardinality(Reachable)})

\* With a FIFO queue they are the K nearest nodes.
SubgraphIsNearest ==
    program = Subgraph /\ type = FIFO /\ at = "finish" =>
        \A d \in 0 .. Cardinality(Nodes) :
            Near(d) \subseteq selected \/ selected \subseteq Near(d)

\* layer_wise fills each of its layers with the nodes found in it, up to K.
LayersAreFull ==
    program = Layer /\ at = "finish" =>
        \A d \in 0 .. MaxDepth :
            LET layer == {v \in DOMAIN vis : vis[v] = d}
            IN  Cardinality(layer \cap selected) = Min({K[Layer], Cardinality(layer)})

\* A node of a layer hangs on a sampled node of the layer before.
LayersAreLinked ==
    program = Layer =>
        \A v \in DOMAIN vis : vis[v] > 0 =>
            \E u \in selected \cup {cur} :
                /\ <<u, v>> \in Edges
                /\ u \in DOMAIN vis /\ vis[u] = vis[v] - 1

\* What is queued has a layer, so that no filter() indexes layer_count beyond
\* its end, or takes a second node for the start node.
QueuedNodesHaveLayers ==
    program = Layer /\ vis # NoVisits =>
        /\ Queued(Q) \cup {e.nid : e \in Range(pending)} \subseteq DOMAIN vis
        /\ \A v \in DOMAIN vis : vis[v] = 0 <=> v = start

\* How far from its start a program samples.
Radius ==
    CASE program = Node -> MaxDepth - 1
      [] program = Data -> 0
      [] OTHER -> MaxDepth

\* Whatever the order of the visits, a sample stays close to its start.
WithinRadius == program # Subgraph => selected \subseteq Near(Radius)

\* A sample returns, also without the distinct set: node_wise visits nodes again
\* but not for ever.
SampleReturns == method = "sample" ~> method = "none"

\* sst of a node is the length of a shortest path to the start node, along the
\* edges that the sample took.
SstIsShortest ==
    program = Node /\ at = "finish" =>
        \A v \in DOMAIN vis :
            \A d \in 0 .. MaxDepth :
                v \in Ball(Nodes, taken, start, d) => vis[v] <= d

=============================================================================
