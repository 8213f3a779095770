---------------------------- MODULE RandomGraph ----------------------------
(***************************************************************************)
(* The programs of Samplers on the random graphs of the test drivers       *)
(* (include/rand_graph.hpp): each of the nodes 1..n gets m edges to random *)
(* nodes, and an edge is entered twice, in odata of its source and in      *)
(* idata of its destination, which is what the programs follow.  The graph *)
(* is generated once, before a container is initialized.                   *)
(***************************************************************************)
EXTENDS Samplers

CONSTANTS
    Degree,     \* m
    Outcomes    \* what the random engine may yield: m destinations per node

ASSUME OutcomesAssumption ==
    Degree \in Nat /\ Outcomes \subseteq [Nodes -> [1 .. Degree -> Nodes]]

VARIABLES
    outcome,    \* the destinations that the engine yields
    odatas      \* odatas; idatas is the variable graph of Samplers

randomVars == <<outcome, odatas>>
generatedVars == <<samplerVars, randomVars>>

NoEdges == [n \in Nodes |-> <<>>]

RandomInit ==
    /\ SamplerInit
    /\ graph = NoEdges
    /\ outcome \in Outcomes
    /\ odatas = NoEdges

Generated == \A n \in Nodes : Len(odatas[n]) = Degree

\* Mutant: an edge entered at its source twice.
Entered(idatas, nid, dst) == [idatas EXCEPT ![nid] = Append(@, dst)]

\* idata of the destination: an edge back to the source.
EnteredBack(idatas, nid, dst) == [idatas EXCEPT ![dst] = Append(@, nid)]

\* One turn of the inner loop of gen_random_graph.
AddEdge ==
    /\ \E nid \in Nodes :
          /\ Len(odatas[nid]) < Degree
          /\ \A n \in Nodes : n < nid => Len(odatas[n]) = Degree
          /\ LET dst == outcome[nid][Len(odatas[nid]) + 1]
             IN  /\ odatas' = [odatas EXCEPT ![nid] = Append(@, dst)]
                 /\ graph' = EnteredBack(graph, nid, dst)
    /\ UNCHANGED <<block, program, start, verdict, memory, taken, outcome>>

RunGenerated == Generated /\ Run /\ UNCHANGED randomVars

RandomNext ==
    \/ AddEdge
    \/ RunGenerated
    \/ /\ Generated
       /\ \/ \E ok \in BOOLEAN : Load(ok)
          \/ \E s \in Nodes : Sample(s)
       /\ UNCHANGED randomVars

RandomSpec == RandomInit /\ [][RandomNext]_generatedVars

\* As in Samplers, a sample() that was called runs on.
RandomFairSpec == RandomSpec /\ WF_generatedVars(RunGenerated)

-----------------------------------------------------------------------------
(* Properties.                                                              *)

Times(n, seq) == Cardinality({i \in DOMAIN seq : seq[i] = n})

\* idata is the reverse of odata, parallel edges counted.
EdgesMirrored ==
    \A u, v \in Nodes : Times(v, odatas[u]) = Times(u, graph[v])

\* The programs follow idata: along odata, each sampled node reaches the start.
SampledReachStart ==
    at = "finish" =>
        selected \subseteq
            Ball(Nodes, {e \in Nodes \X Nodes : e[1] \in Range(odatas[e[2]])},
                 start, Cardinality(Nodes))

=============================================================================
