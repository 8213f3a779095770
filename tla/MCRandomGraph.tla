--------------------------- MODULE MCRandomGraph ---------------------------
(* Instances of RandomGraph for TLC.                                        *)
EXTENDS RandomGraph

\* Layers that overflow, with cycles and a loop; a path longer than MaxDepth with
\* edges back, parallel edges, and a node that no edge leads to.
Knot == <<<<2, 3>>, <<1, 4>>, <<1, 4>>, <<1, 5>>, <<4, 5>>>>
Path == <<<<1, 2>>, <<1, 3>>, <<2, 4>>, <<3, 3>>, <<4, 4>>>>

MCOutcomes == {Knot, Path}
MCGraphs == {NoEdges}

\* Small enough that layers overflow and that not every neighbour is sampled.
MCK == (Layer :> 2) @@ (Node :> 2) @@ (Subgraph :> 3)

=============================================================================
