----------------------------- MODULE MCContainer -----------------------------
(* Instances of Container for TLC.  A wasm_size_t is below 8 here, and node *)
(* 9 does not fit into it: cut to that width it would be node 1.            *)
EXTENDS Container

\* With its array of priorities, the span of nodes is cut to <<9>>.
MCNidArrays == 3 :> <<9, 1>>
MCPrioArrays == 2 :> <<0>>
MCNidSpans == {<<9, 1>>}
MCPrioSpans == {<<0>>}

=============================================================================
