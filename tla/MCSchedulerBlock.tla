-------------------------- MODULE MCSchedulerBlock --------------------------
(* Instances of SchedulerBlock for TLC.                                     *)
EXTENDS SchedulerBlock

\* The spans of a guest: the empty one, one with a repeated node, and spans of
\* nodes that other spans offer too; lists of priorities of both lengths.
MCNidSpans == {<<>>, <<1>>, <<2, 2>>, <<2, 3>>, <<3, 1>>}
MCPrioSpans == {<<1>>, <<0, 1>>}

AllMethods == {"initialize", "push", "clear", "poll", "join", "finish", "sample"}
AllMethodsAndCatch == AllMethods \cup {"catch"}

=============================================================================
