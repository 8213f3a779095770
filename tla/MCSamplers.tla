----------------------------- MODULE MCSamplers -----------------------------
(* Instances of Samplers for TLC.                                           *)
EXTENDS Samplers

\* Cycles with a shortcut and parallel edges.
MCKnot == {<<<<2, 3, 4>>, <<1, 4>>, <<4, 4>>, <<5, 1>>, <<>>>>}

MCNodeK == Node :> 2

=============================================================================
