------------------------- MODULE MCFixedSizedCache -------------------------
(* Instances of FixedSizedCache for TLC.                                    *)
EXTENDS FixedSizedCache

=============================================================================
