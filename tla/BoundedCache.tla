---------------------------- MODULE BoundedCache ----------------------------
(***************************************************************************)
(* What a user of a cache relies on, whatever its policy and its           *)
(* implementation: a key that was put is there with its value, nothing is  *)
(* there that was not put, and an element leaves only when it is removed   *)
(* or, one at a time, when a new key enters a full cache.                  *)
(***************************************************************************)
EXTENDS Integers, FiniteSets

CONSTANTS Keys, Values, Capacity

VARIABLE items

Init == items = <<>>

Put(k, v) ==
    \E gone \in SUBSET (DOMAIN items \ {k}) :
        /\ gone # {} => /\ k \notin DOMAIN items
                        /\ Cardinality(DOMAIN items) = Capacity
                        /\ \E victim \in DOMAIN items : gone = {victim}
        /\ items' = [j \in (DOMAIN items \ gone) \cup {k} |->
                        IF j = k THEN v ELSE items[j]]
        /\ Cardinality(DOMAIN items') <= Capacity

Remove(k) == items' = [j \in DOMAIN items \ {k} |-> items[j]]

Next ==
    \E k \in Keys :
        \/ \E v \in Values : Put(k, v)
        \/ Remove(k)

Spec == Init /\ [][Next]_items

\* A cache never holds more than Capacity elements.
WithinCapacity == Cardinality(DOMAIN items) <= Capacity

=============================================================================
