--------------------------- MODULE CachePolicies ---------------------------
(***************************************************************************)
(* The replacement policies of include/caches: what a policy remembers of  *)
(* the keys of a cache, and how Insert, Touch and Erase change it.         *)
(*                                                                         *)
(* A policy is a record.  "order" lists its keys in the order in which it  *)
(* gives them up: the back of the list of LRU and FIFO is its head, and so *)
(* is the begin() of the multimap of LFU.  "freq" is the count that LFU    *)
(* keeps with a key, and "finder" the set of keys that LRU can find the    *)
(* list element of.                                                        *)
(***************************************************************************)
EXTENDS Integers, FiniteSets, SequencesExt

None == "none"    \* NoCachePolicy
Fifo == "fifo"    \* FIFOCachePolicy
Lru  == "lru"     \* LRUCachePolicy
Lfu  == "lfu"     \* LFUCachePolicy

PolicyNames == {None, Fifo, Lru, Lfu}

\* The policies whose Erase honours its key; the others drop their candidate.
ErasesByKey == {None, Lfu}

NoKeys(K) == [order |-> <<>>, freq |-> [k \in K |-> 0], finder |-> {}]

Position(q, k) == CHOOSE i \in DOMAIN q :
    q[i] = k /\ \A j \in DOMAIN q : q[j] = k => j <= i

\* q without the last occurrence of k.
Without(q, k) == RemoveAt(q, Position(q, k))

-----------------------------------------------------------------------------
(* LRU.  Touch moves the list element of a key through the iterator that it  *)
(* finds in its map; Erase pops its candidate whichever key it is given.     *)

LruInsert(pol, k) == [pol EXCEPT !.order = Append(@, k), !.finder = @ \cup {k}]

\* Mutant: a move to the wrong end of the list.
LruTouchToBack(pol, k) == [pol EXCEPT !.order = <<k>> \o Without(@, k)]

LruTouch(pol, k) == [pol EXCEPT !.order = Append(Without(@, k), k)]

LruErase(pol, k) ==
    [pol EXCEPT !.order = Tail(@), !.finder = @ \ {Head(pol.order)}]

-----------------------------------------------------------------------------
(* LFU.                                                                      *)

\* A new key goes in front of the keys that were counted once, too.
LfuInsert(pol, k) == [pol EXCEPT !.order = <<k>> \o @, !.freq[k] = 1]

\* Mutant: a count that goes down.
LfuTouchCountsDown(pol, k) == [pol EXCEPT !.freq[k] = @ - 1]

\* Mutant: a count that is raised in place, without the new position.
LfuTouchInPlace(pol, k) == [pol EXCEPT !.freq[k] = @ + 1]

\* Touch puts a key behind all that were counted as often as it is now.
LfuTouch(pol, k) ==
    LET rest == Without(pol.order, k)
        n    == pol.freq[k] + 1
        at   == 1 + Cardinality({i \in DOMAIN rest : pol.freq[rest[i]] <= n})
    IN  [pol EXCEPT !.order = InsertAt(rest, at, k), !.freq[k] = n]

\* Mutant: an Erase that pops its candidate.
LfuErasesCandidate(pol, k) == [pol EXCEPT !.order = Tail(@), !.freq[k] = 0]

LfuErase(pol, k) == [pol EXCEPT !.order = Without(@, k), !.freq[k] = 0]

-----------------------------------------------------------------------------
(* FIFO, and the set of NoCachePolicy, whose order says nothing.             *)

\* Mutant: a stack instead of a queue.
FifoInsertNewestFirst(pol, k) == [pol EXCEPT !.order = <<k>> \o @]

FifoInsert(pol, k) == [pol EXCEPT !.order = Append(@, k)]

FifoErase(pol, k) == [pol EXCEPT !.order = Tail(@)]

NoneInsert(pol, k) == [pol EXCEPT !.order = Append(@, k)]

NoneErase(pol, k) == [pol EXCEPT !.order = Without(@, k)]

-----------------------------------------------------------------------------
(* What a cache calls.                                                       *)

\* ReplCandidate.  NoCachePolicy gives up the first key of a hash set: any key.
Candidates(policy, pol) ==
    IF policy = None THEN Range(pol.order) ELSE {Head(pol.order)}

Insert(policy, pol, k) ==
    CASE policy = Lru  -> LruInsert(pol, k)
      [] policy = Lfu  -> LfuInsert(pol, k)
      [] policy = Fifo -> FifoInsert(pol, k)
      [] policy = None -> NoneInsert(pol, k)

\* The iterator of a key that is not in the map of LRU is a default one.
TouchDefined(policy, pol, k) == policy = Lru => k \in pol.finder

Touch(policy, pol, k) ==
    CASE policy = Lru -> LruTouch(pol, k)
      [] policy = Lfu -> LfuTouch(pol, k)
      [] policy \in {Fifo, None} -> pol

Erase(policy, pol, k) ==
    CASE policy = Lru  -> LruErase(pol, k)
      [] policy = Lfu  -> LfuErase(pol, k)
      [] policy = Fifo -> FifoErase(pol, k)
      [] policy = None -> NoneErase(pol, k)

=============================================================================
