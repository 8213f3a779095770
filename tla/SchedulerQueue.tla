--------------------------- MODULE SchedulerQueue ---------------------------
(***************************************************************************)
(* The scheduling queue of a SchedulerBlock (src/host/schedulerq.cpp): one *)
(* of a std::queue, a std::stack and a std::priority_queue, chosen by the  *)
(* type given to the constructor.                                          *)
(*                                                                         *)
(* All three are represented the same way: by the sequence of their        *)
(* entries in the order in which pop() will deliver them.  The containers  *)
(* then differ only in the place where push() puts a new entry.            *)
(***************************************************************************)
EXTENDS Integers, FiniteSets, SequencesExt

FIFO == 1
FILO == 2
PRIO == 3

QueueTypes == {FIFO, FILO, PRIO}

\* Mutant: an init_queue without its default case.
InitQueueUnchecked(type) == type

\* init_queue: a type that is none of the three becomes FIFO.
InitQueue(type) == IF type \in QueueTypes THEN type ELSE FIFO

\* std::queue and std::stack hold node ids only: the priority is dropped.
Stored(type, nid, p) == [nid |-> nid, p |-> IF type = PRIO THEN p ELSE 0]

\* The order of std::priority_queue<std::pair<f64, nid_t>>: the larger priority
\* leaves first, and the larger node id among equal priorities.
Outranks(a, b) == a.p > b.p \/ (a.p = b.p /\ a.nid > b.nid)

\* Mutant: the cases of queue and stack swapped.
PlaceSwapped(type, q, e) ==
    CASE type = FIFO -> 1
      [] type = FILO -> Len(q) + 1
      [] type = PRIO -> 1 + Cardinality({i \in DOMAIN q : ~Outranks(e, q[i])})

\* Mutant: the priority is not looked at.
PlaceByArrival(type, q, e) == IF type = FILO THEN 1 ELSE Len(q) + 1

\* The position that a new entry takes in the delivery order.
Place(type, q, e) ==
    CASE type = FIFO -> Len(q) + 1
      [] type = FILO -> 1
      [] type = PRIO -> 1 + Cardinality({i \in DOMAIN q : ~Outranks(e, q[i])})

QueuePush(type, q, nid, p) ==
    LET e == Stored(type, nid, p) IN InsertAt(q, Place(type, q, e), e)

\* pop: what leaves first, and what it leaves behind.  The pop of an empty queue
\* is undefined: poll() asks for empty() before.
QueueTop(q) == Head(q).nid
QueuePop(q) == Tail(q)
QueueEmpty(q) == q = <<>>

Queued(q) == {q[i].nid : i \in DOMAIN q}

=============================================================================
