------------------------------ MODULE TxQueue ------------------------------
(***************************************************************************)
(* The transmit queue: QPriorityQueue, which is std::priority_queue, over  *)
(* PrioritizedMessage.  A queue is the vector the heap lives in, the head  *)
(* first.  The comparison is not an order (see Less), so what comes out is *)
(* what the heap algorithms make of it: an element rises by swapping holes *)
(* with its parent, and on a removal the hole sinks to a leaf, the larger  *)
(* child rising, before the last element is put there and rises again.     *)
(***************************************************************************)
EXTENDS Naturals, Sequences

(* operator< of PrioritizedMessage; the head is the largest. *)
Less(a, b) == a.priority < b.priority \/ a.date < b.date

(* __push_heap: e rises from the hole k of the heap h. *)
Lift(h, k, e) ==
  LET f[i \in 1..Len(h)] ==
        IF i > 1 /\ Less(h[i \div 2], e)
        THEN [f[i \div 2] EXCEPT ![i] = h[i \div 2]]
        ELSE [h EXCEPT ![i] = e]
  IN f[k]

Push(h, e) == Lift(Append(h, e), Len(h) + 1, e)

(* The larger child of the hole i, the right one if they compare alike.    *)
Larger(h, i) ==
  IF 2 * i + 1 <= Len(h) /\ ~Less(h[2 * i + 1], h[2 * i]) THEN 2 * i + 1 ELSE 2 * i

(* __adjust_heap: the holes from i down to the leaf it sinks to. *)
SinkPath(h, i) ==
  LET p[k \in 1..Len(h)] ==
        IF 2 * k > Len(h) THEN {k} ELSE {k} \cup p[Larger(h, k)]
  IN p[i]

(* Every hole on the path but the leaf takes the child below it. *)
Sunk(h, path) ==
  [i \in DOMAIN h |-> IF i \in path /\ 2 * i <= Len(h) THEN h[Larger(h, i)] ELSE h[i]]

Leaf(h, path) == CHOOSE i \in path : 2 * i > Len(h)

(* __pop_heap: the queue without its head; the last element takes the hole *)
(* at the leaf and rises again.                                            *)
Pop(h) ==
  IF Len(h) = 1 THEN <<>> ELSE
  LET rest == SubSeq(h, 1, Len(h) - 1)
      path == SinkPath(rest, 1)
  IN Lift(Sunk(rest, path), Leaf(rest, path), h[Len(h)])

=============================================================================
