----------------------------- MODULE OrderQueue -----------------------------
(***************************************************************************)
(* OrderQueue of orderbook/price_level.go: a circular array of orders that *)
(* doubles when it is full.  Its mutex makes every operation one step, so  *)
(* an operation is an operator from queue to queue.  An order is its id.   *)
(***************************************************************************)
EXTENDS Integers, Sequences, FiniteSets

CONSTANTS
  Ids,       \* the orders
  Capacity,  \* slots of a new queue (1000 for a price)
  NIL        \* no order

ASSUME QueueAssumption == Capacity \in Nat \ {0} /\ NIL \notin Ids

NewOrderQueue ==
  [orders |-> [n \in 0 .. Capacity - 1 |-> NIL], head |-> 0, tail |-> 0, size |-> 0]

Slots(q) == Cardinality(DOMAIN q.orders)

\* The slot of the k-th order, counted from 0.
At(q, k) == (q.head + k) % Slots(q)

\* A copy that forgets that the array is circular.
Unturned(q) == q.orders

\* The old slots from head to the end, then those before head.
Turned(q) == [n \in DOMAIN q.orders |-> q.orders[At(q, n)]]

Grown(q) ==
  IF q.size < Slots(q) THEN q
  ELSE [orders |-> [n \in 0 .. 2 * Slots(q) - 1 |->
                      IF n < Slots(q) THEN Turned(q)[n] ELSE NIL],
        head |-> 0, tail |-> q.size, size |-> q.size]

Pushed(q, id) ==
  LET g == Grown(q)
  IN  [g EXCEPT !.orders[g.tail] = id, !.tail = (@ + 1) % Slots(g), !.size = @ + 1]

Popped(q) ==
  [q EXCEPT !.orders[q.head] = NIL, !.head = (@ + 1) % Slots(q), !.size = @ - 1]

Peek(q) == IF q.size = 0 THEN NIL ELSE q.orders[q.head]

Size(q) == q.size

\* The places of id among the orders.
Places(q, id) == {k \in 0 .. q.size - 1 : q.orders[At(q, k)] = id}

\* The orders behind the i-th one move up; a last one is cleared, otherwise
\* the last slot keeps its pointer.
Shifted(q, i) ==
  [n \in DOMAIN q.orders |->
     IF n = At(q, q.size - 1) /\ i = q.size - 1 THEN NIL
     ELSE IF \E k \in i .. q.size - 2 : n = At(q, k) THEN q.orders[(n + 1) % Slots(q)]
     ELSE q.orders[n]]

\* A removal that leaves tail where it is.
TailKept(q) == q.tail

TailBack(q) == (q.tail - 1 + Slots(q)) % Slots(q)

\* The loop ends at the first match; without one nothing changes.
Removed(q, id) ==
  IF Places(q, id) = {} THEN q
  ELSE LET i == CHOOSE k \in Places(q, id) : \A m \in Places(q, id) : k <= m
       IN  [q EXCEPT !.orders = Shifted(q, i), !.tail = TailBack(q),
                     !.size = @ - 1]

\* The orders in the queue, first to last.
Content(q) == [k \in 1 .. q.size |-> q.orders[At(q, k - 1)]]

\* A queue is sound: tail is where head and size say, and its slots are filled.
Sound(q) ==
  /\ q.head \in DOMAIN q.orders /\ q.size \in 0 .. Slots(q)
  /\ q.tail = (q.head + q.size) % Slots(q)
  /\ \A k \in 0 .. q.size - 1 : q.orders[At(q, k)] # NIL
=============================================================================
