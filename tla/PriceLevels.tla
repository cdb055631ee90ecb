---------------------------- MODULE PriceLevels ----------------------------
(***************************************************************************)
(* PriceLevelManager of orderbook/price_level.go, with one OrderQueue for  *)
(* each price, and an OrderQueue used by itself; a behaviour follows one   *)
(* of the two.  Neither has a caller in the program, HybridOrderBook keeps *)
(* levels and queues of its own: any sequence of calls is allowed that     *)
(* does not add an order twice (the engine's marks see to that).           *)
(*                                                                         *)
(* The manager's mutex is held by a whole call; the two counters are       *)
(* atomic, changed one after the other at the end of the call, and read    *)
(* without the mutex.                                                      *)
(***************************************************************************)
EXTENDS OrderQueue, SequencesExt

CONSTANTS
  Prices,      \* the prices tried
  Quantities   \* the order quantities tried, positive integers

ASSUME LevelsAssumption == Quantities \subseteq Nat \ {0}

VARIABLES
  levels,      \* the price levels by price: the orders listed and TotalQty
  orderMap,    \* the orders by id: price and quantity
  seqMap,      \* the queues by price
  totalQty,
  orderCount,
  pc,          \* "free", or the counter that the call with the mutex is at
  change,      \* the quantity and the number of orders that call changes
  queue,       \* the OrderQueue used by itself
  subject      \* "manager" or "queue"

mvars == <<levels, orderMap, seqMap, totalQty, orderCount, pc, change>>
vars == <<mvars, queue, subject>>

-----------------------------------------------------------------------------
(* The manager                                                             *)

\* A map with f[x] = v, and without x.
With(f, x, v) == [y \in DOMAIN f \cup {x} |-> IF y = x THEN v ELSE f[y]]

Without(f, x) == Restrict(f, DOMAIN f \ {x})

LevelWith(p, id, q) ==
  IF p \notin DOMAIN levels THEN [orders |-> <<id>>, total |-> q]
  ELSE [orders |-> Append(levels[p].orders, id), total |-> levels[p].total + q]

QueueAt(p) == IF p \in DOMAIN seqMap THEN seqMap[p] ELSE NewOrderQueue

AddOrder(id, p, q) ==
  /\ pc = "free" /\ id \notin DOMAIN orderMap
  /\ levels' = With(levels, p, LevelWith(p, id, q))
  /\ orderMap' = With(orderMap, id, [price |-> p, qty |-> q])
  /\ seqMap' = With(seqMap, p, Pushed(QueueAt(p), id))
  /\ pc' = "qty" /\ change' = [qty |-> q, count |-> 1]
  /\ UNCHANGED <<totalQty, orderCount>>

\* A queue that keeps the order removed from its level.
QueueKept(q, id) == q

QueueWithout(q, id) == Removed(q, id)

\* A level whose total is 0 is deleted with its queue; any other one loses the
\* order.  An id that is not known changes nothing.
RemoveOrder(id) ==
  /\ pc = "free" /\ id \in DOMAIN orderMap
  /\ LET p == orderMap[id].price
         left == levels[p].total - orderMap[id].qty
     IN  /\ p \in DOMAIN levels /\ id \in ToSet(levels[p].orders)
         /\ \/ /\ left = 0
               /\ levels' = Without(levels, p) /\ seqMap' = Without(seqMap, p)
            \/ /\ left # 0
               /\ levels' = [levels EXCEPT ![p] =
                    [orders |-> RemoveFirst(@.orders, id), total |-> left]]
               /\ seqMap' = [seqMap EXCEPT ![p] = QueueWithout(@, id)]
  /\ orderMap' = Without(orderMap, id)
  /\ pc' = "qty" /\ change' = [qty |-> -orderMap[id].qty, count |-> -1]
  /\ UNCHANGED <<totalQty, orderCount>>

ChangeQty ==
  /\ pc = "qty"
  /\ totalQty' = totalQty + change.qty
  /\ pc' = "count"
  /\ UNCHANGED <<levels, orderMap, seqMap, orderCount, change>>

ChangeCount ==
  /\ pc = "count"
  /\ orderCount' = orderCount + change.count
  /\ pc' = "free" /\ change' = [qty |-> 0, count |-> 0]
  /\ UNCHANGED <<levels, orderMap, seqMap, totalQty>>

\* Under the read lock.
GetEarliestOrder(p) == IF p \in DOMAIN seqMap THEN Peek(seqMap[p]) ELSE NIL

\* The orders of GetLevel; none without a level.
GetLevel(p) == IF p \in DOMAIN levels THEN levels[p].orders ELSE <<>>

\* Atomic loads, without the mutex.
GetTotalQuantity == totalQty

GetOrderCount == orderCount

ManagerStep ==
  \/ \E id \in Ids, p \in Prices, q \in Quantities : AddOrder(id, p, q)
  \/ \E id \in Ids : RemoveOrder(id)
  \/ ChangeQty \/ ChangeCount

-----------------------------------------------------------------------------
(* The queue by itself                                                     *)

Push(id) == id \notin ToSet(Content(queue)) /\ queue' = Pushed(queue, id)

Pop == queue.size > 0 /\ queue' = Popped(queue)

Take(id) == Places(queue, id) # {} /\ queue' = Removed(queue, id)

QueueStep == Pop \/ \E id \in Ids : Push(id) \/ Take(id)

-----------------------------------------------------------------------------

Init ==
  /\ levels = <<>> /\ seqMap = <<>> /\ orderMap = <<>>
  /\ totalQty = 0 /\ orderCount = 0
  /\ pc = "free" /\ change = [qty |-> 0, count |-> 0]
  /\ queue = NewOrderQueue
  /\ subject \in {"manager", "queue"}

Next ==
  \/ subject = "manager" /\ ManagerStep /\ UNCHANGED <<queue, subject>>
  \/ subject = "queue" /\ QueueStep /\ UNCHANGED <<mvars, subject>>

Spec == Init /\ [][Next]_vars

-----------------------------------------------------------------------------
(* Properties                                                              *)

Level == [orders : Seq(Ids), total : Nat \ {0}]

\* The type of every variable, and queues whose slots within size are filled:
\* Remove reads the id of each of them.
TypeOK ==
  /\ DOMAIN levels \subseteq Prices /\ Range(levels) \subseteq Level
  /\ DOMAIN orderMap \subseteq Ids
  /\ Range(orderMap) \subseteq [price : Prices, qty : Quantities]
  /\ \A p \in DOMAIN seqMap : Sound(seqMap[p])
  /\ totalQty \in Nat /\ orderCount \in Nat
  /\ pc \in {"free", "qty", "count"}
  /\ change \in [qty : Int, count : -1 .. 1]
  /\ Sound(queue)
  /\ subject \in {"manager", "queue"}

QtyOf(S) == SumFunctionOnSet([id \in DOMAIN orderMap |-> orderMap[id].qty], S)

\* The manager's structures agree after any additions and removals: a price has
\* a level just when it has a queue, the queue holds the level's orders in their
\* order, so that GetEarliestOrder is the first of them; the level totals what
\* its orders total, the map knows just the orders listed; and the counters,
\* read without the mutex, lag by at most the call in progress.
LevelsAgree ==
  /\ DOMAIN levels = DOMAIN seqMap
  /\ \A p \in Prices :
       ToSet(GetLevel(p)) = {id \in DOMAIN orderMap : orderMap[id].price = p}
  /\ \A p \in DOMAIN levels :
       /\ Content(seqMap[p]) = GetLevel(p) /\ IsInjective(GetLevel(p))
       /\ Size(seqMap[p]) = Len(GetLevel(p))
       /\ GetEarliestOrder(p) = Head(GetLevel(p))
       /\ levels[p].total = QtyOf(ToSet(GetLevel(p)))
  /\ GetTotalQuantity = QtyOf(DOMAIN orderMap) - (IF pc = "qty" THEN change.qty ELSE 0)
  /\ GetOrderCount = Cardinality(DOMAIN orderMap) - change.count

List == INSTANCE OrderList WITH list <- Content(queue)

\* A queue used by itself is a list, whatever wraps around its array's end when
\* it grows, is popped or loses an order from its middle.
ImplementsList == List!Spec
=============================================================================
