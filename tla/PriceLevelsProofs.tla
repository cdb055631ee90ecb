------------------------- MODULE PriceLevelsProofs -------------------------
(***************************************************************************)
(* Theorems on PriceLevels, for any orders, prices, quantities and any     *)
(* capacity of a new queue.  Positions of the circular array are taken     *)
(* modulo its length: Place says the same without a remainder, and each    *)
(* operation on a queue is shown to be one on the sequence of its orders   *)
(* (GrownFits, PushedAppends, PoppedTail, RemovedFirst).  From these       *)
(* follow the refinement of OrderList and, with sums of quantities, the    *)
(* inductive invariant LevelsInv of the manager.                           *)
(***************************************************************************)
EXTENDS PriceLevels, Recursion

(* The circular array                                                      *)

\* The slot k places behind slot h, among n.
Place(n, h, k) == IF h + k < n THEN h + k ELSE h + k - n

\* The remainders that the queue takes turn at most once.
LEMMA Turn ==
  ASSUME NEW n \in Nat \ {0}, NEW x \in 0 .. 2 * n - 1
  PROVE  x % n = IF x < n THEN x ELSE x - n
<1>1. x = n * (x \div n) + (x % n) /\ x \div n \in Int /\ x % n \in 0 .. n - 1
  OBVIOUS
<1> DEFINE d == x \div n
           m == x % n
<1>2. x = n * d + m /\ d \in Int /\ m \in 0 .. n - 1
  BY <1>1
<1> HIDE DEF d, m
<1>3. d >= 0
  <2> SUFFICES ASSUME d <= -1 PROVE FALSE
    BY <1>2
  <2>1. n * d <= -n
    BY <1>2
  <2> QED
    BY <1>2, <2>1
<1>4. d <= 1
  <2> SUFFICES ASSUME d >= 2 PROVE FALSE
    BY <1>2
  <2>1. n * d >= 2 * n
    BY <1>2
  <2> QED
    BY <1>2, <2>1
<1>5. d = 0 \/ d = 1
  BY <1>2, <1>3, <1>4
<1>6. x = m \/ x = n + m
  BY <1>2, <1>5
<1> QED
  BY <1>2, <1>6 DEF m

\* Place is what the code computes with a remainder.
LEMMA TurnOnce ==
  ASSUME NEW n \in Nat \ {0}, NEW h \in 0 .. n - 1, NEW k \in 0 .. n
  PROVE  (h + k) % n = Place(n, h, k) /\ Place(n, h, k) \in 0 .. n - 1
<1> DEFINE x == h + k
<1>1. x \in 0 .. 2 * n - 1
  OBVIOUS
<1>2. x % n = IF x < n THEN x ELSE x - n
  <2> HIDE DEF x
  <2> QED
    BY <1>1, Turn
<1> QED
  BY <1>2 DEF Place

\* The slot after the k-th order's is the next one's.
LEMMA PlaceNext ==
  ASSUME NEW n \in Nat \ {0}, NEW h \in 0 .. n - 1, NEW k \in 0 .. n - 1
  PROVE  Place(n, Place(n, h, k), 1) = Place(n, h, k + 1)
BY DEF Place

\* The places counted from the next head.
LEMMA PlaceMoved ==
  ASSUME NEW n \in Nat \ {0}, NEW h \in 0 .. n - 1, NEW k \in 0 .. n - 2
  PROVE  /\ Place(n, Place(n, h, 1), k) = Place(n, h, k + 1)
         /\ Place(n, h, k + 1) # h /\ Place(n, h, k + 1) \in 0 .. n - 1
BY DEF Place

\* A queue of n slots.
Fits(q, n) ==
  /\ q \in [orders : [0 .. n - 1 -> Ids \cup {NIL}],
            head : 0 .. n - 1, tail : 0 .. n - 1, size : 0 .. n]
  /\ q.tail = Place(n, q.head, q.size)
  /\ \A k \in 0 .. q.size - 1 : q.orders[Place(n, q.head, k)] \in Ids

IsQueue(q) == \E n \in Nat \ {0} : Fits(q, n)

\* The slots of such a queue, and its orders' places among them.
LEMMA FitsSlots ==
  ASSUME NEW n \in Nat \ {0}, NEW q, Fits(q, n)
  PROVE  /\ DOMAIN q.orders = 0 .. n - 1 /\ Slots(q) = n
         /\ \A k \in 0 .. n : At(q, k) = Place(n, q.head, k) /\ At(q, k) \in 0 .. n - 1
<1>1. DOMAIN q.orders = 0 .. n - 1 /\ q.head \in 0 .. n - 1
  BY DEF Fits
<1>2. Cardinality(0 .. n - 1) = n
  <2>1. 0 \in Int /\ n - 1 \in Int /\ 0 <= n - 1
    OBVIOUS
  <2> QED
    BY <2>1, FS_Interval
<1>3. Slots(q) = n
  BY <1>1, <1>2 DEF Slots
<1> QED
  BY <1>1, <1>3, TurnOnce DEF At

\* It is sound.
LEMMA FitsSound ==
  ASSUME NEW q, IsQueue(q)
  PROVE  Sound(q)
<1>1. PICK n \in Nat \ {0} : Fits(q, n)
  BY DEF IsQueue
<1>2. DOMAIN q.orders = 0 .. n - 1 /\ Slots(q) = n
  BY <1>1, FitsSlots
<1>3. q.head \in 0 .. n - 1 /\ q.size \in 0 .. n /\ q.tail = Place(n, q.head, q.size)
  BY <1>1 DEF Fits
<1>4. q.tail = (q.head + q.size) % Slots(q)
  BY <1>2, <1>3, TurnOnce
<1>5. ASSUME NEW k \in 0 .. q.size - 1
      PROVE  q.orders[At(q, k)] # NIL
  <2>1. k \in 0 .. n
    BY <1>3
  <2>2. q.orders[Place(n, q.head, k)] \in Ids
    BY <1>1 DEF Fits
  <2>3. At(q, k) = Place(n, q.head, k)
    BY <1>1, <2>1, FitsSlots
  <2> QED
    BY <2>2, <2>3, QueueAssumption
<1> QED
  BY <1>2, <1>3, <1>4, <1>5 DEF Sound

\* Its orders as a sequence.
LEMMA ContentIs ==
  ASSUME NEW n \in Nat \ {0}, NEW q, Fits(q, n)
  PROVE  /\ Content(q) \in Seq(Ids) /\ Len(Content(q)) = q.size /\ q.size \in 0 .. n
         /\ \A k \in 0 .. q.size - 1 : Content(q)[k + 1] = q.orders[Place(n, q.head, k)]
<1>1. q.size \in 0 .. n
  BY DEF Fits
<1>2. ASSUME NEW k \in 1 .. q.size
      PROVE  q.orders[At(q, k - 1)] = q.orders[Place(n, q.head, k - 1)] /\ q.orders[At(q, k - 1)] \in Ids
  <2>1. k - 1 \in 0 .. n /\ k - 1 \in 0 .. q.size - 1
    BY <1>1
  <2>2. At(q, k - 1) = Place(n, q.head, k - 1)
    BY <2>1, FitsSlots
  <2> QED
    BY <2>1, <2>2 DEF Fits
<1>3. Content(q) \in [1 .. q.size -> Ids]
  BY <1>2 DEF Content
<1>4. Content(q) \in Seq(Ids) /\ Len(Content(q)) = q.size
  BY <1>1, <1>3
<1>5. ASSUME NEW k \in 0 .. q.size - 1
      PROVE  Content(q)[k + 1] = q.orders[Place(n, q.head, k)]
  <2>1. k + 1 \in 1 .. q.size /\ (k + 1) - 1 = k
    BY <1>1
  <2> QED
    BY <1>2, <2>1 DEF Content
<1> QED
  BY <1>1, <1>4, <1>5

\* A new queue is empty.
LEMMA NewFits == Fits(NewOrderQueue, Capacity) /\ Content(NewOrderQueue) = <<>>
<1>1. Fits(NewOrderQueue, Capacity)
  BY QueueAssumption DEF Fits, NewOrderQueue, Place
<1>2. Content(NewOrderQueue) \in Seq(Ids) /\ Len(Content(NewOrderQueue)) = 0
  BY <1>1, QueueAssumption, ContentIs DEF NewOrderQueue
<1> QED
  BY <1>1, <1>2

(* What the queue's operations do to its content                           *)

\* Growing keeps the orders and makes room for one.
LEMMA GrownFits ==
  ASSUME NEW n \in Nat \ {0}, NEW q, Fits(q, n)
  PROVE  \E m \in Nat \ {0} :
           /\ Fits(Grown(q), m) /\ Grown(q).size = q.size /\ q.size < m
           /\ \A k \in 0 .. q.size - 1 :
                Grown(q).orders[Place(m, Grown(q).head, k)] = q.orders[Place(n, q.head, k)]
<1>1. q.size \in 0 .. n /\ q.head \in 0 .. n - 1 /\ q.orders \in [0 .. n - 1 -> Ids \cup {NIL}]
  BY DEF Fits
<1>2. Slots(q) = n /\ DOMAIN q.orders = 0 .. n - 1
  BY FitsSlots
<1>3. CASE q.size < n
  <2>1. Grown(q) = q
    BY <1>2, <1>3 DEF Grown
  <2> QED
    BY <1>3, <2>1
<1>4. CASE q.size = n
  <2> DEFINE o == [k \in 0 .. 2 * n - 1 |-> IF k < n THEN Turned(q)[k] ELSE NIL]
  <2>1. Grown(q) = [orders |-> o, head |-> 0, tail |-> n, size |-> n]
    BY <1>2, <1>4 DEF Grown
  <2>2. ASSUME NEW k \in 0 .. n - 1
        PROVE  Turned(q)[k] = q.orders[Place(n, q.head, k)] /\ Turned(q)[k] \in Ids
    <3>1. k \in 0 .. n /\ k \in 0 .. q.size - 1
      BY <1>4
    <3>2. At(q, k) = Place(n, q.head, k)
      BY <3>1, FitsSlots
    <3>3. Turned(q)[k] = q.orders[At(q, k)]
      BY <1>2 DEF Turned
    <3> QED
      BY <3>1, <3>2, <3>3 DEF Fits
  <2>3. o \in [0 .. 2 * n - 1 -> Ids \cup {NIL}]
    BY <2>2
  <2>4. \A k \in 0 .. n - 1 : o[k] = q.orders[Place(n, q.head, k)] /\ o[k] \in Ids
    BY <2>2
  <2> HIDE DEF o
  <2>5. \A k \in 0 .. n - 1 : Place(2 * n, 0, k) = k
    BY DEF Place
  <2>6. Fits(Grown(q), 2 * n)
    BY <2>1, <2>3, <2>4 DEF Fits, Place
  <2>7. 2 * n \in Nat \ {0} /\ q.size < 2 * n
    BY <1>4
  <2> QED
    BY <1>4, <2>1, <2>4, <2>5, <2>6, <2>7
<1> QED
  BY <1>1, <1>3, <1>4

\* Push adds at the end, whether the array grows or not.
LEMMA PushedAppends ==
  ASSUME NEW q, IsQueue(q), NEW id \in Ids
  PROVE  IsQueue(Pushed(q, id)) /\ Content(Pushed(q, id)) = Append(Content(q), id)
<1>1. PICK n \in Nat \ {0} : Fits(q, n)
  BY DEF IsQueue
<1>2. PICK m \in Nat \ {0} :
        /\ Fits(Grown(q), m) /\ Grown(q).size = q.size /\ q.size < m
        /\ \A k \in 0 .. q.size - 1 :
             Grown(q).orders[Place(m, Grown(q).head, k)] = q.orders[Place(n, q.head, k)]
  BY <1>1, GrownFits
<1> DEFINE g == Grown(q)
           p == Pushed(q, id)
<1>3. p = [g EXCEPT !.orders[g.tail] = id, !.tail = (@ + 1) % Slots(g), !.size = @ + 1]
  BY DEF Pushed
<1>4. /\ Fits(g, m) /\ g.size = q.size /\ q.size < m
      /\ \A k \in 0 .. q.size - 1 :
            g.orders[Place(m, g.head, k)] = q.orders[Place(n, q.head, k)]
  BY <1>2
<1>5. q.size \in 0 .. n /\ q.size \in 0 .. m
  BY <1>1, <1>4 DEF Fits
<1> HIDE DEF g, p
<1>6. Slots(g) = m
  BY <1>4, FitsSlots
<1>7. /\ g \in [orders : [0 .. m - 1 -> Ids \cup {NIL}],
                 head : 0 .. m - 1, tail : 0 .. m - 1, size : 0 .. m]
      /\ g.tail = Place(m, g.head, g.size)
      /\ \A k \in 0 .. g.size - 1 : g.orders[Place(m, g.head, k)] \in Ids
  BY <1>4 DEF Fits
<1>8. (g.tail + 1) % m = Place(m, g.tail, 1) /\ Place(m, g.tail, 1) \in 0 .. m - 1
  <2>1. g.tail \in 0 .. m - 1 /\ 1 \in 0 .. m
    BY <1>7
  <2> QED
    BY <2>1, TurnOnce
<1>9. p = [orders |-> [g.orders EXCEPT ![g.tail] = id], head |-> g.head,
           tail |-> Place(m, g.tail, 1), size |-> g.size + 1]
  BY <1>3, <1>6, <1>7, <1>8
<1>10. \A k \in 0 .. g.size - 1 : Place(m, g.head, k) # g.tail
  BY <1>4, <1>5, <1>7 DEF Place
<1>11. \A k \in 0 .. g.size - 1 :
         p.orders[Place(m, g.head, k)] = g.orders[Place(m, g.head, k)]
  <2>1. \A k \in 0 .. g.size - 1 : Place(m, g.head, k) \in 0 .. m - 1
    BY <1>4, <1>5, <1>7 DEF Place
  <2> QED
    BY <1>7, <1>9, <1>10, <2>1
<1>12. p.orders[Place(m, g.head, g.size)] = id
  BY <1>7, <1>9
<1>13. Fits(p, m)
  <2>1. p \in [orders : [0 .. m - 1 -> Ids \cup {NIL}],
                head : 0 .. m - 1, tail : 0 .. m - 1, size : 0 .. m]
    BY <1>4, <1>5, <1>7, <1>8, <1>9
  <2>2. p.tail = Place(m, p.head, p.size)
    <3>1. g.head \in 0 .. m - 1 /\ g.size \in 0 .. m - 1
      BY <1>4, <1>5, <1>7
    <3> QED
      BY <1>7, <1>9, <3>1, PlaceNext
  <2>3. ASSUME NEW k \in 0 .. p.size - 1
        PROVE  p.orders[Place(m, p.head, k)] \in Ids
    <3>1. k \in 0 .. g.size - 1 \/ k = g.size
      BY <1>4, <1>5, <1>9
    <3> QED
      BY <1>7, <1>9, <1>11, <1>12, <3>1
  <2> QED
    BY <2>1, <2>2, <2>3 DEF Fits
<1>14. /\ Content(q) \in Seq(Ids) /\ Len(Content(q)) = q.size
       /\ \A k \in 0 .. q.size - 1 : Content(q)[k + 1] = q.orders[Place(n, q.head, k)]
  BY <1>1, ContentIs
<1>15. /\ Content(p) \in Seq(Ids) /\ Len(Content(p)) = q.size + 1
       /\ \A k \in 0 .. q.size : Content(p)[k + 1] = p.orders[Place(m, g.head, k)]
  <2>1. p.size = q.size + 1 /\ p.head = g.head
    BY <1>4, <1>9
  <2>2. (q.size + 1) - 1 = q.size
    BY <1>5
  <2> QED
    BY <1>13, <2>1, <2>2, ContentIs
<1>16. ASSUME NEW j \in 1 .. q.size + 1
       PROVE  Content(p)[j] = Append(Content(q), id)[j]
  <2>1. j - 1 \in 0 .. q.size /\ (j - 1) + 1 = j
    BY <1>5
  <2>2. Content(p)[j] = p.orders[Place(m, g.head, j - 1)]
    BY <1>15, <2>1
  <2>3. CASE j - 1 = q.size
    BY <1>4, <1>12, <1>14, <1>5, <2>2, <2>3
  <2>4. CASE j - 1 \in 0 .. q.size - 1
    <3>1. Content(p)[j] = q.orders[Place(n, q.head, j - 1)]
      BY <1>4, <1>11, <2>2, <2>4
    <3>2. Content(p)[j] = Content(q)[j]
      BY <1>14, <2>1, <2>4, <3>1
    <3> QED
      BY <1>14, <1>5, <2>4, <3>2
  <2>5. j - 1 = q.size \/ j - 1 \in 0 .. q.size - 1
    BY <1>5, <2>1
  <2> QED
    BY <2>3, <2>4, <2>5
<1>17. Content(p) = Append(Content(q), id)
  <2> DEFINE c == Content(p)
             d == Append(Content(q), id)
  <2>1. c \in Seq(Ids) /\ d \in Seq(Ids) /\ Len(c) = q.size + 1 /\ Len(d) = q.size + 1
    BY <1>14, <1>15
  <2>2. \A j \in 1 .. q.size + 1 : c[j] = d[j]
    BY <1>16
  <2> HIDE DEF c, d
  <2>3. c = d
    BY <1>5, <2>1, <2>2
  <2> QED
    BY <2>3 DEF c, d
<1> QED
  BY <1>13, <1>17 DEF IsQueue, p

\* Pop takes the first order.
LEMMA PoppedTail ==
  ASSUME NEW q, IsQueue(q), q.size > 0
  PROVE  /\ IsQueue(Popped(q)) /\ Content(Popped(q)) = Tail(Content(q))
         /\ Content(q) # <<>>
<1>1. PICK n \in Nat \ {0} : Fits(q, n)
  BY DEF IsQueue
<1> DEFINE p == Popped(q)
           h == Place(n, q.head, 1)
<1>2. /\ q \in [orders : [0 .. n - 1 -> Ids \cup {NIL}],
                 head : 0 .. n - 1, tail : 0 .. n - 1, size : 1 .. n]
      /\ q.tail = Place(n, q.head, q.size)
      /\ \A k \in 0 .. q.size - 1 : q.orders[Place(n, q.head, k)] \in Ids
  BY <1>1 DEF Fits
<1>3. (q.head + 1) % n = h /\ h \in 0 .. n - 1
  <2>1. q.head \in 0 .. n - 1 /\ 1 \in 0 .. n
    BY <1>2
  <2> QED
    BY <2>1, TurnOnce
<1>4. p = [orders |-> [q.orders EXCEPT ![q.head] = NIL], head |-> h,
           tail |-> q.tail, size |-> q.size - 1]
  <2>1. Slots(q) = n
    BY <1>1, FitsSlots
  <2>2. p = [q EXCEPT !.orders[q.head] = NIL, !.head = (@ + 1) % Slots(q), !.size = @ - 1]
    BY DEF Popped
  <2> HIDE DEF p, h
  <2> QED
    BY <1>2, <1>3, <2>1, <2>2
<1>5. ASSUME NEW k \in 0 .. q.size - 2
      PROVE  /\ Place(n, h, k) = Place(n, q.head, k + 1) /\ Place(n, h, k) # q.head
             /\ Place(n, h, k) \in 0 .. n - 1
  <2>1. q.head \in 0 .. n - 1 /\ k \in 0 .. n - 2
    BY <1>2
  <2> QED
    BY <2>1, PlaceMoved
<1> HIDE DEF p, h
<1>6. ASSUME NEW k \in 0 .. q.size - 2
      PROVE  /\ p.orders[Place(n, p.head, k)] = q.orders[Place(n, q.head, k + 1)]
             /\ p.orders[Place(n, p.head, k)] \in Ids
  <2>1. k + 1 \in 0 .. q.size - 1
    BY <1>2
  <2>2. q.orders[Place(n, q.head, k + 1)] \in Ids
    BY <1>2, <2>1
  <2>3. p.orders[Place(n, p.head, k)] = q.orders[Place(n, h, k)]
    BY <1>2, <1>4, <1>5
  <2> QED
    BY <1>5, <2>2, <2>3
<1>7. Fits(p, n)
  <2>1. p \in [orders : [0 .. n - 1 -> Ids \cup {NIL}],
                head : 0 .. n - 1, tail : 0 .. n - 1, size : 0 .. n]
    BY <1>2, <1>3, <1>4
  <2>2. p.tail = Place(n, p.head, p.size)
    BY <1>2, <1>4 DEF Place, h
  <2>3. (q.size - 1) - 1 = q.size - 2
    BY <1>2
  <2>4. \A k \in 0 .. p.size - 1 : p.orders[Place(n, p.head, k)] \in Ids
    BY <1>4, <1>6, <2>3
  <2> QED
    BY <2>1, <2>2, <2>4 DEF Fits
<1> DEFINE c == Content(q)
           d == Content(p)
<1>8. /\ c \in Seq(Ids) /\ Len(c) = q.size
      /\ \A k \in 0 .. q.size - 1 : c[k + 1] = q.orders[Place(n, q.head, k)]
  BY <1>1, ContentIs
<1>9. /\ d \in Seq(Ids) /\ Len(d) = q.size - 1
      /\ \A k \in 0 .. q.size - 2 : d[k + 1] = q.orders[Place(n, q.head, k + 1)]
  <2>1. p.size = q.size - 1 /\ p.size - 1 = q.size - 2
    BY <1>2, <1>4
  <2> QED
    BY <1>6, <1>7, <2>1, ContentIs
<1> HIDE DEF c, d
<1>10. ASSUME NEW j \in 1 .. q.size - 1
       PROVE  d[j] = c[j + 1]
  <2>1. j - 1 \in 0 .. q.size - 2 /\ (j - 1) + 1 = j /\ j \in 0 .. q.size - 1
    BY <1>2
  <2> QED
    BY <1>8, <1>9, <2>1
<1>11. c # <<>>
  BY <1>2, <1>8
<1>12. d = Tail(c)
  <2>1. Len(Tail(c)) = q.size - 1 /\ Tail(c) \in Seq(Ids)
    BY <1>2, <1>8, <1>11
  <2>2. \A j \in 1 .. q.size - 1 : Tail(c)[j] = c[j + 1]
    BY <1>2, <1>8, <1>11
  <2> QED
    BY <1>2, <1>9, <1>10, <2>1, <2>2
<1> QED
  BY <1>7, <1>11, <1>12 DEF IsQueue, p, c, d

\* RemoveFirst, place by place.
LEMMA RemovedAt ==
  ASSUME NEW T, NEW s \in Seq(T), NEW e, NEW i \in 1 .. Len(s), s[i] = e,
         \A j \in 1 .. i - 1 : s[j] # e
  PROVE  /\ RemoveFirst(s, e) \in Seq(T) /\ Len(RemoveFirst(s, e)) = Len(s) - 1
         /\ \A j \in 1 .. Len(s) - 1 :
              RemoveFirst(s, e)[j] = IF j < i THEN s[j] ELSE s[j + 1]
<1> DEFINE I == {j \in 1 .. Len(s) : s[j] = e}
           a == SubSeq(s, 1, i - 1)
           b == SubSeq(s, i + 1, Len(s))
<1>1. Min(I) = i
  <2>1. i \in I /\ \A j \in I : i <= j
    OBVIOUS
  <2>2. I \subseteq Int
    OBVIOUS
  <2> HIDE DEF I
  <2>3. \A x \in I : (\A y \in I : x <= y) => x = i
    BY <2>1, <2>2
  <2> QED
    BY <2>1, <2>3 DEF Min
<1>2. RemoveFirst(s, e) = a \o b
  BY <1>1 DEF RemoveFirst, RemoveAt, SelectInSeq
<1>3. a \in Seq(T) /\ Len(a) = i - 1 /\ \A j \in 1 .. i - 1 : a[j] = s[j]
  OBVIOUS
<1>4. b \in Seq(T) /\ Len(b) = Len(s) - i /\ \A j \in 1 .. Len(s) - i : b[j] = s[j + i]
  OBVIOUS
<1> HIDE DEF a, b
<1>5. a \o b \in Seq(T) /\ Len(a \o b) = Len(s) - 1
  BY <1>3, <1>4
<1>6. ASSUME NEW j \in 1 .. Len(s) - 1
      PROVE  (a \o b)[j] = IF j < i THEN s[j] ELSE s[j + 1]
  <2>1. CASE j < i
    BY <1>3, <1>4, <2>1
  <2>2. CASE ~ j < i
    <3>1. j - (i - 1) \in 1 .. Len(s) - i /\ (j - (i - 1)) + i = j + 1
      BY <2>2
    <3>2. (a \o b)[j] = b[j - (i - 1)]
      BY <1>3, <1>4, <2>2
    <3> QED
      BY <1>4, <2>2, <3>1, <3>2
  <2> QED
    BY <2>1, <2>2
<1> QED
  BY <1>2, <1>5, <1>6

\* No two orders share a slot.
LEMMA PlacesDiffer ==
  ASSUME NEW n \in Nat \ {0}, NEW h \in 0 .. n - 1,
         NEW k \in 0 .. n - 1, NEW j \in 0 .. n - 1, Place(n, h, k) = Place(n, h, j)
  PROVE  k = j
BY DEF Place

\* The number of the order that moves to place k.
Skip(k, i) == IF k < i THEN k ELSE k + 1

\* The slots o of a queue that lost its i-th order, counted from 0.
Closed(o, q, n, i) ==
  /\ o \in [0 .. n - 1 -> Ids \cup {NIL}]
  /\ \A k \in 0 .. q.size - 2 :
       o[Place(n, q.head, k)] = q.orders[Place(n, q.head, Skip(k, i))]

LEMMA ShiftedAt ==
  ASSUME NEW n \in Nat \ {0}, NEW q, Fits(q, n), q.size > 0, NEW i \in 0 .. q.size - 1
  PROVE  Closed(Shifted(q, i), q, n, i)
<1>1. /\ q.orders \in [0 .. n - 1 -> Ids \cup {NIL}]
      /\ q.head \in 0 .. n - 1 /\ q.size \in 1 .. n
  BY DEF Fits
<1>2. /\ DOMAIN q.orders = 0 .. n - 1 /\ Slots(q) = n
      /\ \A k \in 0 .. n : At(q, k) = Place(n, q.head, k) /\ At(q, k) \in 0 .. n - 1
  BY FitsSlots
<1> DEFINE P(k) == Place(n, q.head, k)
           New(x) == IF x = P(q.size - 1) /\ i = q.size - 1 THEN NIL
                     ELSE IF \E k \in i .. q.size - 2 : x = P(k) THEN q.orders[(x + 1) % n]
                     ELSE q.orders[x]
<1>3. Shifted(q, i) = [x \in 0 .. n - 1 |-> New(x)]
  <2>1. At(q, q.size - 1) = P(q.size - 1)
    BY <1>1, <1>2
  <2>2. ASSUME NEW k \in i .. q.size - 2
        PROVE  At(q, k) = P(k)
    <3>1. k \in 0 .. n
      BY <1>1
    <3> QED
      BY <1>2, <3>1
  <2> HIDE DEF P
  <2>3. \A x : (\E k \in i .. q.size - 2 : x = At(q, k)) <=> \E k \in i .. q.size - 2 : x = P(k)
    BY <2>2
  <2> QED
    BY <1>2, <2>1, <2>3 DEF Shifted
<1>4. \A x \in 0 .. n - 1 : (x + 1) % n = Place(n, x, 1) /\ Place(n, x, 1) \in 0 .. n - 1
  <2>1. 1 \in 0 .. n
    OBVIOUS
  <2> QED
    BY <2>1, TurnOnce
<1>5. ASSUME NEW x \in 0 .. n - 1
      PROVE  New(x) \in Ids \cup {NIL}
  BY <1>1, <1>4
<1>6. ASSUME NEW k \in 0 .. q.size - 2
      PROVE  New(P(k)) = q.orders[P(Skip(k, i))]
  <2>1. P(k) \in 0 .. n - 1 /\ P(k) # P(q.size - 1)
    <3>1. k \in 0 .. n - 1 /\ q.size - 1 \in 0 .. n - 1 /\ k \in 0 .. n /\ k # q.size - 1
      BY <1>1
    <3> QED
      BY <1>1, <3>1, PlacesDiffer, TurnOnce
  <2>2. CASE k < i
    <3>1. \A j \in i .. q.size - 2 : P(k) # P(j)
      <4> SUFFICES ASSUME NEW j \in i .. q.size - 2, P(k) = P(j) PROVE FALSE
        OBVIOUS
      <4>1. k \in 0 .. n - 1 /\ j \in 0 .. n - 1
        BY <1>1
      <4> QED
        BY <1>1, <2>2, <4>1, PlacesDiffer
    <3>2. Skip(k, i) = k
      BY <2>2 DEF Skip
    <3> HIDE DEF P
    <3> QED
      BY <2>1, <3>1, <3>2
  <2>3. CASE ~ k < i
    <3>1. k \in i .. q.size - 2
      BY <2>3
    <3>2. Place(n, P(k), 1) = P(k + 1)
      <4>1. k \in 0 .. n - 1
        BY <1>1
      <4> QED
        BY <1>1, <4>1, PlaceNext
    <3> HIDE DEF P
    <3>3. New(P(k)) = q.orders[(P(k) + 1) % n]
      BY <2>1, <3>1
    <3> QED
      BY <1>4, <2>1, <2>3, <3>2, <3>3 DEF Skip
  <2> QED
    BY <2>2, <2>3
<1>7. \A k \in 0 .. q.size - 2 : P(k) \in 0 .. n - 1
  BY <1>1 DEF Place
<1> HIDE DEF New
<1>8. Shifted(q, i) \in [0 .. n - 1 -> Ids \cup {NIL}]
  BY <1>3, <1>5
<1>9. \A k \in 0 .. q.size - 2 : Shifted(q, i)[P(k)] = q.orders[P(Skip(k, i))]
  BY <1>3, <1>6, <1>7
<1> QED
  BY <1>8, <1>9 DEF Closed

\* Remove takes the first order with the id, whatever wraps around the end.
LEMMA RemovedFirst ==
  ASSUME NEW q, IsQueue(q), NEW id, Places(q, id) # {}
  PROVE  /\ IsQueue(Removed(q, id)) /\ id \in ToSet(Content(q))
         /\ Content(Removed(q, id)) = RemoveFirst(Content(q), id)
<1>1. PICK n \in Nat \ {0} : Fits(q, n)
  BY DEF IsQueue
<1>2. /\ q \in [orders : [0 .. n - 1 -> Ids \cup {NIL}],
                 head : 0 .. n - 1, tail : 0 .. n - 1, size : 0 .. n]
      /\ q.tail = Place(n, q.head, q.size)
      /\ \A k \in 0 .. q.size - 1 : q.orders[Place(n, q.head, k)] \in Ids
  BY <1>1 DEF Fits
<1>3. /\ DOMAIN q.orders = 0 .. n - 1 /\ Slots(q) = n
      /\ \A k \in 0 .. n : At(q, k) = Place(n, q.head, k)
  BY <1>1, FitsSlots
<1> DEFINE i == CHOOSE k \in Places(q, id) : \A m \in Places(q, id) : k <= m
           p == Removed(q, id)
<1>4. /\ i \in Places(q, id) /\ \A m \in Places(q, id) : i <= m
  <2> DEFINE S == Places(q, id)
  <2>1. S \subseteq Nat /\ S # {}
    BY <1>2 DEF Places
  <2> HIDE DEF S
  <2>2. PICK x \in S : \A y \in S : <<y, x>> \notin OpToRel(<, Nat)
    BY <2>1, NatLessThanWellFounded, WFMin
  <2>3. ASSUME NEW y \in S, y < x PROVE FALSE
    <3>1. <<y, x>> \in OpToRel(<, Nat)
      BY <2>1, <2>3 DEF OpToRel
    <3> QED
      BY <2>2, <3>1
  <2>4. \A y \in S : x <= y
    BY <2>1, <2>3
  <2> QED
    BY <2>4 DEF S
<1>5. p = [q EXCEPT !.orders = Shifted(q, i), !.tail = TailBack(q), !.size = @ - 1]
  BY DEF Removed
<1> HIDE DEF i, p
<1>6. /\ i \in 0 .. q.size - 1 /\ q.orders[Place(n, q.head, i)] = id
      /\ \A k \in 0 .. i - 1 : q.orders[Place(n, q.head, k)] # id
  <2>1. \A k \in 0 .. q.size - 1 : At(q, k) = Place(n, q.head, k)
    BY <1>2, <1>3
  <2>2. i \in 0 .. q.size - 1 /\ q.orders[Place(n, q.head, i)] = id
    BY <1>4, <2>1 DEF Places
  <2>3. ASSUME NEW k \in 0 .. i - 1, q.orders[Place(n, q.head, k)] = id
        PROVE  FALSE
    <3>1. k \in 0 .. q.size - 1
      BY <1>2, <2>2
    <3>2. k \in Places(q, id)
      BY <2>1, <2>3, <3>1 DEF Places
    <3> QED
      BY <1>4, <2>2, <3>1, <3>2
  <2> QED
    BY <2>2, <2>3
<1>7. q.size \in 1 .. n
  BY <1>2, <1>6
<1>8. TailBack(q) = Place(n, q.head, q.size - 1)
  <2> DEFINE x == q.tail - 1 + n
  <2>1. x \in 0 .. 2 * n - 1
    BY <1>2
  <2>2. x % n = IF x < n THEN x ELSE x - n
    <3> HIDE DEF x
    <3> QED
      BY <2>1, Turn
  <2>3. (IF x < n THEN x ELSE x - n) = Place(n, q.head, q.size - 1)
    BY <1>2, <1>7 DEF Place
  <2> QED
    BY <1>3, <2>2, <2>3 DEF TailBack
<1>9. /\ Shifted(q, i) \in [0 .. n - 1 -> Ids \cup {NIL}]
      /\ \A k \in 0 .. q.size - 2 :
           Shifted(q, i)[Place(n, q.head, k)] =
             q.orders[Place(n, q.head, Skip(k, i))]
  <2>1. q.size > 0
    BY <1>7
  <2>2. i \in 0 .. q.size - 1
    BY <1>6
  <2>3. Closed(Shifted(q, i), q, n, i)
    BY <1>1, <2>1, <2>2, ShiftedAt
  <2> QED
    BY <2>3 DEF Closed
<1>10. p = [orders |-> Shifted(q, i), head |-> q.head,
            tail |-> Place(n, q.head, q.size - 1), size |-> q.size - 1]
  BY <1>2, <1>5, <1>8
<1>11. ASSUME NEW k \in 0 .. q.size - 2
       PROVE  p.orders[Place(n, q.head, k)] \in Ids
  <2>1. Skip(k, i) \in 0 .. q.size - 1
    BY <1>6, <1>7 DEF Skip
  <2> QED
    BY <1>2, <1>9, <1>10, <2>1
<1>12. Fits(p, n)
  <2>1. Place(n, q.head, q.size - 1) \in 0 .. n - 1
    BY <1>2, <1>7 DEF Place
  <2>2. p \in [orders : [0 .. n - 1 -> Ids \cup {NIL}],
                head : 0 .. n - 1, tail : 0 .. n - 1, size : 0 .. n]
    BY <1>2, <1>7, <1>9, <1>10, <2>1
  <2>3. p.head = q.head /\ p.size - 1 = q.size - 2 /\ p.tail = Place(n, p.head, p.size)
    BY <1>7, <1>10
  <2> QED
    BY <1>11, <2>2, <2>3 DEF Fits
<1> DEFINE c == Content(q)
           d == Content(p)
<1>13. /\ c \in Seq(Ids) /\ Len(c) = q.size
       /\ \A k \in 0 .. q.size - 1 : c[k + 1] = q.orders[Place(n, q.head, k)]
  BY <1>1, ContentIs
<1>14. /\ d \in Seq(Ids) /\ Len(d) = q.size - 1
       /\ \A k \in 0 .. q.size - 2 :
            d[k + 1] = q.orders[Place(n, q.head, Skip(k, i))]
  <2>1. p.head = q.head /\ p.size = q.size - 1 /\ p.size - 1 = q.size - 2
    BY <1>7, <1>10
  <2> QED
    BY <1>9, <1>10, <1>12, <2>1, ContentIs
<1> HIDE DEF c, d
<1>15. /\ i + 1 \in 1 .. Len(c) /\ c[i + 1] = id
       /\ \A j \in 1 .. (i + 1) - 1 : c[j] # id
  <2>1. i + 1 \in 1 .. Len(c) /\ c[i + 1] = id
    BY <1>6, <1>7, <1>13
  <2>2. ASSUME NEW j \in 1 .. (i + 1) - 1
        PROVE  c[j] # id
    <3>1. j - 1 \in 0 .. i - 1 /\ j - 1 \in 0 .. q.size - 1 /\ (j - 1) + 1 = j
      BY <1>6, <1>7
    <3> QED
      BY <1>6, <1>13, <3>1
  <2> QED
    BY <2>1, <2>2
<1> DEFINE e == RemoveFirst(c, id)
<1>16. /\ e \in Seq(Ids) /\ Len(e) = q.size - 1
       /\ \A j \in 1 .. q.size - 1 : e[j] = IF j < i + 1 THEN c[j] ELSE c[j + 1]
  <2> DEFINE j0 == i + 1
  <2>1. j0 \in 1 .. Len(c) /\ c[j0] = id /\ \A j \in 1 .. j0 - 1 : c[j] # id
    BY <1>15
  <2> HIDE DEF j0
  <2>2. /\ e \in Seq(Ids) /\ Len(e) = Len(c) - 1
        /\ \A j \in 1 .. Len(c) - 1 : e[j] = IF j < j0 THEN c[j] ELSE c[j + 1]
    BY <1>13, <2>1, RemovedAt
  <2> QED
    BY <1>13, <2>2 DEF j0
<1> HIDE DEF e
<1>17. ASSUME NEW j \in 1 .. q.size - 1
       PROVE  d[j] = e[j]
  <2> DEFINE k == j - 1
  <2>1. k \in 0 .. q.size - 2 /\ k + 1 = j /\ (k < i <=> j < i + 1)
    BY <1>6, <1>7
  <2> HIDE DEF k
  <2>2. CASE k < i
    <3>1. k \in 0 .. q.size - 1
      BY <1>7, <2>1
    <3>2. d[j] = q.orders[Place(n, q.head, k)] /\ c[j] = q.orders[Place(n, q.head, k)]
      BY <1>13, <1>14, <2>1, <2>2, <3>1 DEF Skip
    <3> QED
      BY <1>16, <2>1, <2>2, <3>2
  <2>3. CASE ~ k < i
    <3>1. k + 1 \in 0 .. q.size - 1
      BY <1>7, <2>1
    <3>2. d[j] = q.orders[Place(n, q.head, k + 1)] /\ c[(k + 1) + 1] = q.orders[Place(n, q.head, k + 1)]
      BY <1>13, <1>14, <2>1, <2>3, <3>1 DEF Skip
    <3> QED
      BY <1>16, <2>1, <2>3, <3>2
  <2> QED
    BY <2>2, <2>3
<1>18. d = e
  <2> DEFINE m == q.size - 1
  <2>1. d \in Seq(Ids) /\ Len(d) = m
    BY <1>14
  <2>2. e \in Seq(Ids) /\ Len(e) = m
    BY <1>16
  <2>3. m \in Nat
    BY <1>7
  <2>4. \A j \in 1 .. m : d[j] = e[j]
    BY <1>17
  <2> HIDE DEF m
  <2> QED
    BY <2>1, <2>2, <2>3, <2>4
<1>19. id \in ToSet(c)
  BY <1>13, <1>15 DEF ToSet
<1> QED
  BY <1>12, <1>18, <1>19 DEF IsQueue, c, d, e, p

-----------------------------------------------------------------------------
(* The queue by itself                                                     *)

\* An OrderQueue is a list of orders: what Push adds at the end, Pop takes at the
\* front and Remove takes anywhere, through growth and around the array's end.
THEOREM QueueIsList == Spec => ImplementsList
<1>1. Init => IsQueue(queue) /\ List!Init
  BY NewFits, QueueAssumption DEF Init, IsQueue, List!Init
<1>2. ASSUME IsQueue(queue), [Next]_vars
      PROVE  IsQueue(queue)' /\ [List!Next]_(Content(queue))
  <2>1. CASE UNCHANGED queue
    <3>1. Content(queue)' = Content(queue)
      BY <2>1 DEF Content, At, Slots
    <3>2. IsQueue(queue)'
      BY <1>2, <2>1 DEF IsQueue, Fits
    <3> QED
      BY <3>1, <3>2
  <2>2. CASE QueueStep
    <3>1. ASSUME NEW id \in Ids, Push(id)
          PROVE  IsQueue(queue)' /\ List!Next
      <4>1. queue' = Pushed(queue, id) /\ id \notin ToSet(Content(queue))
        BY <3>1 DEF Push
      <4>2. IsQueue(queue') /\ Content(queue') = Append(Content(queue), id)
        BY <1>2, <4>1, PushedAppends
      <4> QED
        BY <4>1, <4>2 DEF List!Next, List!Push, List!ToSet, ToSet
    <3>2. ASSUME NEW id \in Ids, Take(id)
          PROVE  IsQueue(queue)' /\ List!Next
      <4>1. queue' = Removed(queue, id) /\ Places(queue, id) # {}
        BY <3>2 DEF Take
      <4>2. /\ IsQueue(queue') /\ id \in ToSet(Content(queue))
            /\ Content(queue') = RemoveFirst(Content(queue), id)
        BY <1>2, <4>1, RemovedFirst
      <4>3. Content(queue') = List!RemoveFirst(Content(queue), id)
        BY <4>2 DEF List!RemoveFirst, List!RemoveAt, List!SelectInSeq, List!Min,
                    RemoveFirst, RemoveAt, SelectInSeq, Min
      <4> QED
        BY <4>2, <4>3 DEF List!Next, List!Take, List!ToSet, ToSet
    <3>3. ASSUME Pop
          PROVE  IsQueue(queue)' /\ List!Next
      <4>1. queue' = Popped(queue) /\ queue.size > 0
        BY <3>3 DEF Pop
      <4>2. /\ IsQueue(queue') /\ Content(queue) # <<>>
            /\ Content(queue') = Tail(Content(queue))
        BY <1>2, <4>1, PoppedTail
      <4> QED
        BY <4>2 DEF List!Next, List!Pop
    <3> QED
      BY <2>2, <3>1, <3>2, <3>3 DEF QueueStep
  <2> QED
    BY <1>2, <2>1, <2>2 DEF Next, vars
<1> QED
  BY <1>1, <1>2, PTL DEF Spec, ImplementsList, List!Spec

-----------------------------------------------------------------------------
(* The levels: sequences and sums                                          *)

\* A sequence of different elements, with one more and with one less.
LEMMA AppendedOrder ==
  ASSUME NEW T, NEW s \in Seq(T), IsInjective(s), NEW e \in T, e \notin ToSet(s)
  PROVE  /\ Append(s, e) \in Seq(T) /\ IsInjective(Append(s, e)) /\ Append(s, e) # <<>>
         /\ ToSet(Append(s, e)) = ToSet(s) \cup {e}
<1>1. \A i \in DOMAIN s : s[i] # e
  BY DEF ToSet
<1>2. /\ Append(s, e) \in Seq(T) /\ Len(Append(s, e)) = Len(s) + 1 /\ Len(s) \in Nat
      /\ DOMAIN Append(s, e) = 1 .. Len(s) + 1 /\ DOMAIN s = 1 .. Len(s)
      /\ \A i \in 1 .. Len(s) : Append(s, e)[i] = s[i]
      /\ Append(s, e)[Len(s) + 1] = e
  OBVIOUS
<1>3. IsInjective(Append(s, e))
  BY <1>1, <1>2 DEF IsInjective
<1>4. ToSet(Append(s, e)) = ToSet(s) \cup {e}
  BY <1>2 DEF ToSet
<1> QED
  BY <1>2, <1>3, <1>4

LEMMA RemovedOrder ==
  ASSUME NEW T, NEW s \in Seq(T), IsInjective(s), NEW e \in ToSet(s)
  PROVE  /\ RemoveFirst(s, e) \in Seq(T) /\ IsInjective(RemoveFirst(s, e))
         /\ ToSet(RemoveFirst(s, e)) = ToSet(s) \ {e}
<1>1. PICK i \in 1 .. Len(s) : s[i] = e
  BY DEF ToSet
<1>2. \A j \in 1 .. Len(s) : s[j] = e => j = i
  BY <1>1 DEF IsInjective
<1>3. \A j \in 1 .. i - 1 : s[j] # e
  BY <1>2
<1> DEFINE t == RemoveFirst(s, e)
           n == Len(s)
<1>4. /\ t \in Seq(T) /\ Len(t) = n - 1
      /\ \A j \in 1 .. n - 1 : t[j] = IF j < i THEN s[j] ELSE s[j + 1]
  BY <1>1, <1>3, RemovedAt
<1>5. n \in Nat /\ i \in 1 .. n /\ DOMAIN s = 1 .. n /\ DOMAIN t = 1 .. n - 1
  BY <1>4
<1>6. \A j, k \in 1 .. n : s[j] = s[k] => j = k
  BY DEF IsInjective
<1> HIDE DEF t, n
<1>7. IsInjective(t)
  <2> SUFFICES ASSUME NEW j \in 1 .. n - 1, NEW k \in 1 .. n - 1, t[j] = t[k]
               PROVE  j = k
    BY <1>5 DEF IsInjective
  <2>1. j \in 1 .. n /\ k \in 1 .. n /\ j + 1 \in 1 .. n /\ k + 1 \in 1 .. n
    BY <1>5
  <2>2. t[j] = (IF j < i THEN s[j] ELSE s[j + 1]) /\ t[k] = IF k < i THEN s[k] ELSE s[k + 1]
    BY <1>4
  <2> DEFINE a == IF j < i THEN j ELSE j + 1
             b == IF k < i THEN k ELSE k + 1
  <2>3. a \in 1 .. n /\ b \in 1 .. n /\ s[a] = s[b]
    BY <2>1, <2>2
  <2>4. a = b => j = k
    BY <1>5
  <2> HIDE DEF a, b
  <2> QED
    BY <1>6, <2>3, <2>4
<1>8. ASSUME NEW x \in ToSet(t)
      PROVE  x \in ToSet(s) \ {e}
  <2>1. PICK j \in 1 .. n - 1 : x = t[j]
    BY <1>5 DEF ToSet
  <2>2. j \in 1 .. n /\ j + 1 \in 1 .. n /\ x = IF j < i THEN s[j] ELSE s[j + 1]
    BY <1>4, <1>5, <2>1
  <2> QED
    BY <1>1, <1>2, <1>5, <2>2 DEF ToSet, n
<1>9. ASSUME NEW x \in ToSet(s), x # e
      PROVE  x \in ToSet(t)
  <2>1. PICK j \in 1 .. n : x = s[j]
    BY <1>5 DEF ToSet
  <2>2. j # i
    BY <1>1, <1>9, <2>1
  <2>3. CASE j < i
    <3>1. j \in 1 .. n - 1 /\ t[j] = x
      BY <1>4, <1>5, <2>1, <2>3
    <3> QED
      BY <1>5, <3>1 DEF ToSet
  <2>4. CASE j > i
    <3>1. j - 1 \in 1 .. n - 1 /\ ~ j - 1 < i /\ (j - 1) + 1 = j
      BY <1>5, <2>4
    <3>2. t[j - 1] = x
      BY <1>4, <2>1, <3>1
    <3> QED
      BY <1>5, <3>1, <3>2 DEF ToSet
  <2> QED
    BY <1>5, <2>2, <2>3, <2>4
<1> QED
  BY <1>4, <1>7, <1>8, <1>9 DEF t

-----------------------------------------------------------------------------
(* The levels and the map of the orders                                    *)

\* Orders by their id.
IsMap(m) ==
  /\ DOMAIN m \subseteq Ids /\ IsFiniteSet(DOMAIN m)
  /\ \A id \in DOMAIN m : m[id] \in [price : Prices, qty : Quantities]

QtyIn(m, S) == SumFunctionOnSet([id \in DOMAIN m |-> m[id].qty], S)

\* Quantities total a positive number but for no order.
LEMMA QtyPositive ==
  ASSUME NEW m, IsMap(m), NEW S, S \subseteq DOMAIN m
  PROVE  QtyIn(m, S) \in Nat /\ (QtyIn(m, S) = 0 <=> S = {})
<1> DEFINE f == [id \in DOMAIN m |-> m[id].qty]
<1>1. IsFiniteSet(S)
  BY FS_Subset DEF IsMap
<1>2. \A x \in S : f[x] \in Nat \ {0}
  BY LevelsAssumption DEF IsMap
<1> HIDE DEF f
<1>3. SumFunctionOnSet(f, S) \in Nat
  BY <1>1, <1>2, SumNat
<1>4. S # {} => SumFunctionOnSet(f, S) \in Nat \ {0}
  BY <1>1, <1>2, SumPositive
<1>5. S = {} => SumFunctionOnSet(f, S) = 0
  BY SumEmpty
<1> QED
  BY <1>3, <1>4, <1>5 DEF QtyIn, f

\* A total depends on its own orders only.
LEMMA QtyKept ==
  ASSUME NEW m, IsMap(m), NEW o, NEW S, S \subseteq DOMAIN m, S \subseteq DOMAIN o,
         \A x \in S : o[x] = m[x]
  PROVE  QtyIn(o, S) = QtyIn(m, S)
<1> DEFINE f == [id \in DOMAIN m |-> m[id].qty]
           g == [id \in DOMAIN o |-> o[id].qty]
<1>1. IsFiniteSet(S) /\ \A x \in S : g[x] = f[x]
  BY FS_Subset DEF IsMap
<1> HIDE DEF f, g
<1>2. SumFunctionOnSet(g, S) = SumFunctionOnSet(f, S)
  BY <1>1, SumAgree
<1> QED
  BY <1>2 DEF QtyIn, f, g

\* A total and one of its orders.
LEMMA QtyLess ==
  ASSUME NEW m, IsMap(m), NEW S, S \subseteq DOMAIN m, NEW x \in S
  PROVE  QtyIn(m, S) = m[x].qty + QtyIn(m, S \ {x}) /\ m[x].qty \in Nat \ {0}
<1> DEFINE f == [id \in DOMAIN m |-> m[id].qty]
<1>0. IsFiniteSet(S) /\ \A y \in S : f[y] \in Nat \ {0}
  <2>1. \A y \in S : m[y].qty \in Nat \ {0}
    BY LevelsAssumption DEF IsMap
  <2>2. \A y \in S : f[y] = m[y].qty
    OBVIOUS
  <2> HIDE DEF f
  <2> QED
    BY <2>1, <2>2, FS_Subset DEF IsMap
<1>1. IsFiniteSet(S) /\ \A y \in S : f[y] \in Int
  <2> HIDE DEF f
  <2> QED
    BY <1>0
<1>2. f[x] = m[x].qty /\ m[x].qty \in Nat \ {0}
  BY LevelsAssumption DEF IsMap
<1> HIDE DEF f
<1>3. SumFunctionOnSet(f, S) = f[x] + SumFunctionOnSet(f, S \ {x})
  BY <1>1, SumElement
<1> QED
  BY <1>2, <1>3 DEF QtyIn, f

\* A level and its queue, with the quantities of m.
LevelIs(l, q, m) ==
  /\ IsQueue(q) /\ Content(q) = l.orders
  /\ l \in Level /\ IsInjective(l.orders)
  /\ l.total = QtyIn(m, ToSet(l.orders))

\* A level of orders that did not change.
LEMMA LevelKept ==
  ASSUME NEW m, IsMap(m), NEW o, NEW l, NEW q, LevelIs(l, q, m),
         ToSet(l.orders) \subseteq DOMAIN m, ToSet(l.orders) \subseteq DOMAIN o,
         \A x \in ToSet(l.orders) : o[x] = m[x]
  PROVE  LevelIs(l, q, o)
<1>1. QtyIn(o, ToSet(l.orders)) = QtyIn(m, ToSet(l.orders))
  BY QtyKept
<1> QED
  BY <1>1 DEF LevelIs

\* A level of a first order.
LEMMA LevelStarts ==
  ASSUME NEW o, IsMap(o), NEW id \in DOMAIN o
  PROVE  LevelIs([orders |-> <<id>>, total |-> o[id].qty], Pushed(NewOrderQueue, id), o)
<1>1. id \in Ids /\ {id} \subseteq DOMAIN o
  BY DEF IsMap
<1>2. IsQueue(NewOrderQueue) /\ Content(NewOrderQueue) = <<>>
  BY NewFits, QueueAssumption DEF IsQueue
<1>3. /\ IsQueue(Pushed(NewOrderQueue, id))
      /\ Content(Pushed(NewOrderQueue, id)) = Append(<<>>, id)
  BY <1>1, <1>2, PushedAppends
<1>4. Append(<<>>, id) = <<id>> /\ <<id>> \in Seq(Ids) /\ IsInjective(<<id>>) /\ ToSet(<<id>>) = {id}
  BY <1>1 DEF IsInjective, ToSet
<1>5. QtyIn(o, {id}) = o[id].qty + QtyIn(o, {id} \ {id}) /\ o[id].qty \in Nat \ {0}
  BY <1>1, QtyLess
<1>6. {id} \ {id} = {} /\ QtyIn(o, {}) = 0
  BY QtyPositive
<1>7. QtyIn(o, {id}) = o[id].qty
  BY <1>5, <1>6
<1> QED
  BY <1>3, <1>4, <1>5, <1>7 DEF LevelIs, Level

\* A level with one order more.
LEMMA LevelAppends ==
  ASSUME NEW m, IsMap(m), NEW o, IsMap(o), NEW id \in DOMAIN o, id \notin DOMAIN m,
         DOMAIN m \subseteq DOMAIN o, \A x \in DOMAIN m : o[x] = m[x],
         NEW l, NEW q, LevelIs(l, q, m), ToSet(l.orders) \subseteq DOMAIN m
  PROVE  LevelIs([orders |-> Append(l.orders, id), total |-> l.total + o[id].qty],
                 Pushed(q, id), o)
<1> DEFINE s == l.orders
           t == Append(s, id)
<1>1. /\ IsQueue(q) /\ Content(q) = s /\ s \in Seq(Ids) /\ l.total \in Nat \ {0}
      /\ IsInjective(s) /\ l.total = QtyIn(m, ToSet(s))
  BY DEF LevelIs, Level
<1>2. id \in Ids /\ id \notin ToSet(s) /\ ToSet(s) \subseteq DOMAIN m
  BY DEF IsMap
<1> HIDE DEF s
<1>3. t \in Seq(Ids) /\ IsInjective(t) /\ ToSet(t) = ToSet(s) \cup {id}
  BY <1>1, <1>2, AppendedOrder
<1>4. IsQueue(Pushed(q, id)) /\ Content(Pushed(q, id)) = t
  BY <1>1, <1>2, PushedAppends
<1>5. QtyIn(o, ToSet(s)) = l.total
  <2>1. ToSet(s) \subseteq DOMAIN o /\ \A x \in ToSet(s) : o[x] = m[x]
    BY <1>2
  <2> QED
    BY <1>1, <1>2, <2>1, QtyKept
<1>6. QtyIn(o, ToSet(t)) = l.total + o[id].qty /\ o[id].qty \in Nat \ {0}
  <2>1. ToSet(t) \subseteq DOMAIN o /\ id \in ToSet(t) /\ ToSet(t) \ {id} = ToSet(s)
    BY <1>2, <1>3
  <2> HIDE DEF t
  <2>2. QtyIn(o, ToSet(t)) = o[id].qty + QtyIn(o, ToSet(t) \ {id}) /\ o[id].qty \in Nat \ {0}
    BY <2>1, QtyLess
  <2>3. QtyIn(o, ToSet(t)) = o[id].qty + l.total
    BY <1>5, <2>1, <2>2
  <2>4. o[id].qty + l.total = l.total + o[id].qty
    BY <1>1, <2>2
  <2> QED
    BY <2>2, <2>3, <2>4
<1> HIDE DEF t
<1>7. LevelIs([orders |-> t, total |-> l.total + o[id].qty], Pushed(q, id), o)
  <2> DEFINE total == l.total + o[id].qty
  <2>1. total \in Nat \ {0} /\ total = QtyIn(o, ToSet(t))
    BY <1>1, <1>6
  <2> HIDE DEF total
  <2>2. LevelIs([orders |-> t, total |-> total], Pushed(q, id), o)
    BY <1>3, <1>4, <2>1 DEF LevelIs, Level
  <2> QED
    BY <2>2 DEF total
<1> QED
  BY <1>7 DEF s, t

\* The search of Remove finds an order that is in the queue.
LEMMA PlacesFound ==
  ASSUME NEW q, IsQueue(q), NEW id \in ToSet(Content(q))
  PROVE  Places(q, id) # {}
<1>1. PICK n \in Nat \ {0} : Fits(q, n)
  BY DEF IsQueue
<1>2. q.size \in Nat
  BY <1>1 DEF Fits
<1>3. PICK k \in 1 .. q.size : id = q.orders[At(q, k - 1)]
  BY DEF ToSet, Content
<1>4. k - 1 \in 0 .. q.size - 1
  BY <1>2
<1> QED
  BY <1>3, <1>4 DEF Places

\* A level with one order less: its total is 0 just when that was the last.
LEMMA LevelLoses ==
  ASSUME NEW m, IsMap(m), NEW l, NEW q, LevelIs(l, q, m),
         NEW id \in ToSet(l.orders), ToSet(l.orders) \subseteq DOMAIN m,
         NEW o, o = Without(m, id), NEW left, left = l.total - m[id].qty
  PROVE  /\ left = 0 => ToSet(l.orders) = {id}
         /\ left # 0 => LevelIs([orders |-> RemoveFirst(l.orders, id), total |-> left],
                                Removed(q, id), o)
         /\ ToSet(RemoveFirst(l.orders, id)) = ToSet(l.orders) \ {id}
<1> DEFINE s == l.orders
           t == RemoveFirst(s, id)
<1>1. /\ IsQueue(q) /\ Content(q) = s /\ s \in Seq(Ids) /\ l.total \in Nat \ {0}
      /\ IsInjective(s) /\ l.total = QtyIn(m, ToSet(s)) /\ id \in ToSet(s)
      /\ ToSet(s) \subseteq DOMAIN m
  BY DEF LevelIs, Level
<1>2. DOMAIN o = DOMAIN m \ {id} /\ \A x \in DOMAIN o : o[x] = m[x]
  BY DEF Without, Restrict
<1> HIDE DEF s
<1>3. t \in Seq(Ids) /\ IsInjective(t) /\ ToSet(t) = ToSet(s) \ {id}
  BY <1>1, RemovedOrder
<1>4. IsQueue(Removed(q, id)) /\ Content(Removed(q, id)) = t
  <2>1. Places(q, id) # {}
    BY <1>1, PlacesFound
  <2> QED
    BY <1>1, <2>1, RemovedFirst
<1> HIDE DEF t
<1>5. QtyIn(m, ToSet(s)) = m[id].qty + QtyIn(m, ToSet(s) \ {id}) /\ m[id].qty \in Nat \ {0}
  BY <1>1, QtyLess
<1>6. ToSet(t) \subseteq DOMAIN m /\ ToSet(t) \subseteq DOMAIN o
  BY <1>1, <1>2, <1>3
<1>7. QtyIn(m, ToSet(t)) \in Nat /\ (QtyIn(m, ToSet(t)) = 0 <=> ToSet(t) = {})
  BY <1>6, QtyPositive
<1>8. left = QtyIn(m, ToSet(t))
  BY <1>1, <1>3, <1>5, <1>7
<1>9. QtyIn(o, ToSet(t)) = QtyIn(m, ToSet(t))
  BY <1>2, <1>6, QtyKept
<1>10. left = 0 => ToSet(s) = {id}
  BY <1>1, <1>3, <1>7, <1>8
<1>11. left # 0 => LevelIs([orders |-> t, total |-> left], Removed(q, id), o)
  BY <1>3, <1>4, <1>7, <1>8, <1>9 DEF LevelIs, Level
<1> QED
  BY <1>3, <1>10, <1>11 DEF s, t

-----------------------------------------------------------------------------
(* The manager                                                             *)

\* The orders of a level are those that the map has at its price.
Members(p) == ToSet(GetLevel(p)) = {id \in DOMAIN orderMap : orderMap[id].price = p}

\* A level and its queue hold the same different orders, the level's total is
\* theirs, and the map has them at the level's price.
Structures ==
  /\ IsMap(orderMap)
  /\ DOMAIN levels \subseteq Prices /\ DOMAIN seqMap = DOMAIN levels
  /\ \A p \in DOMAIN levels : LevelIs(levels[p], seqMap[p], orderMap)
  /\ \A p \in Prices : Members(p)

\* The counters lag by what the call in progress has still to add.
Counters ==
  /\ totalQty \in Nat /\ orderCount \in Nat
  /\ pc \in {"free", "qty", "count"} /\ change \in [qty : Int, count : -1 .. 1]
  /\ totalQty = QtyIn(orderMap, DOMAIN orderMap) - (IF pc = "qty" THEN change.qty ELSE 0)
  /\ orderCount = Cardinality(DOMAIN orderMap) - change.count
  /\ pc = "free" => change = [qty |-> 0, count |-> 0]

LEMMA LevelOrders ==
  ASSUME Structures, NEW p \in DOMAIN levels
  PROVE  /\ LevelIs(levels[p], seqMap[p], orderMap)
         /\ ToSet(levels[p].orders) = {id \in DOMAIN orderMap : orderMap[id].price = p}
BY DEF Structures, Members, GetLevel

\* Map m is map o and order id, in what it holds, totals and counts.
OneMore(m, o, id) ==
  /\ IsMap(o) /\ DOMAIN m = DOMAIN o \cup {id} /\ id \notin DOMAIN o
  /\ \A x \in DOMAIN o : o[x] = m[x]
  /\ QtyIn(m, DOMAIN m) = QtyIn(o, DOMAIN o) + m[id].qty
  /\ Cardinality(DOMAIN m) = Cardinality(DOMAIN o) + 1
  /\ QtyIn(o, DOMAIN o) \in Nat /\ Cardinality(DOMAIN o) \in Nat
  /\ m[id].qty \in Nat \ {0}

\* The map without one of its orders, and with a new one.
LEMMA MapLess ==
  ASSUME NEW m, IsMap(m), NEW id \in DOMAIN m
  PROVE  OneMore(m, Without(m, id), id)
<1> DEFINE o == Without(m, id)
<1>1. DOMAIN o = DOMAIN m \ {id} /\ \A x \in DOMAIN o : o[x] = m[x]
  BY DEF Without, Restrict
<1> HIDE DEF o
<1>2. IsMap(o)
  BY <1>1, FS_RemoveElement DEF IsMap
<1>3. QtyIn(m, DOMAIN m) = m[id].qty + QtyIn(m, DOMAIN o) /\ m[id].qty \in Nat \ {0}
  BY <1>1, QtyLess
<1>4. QtyIn(o, DOMAIN o) = QtyIn(m, DOMAIN o)
  <2>1. DOMAIN o \subseteq DOMAIN m
    BY <1>1
  <2> QED
    BY <1>1, <2>1, QtyKept
<1>5. QtyIn(o, DOMAIN o) \in Nat
  BY <1>2, QtyPositive
<1>6. IsFiniteSet(DOMAIN m) /\ IsFiniteSet(DOMAIN o)
  BY <1>2 DEF IsMap
<1>7. Cardinality(DOMAIN o) = Cardinality(DOMAIN m) - 1 /\ Cardinality(DOMAIN o) \in Nat
  BY <1>1, <1>6, FS_RemoveElement, FS_CardinalityType
<1>8. Cardinality(DOMAIN m) = Cardinality(DOMAIN o) + 1
  BY <1>6, <1>7, FS_CardinalityType
<1>9. QtyIn(m, DOMAIN m) = QtyIn(o, DOMAIN o) + m[id].qty
  BY <1>3, <1>4, <1>5
<1>10. DOMAIN m = DOMAIN o \cup {id} /\ id \notin DOMAIN o
  BY <1>1
<1>11. OneMore(m, o, id)
  BY <1>1, <1>2, <1>3, <1>5, <1>7, <1>8, <1>9, <1>10 DEF OneMore
<1> QED
  BY <1>11 DEF o

LEMMA MapMore ==
  ASSUME NEW m, IsMap(m), NEW id \in Ids, id \notin DOMAIN m,
         NEW r \in [price : Prices, qty : Quantities]
  PROVE  /\ IsMap(With(m, id, r)) /\ With(m, id, r)[id] = r
         /\ OneMore(With(m, id, r), m, id)
<1> DEFINE o == With(m, id, r)
<1>1. DOMAIN o = DOMAIN m \cup {id} /\ o[id] = r /\ \A x \in DOMAIN m : o[x] = m[x]
  BY DEF With
<1> HIDE DEF o
<1>2. IsMap(o)
  BY <1>1, FS_AddElement DEF IsMap
<1>3. id \in DOMAIN o
  BY <1>1
<1> DEFINE w == Without(o, id)
<1>4. DOMAIN w = DOMAIN m /\ \A x \in DOMAIN m : w[x] = m[x]
  BY <1>1 DEF Without, Restrict
<1>5. OneMore(o, w, id)
  BY <1>2, <1>3, MapLess
<1> HIDE DEF w
<1>6. QtyIn(w, DOMAIN m) = QtyIn(m, DOMAIN m)
  BY <1>4, QtyKept
<1>7. OneMore(o, m, id)
  BY <1>1, <1>4, <1>5, <1>6 DEF OneMore
<1> QED
  BY <1>1, <1>2, <1>7 DEF o

LEMMA AddKeeps ==
  ASSUME Structures, Counters,
         NEW id \in Ids, NEW p \in Prices, NEW q \in Quantities, AddOrder(id, p, q)
  PROVE  Structures' /\ Counters'
<1> DEFINE m == orderMap
           o == orderMap'
           l == LevelWith(p, id, q)
           k == Pushed(QueueAt(p), id)
<1>1. /\ pc = "free" /\ id \notin DOMAIN m /\ o = With(m, id, [price |-> p, qty |-> q])
      /\ levels' = With(levels, p, l) /\ seqMap' = With(seqMap, p, k)
      /\ pc' = "qty" /\ change' = [qty |-> q, count |-> 1]
      /\ totalQty' = totalQty /\ orderCount' = orderCount
  BY DEF AddOrder
<1>2. IsMap(m)
  BY DEF Structures
<1>3. /\ IsMap(o) /\ DOMAIN o = DOMAIN m \cup {id} /\ o[id] = [price |-> p, qty |-> q]
      /\ \A x \in DOMAIN m : o[x] = m[x]
      /\ QtyIn(o, DOMAIN o) = QtyIn(m, DOMAIN m) + q
      /\ Cardinality(DOMAIN o) = Cardinality(DOMAIN m) + 1
      /\ q \in Nat \ {0}
  <2> DEFINE r == [price |-> p, qty |-> q]
  <2>1. r \in [price : Prices, qty : Quantities] /\ o = With(m, id, r) /\ r.qty = q
    BY <1>1
  <2> HIDE DEF r, m, o
  <2>2. IsMap(With(m, id, r)) /\ With(m, id, r)[id] = r /\ OneMore(With(m, id, r), m, id)
    BY <1>1, <1>2, <2>1, MapMore
  <2> QED
    BY <2>1, <2>2 DEF OneMore, r
<1>4. /\ DOMAIN levels' = DOMAIN levels \cup {p} /\ DOMAIN seqMap' = DOMAIN seqMap \cup {p}
      /\ levels'[p] = l /\ seqMap'[p] = k
      /\ \A r \in DOMAIN levels : r # p => levels'[r] = levels[r]
      /\ \A r \in DOMAIN seqMap : r # p => seqMap'[r] = seqMap[r]
  <2> HIDE DEF l, k
  <2> QED
    BY <1>1 DEF With
<1>5. LevelIs(l, k, o)
  <2>1. CASE p \notin DOMAIN levels
    <3>1. l = [orders |-> <<id>>, total |-> o[id].qty] /\ k = Pushed(NewOrderQueue, id)
      BY <1>3, <2>1 DEF LevelWith, QueueAt, Structures
    <3>2. id \in DOMAIN o
      BY <1>3
    <3> HIDE DEF l, k, o
    <3> QED
      BY <1>3, <3>1, <3>2, LevelStarts
  <2>2. CASE p \in DOMAIN levels
    <3> DEFINE a == levels[p]
               b == seqMap[p]
    <3>1. LevelIs(a, b, m) /\ ToSet(a.orders) \subseteq DOMAIN m
      BY <2>2, LevelOrders
    <3>2. l = [orders |-> Append(a.orders, id), total |-> a.total + o[id].qty]
          /\ k = Pushed(b, id)
      BY <1>3, <2>2 DEF LevelWith, QueueAt, Structures
    <3>3. id \in DOMAIN o /\ DOMAIN m \subseteq DOMAIN o
      BY <1>3
    <3> HIDE DEF l, k, m, o, a, b
    <3> QED
      BY <1>1, <1>2, <1>3, <3>1, <3>2, <3>3, LevelAppends
  <2> QED
    BY <2>1, <2>2
<1>6. ToSet(l.orders) = {x \in DOMAIN o : o[x].price = p}
  <2>1. CASE p \notin DOMAIN levels
    <3>1. l.orders = <<id>> /\ ToSet(<<id>>) = {id}
      BY <2>1 DEF LevelWith, ToSet
    <3>2. {x \in DOMAIN m : m[x].price = p} = {}
      BY <2>1 DEF Structures, Members, GetLevel, ToSet
    <3> HIDE DEF m, o
    <3> QED
      BY <1>3, <3>1, <3>2
  <2>2. CASE p \in DOMAIN levels
    <3> DEFINE s == levels[p].orders
    <3>1. ToSet(s) = {x \in DOMAIN m : m[x].price = p} /\ s \in Seq(Ids) /\ IsInjective(s)
      BY <2>2, LevelOrders DEF LevelIs, Level
    <3>2. l.orders = Append(s, id)
      BY <2>2 DEF LevelWith
    <3> HIDE DEF s, m, o, l
    <3>3. ToSet(Append(s, id)) = ToSet(s) \cup {id}
      BY <1>1, <3>1, AppendedOrder
    <3> QED
      BY <1>3, <3>1, <3>2, <3>3
  <2> QED
    BY <2>1, <2>2
<1> HIDE DEF l, k
<1>7. ASSUME NEW r \in DOMAIN levels, r # p
      PROVE  LevelIs(levels'[r], seqMap'[r], o)
  <2>1. levels'[r] = levels[r] /\ seqMap'[r] = seqMap[r]
    BY <1>4, <1>7 DEF Structures
  <2> DEFINE a == levels[r]
             b == seqMap[r]
  <2>2. LevelIs(a, b, m) /\ ToSet(a.orders) \subseteq DOMAIN m
    BY LevelOrders
  <2> HIDE DEF m, o, a, b
  <2>3. ToSet(a.orders) \subseteq DOMAIN o /\ \A x \in ToSet(a.orders) : o[x] = m[x]
    BY <1>3, <2>2
  <2>4. LevelIs(a, b, o)
    BY <1>2, <2>2, <2>3, LevelKept
  <2> QED
    BY <2>1, <2>4 DEF a, b
<1>8. ASSUME NEW r \in Prices
      PROVE  Members(r)'
  <2>1. CASE r = p
    <3>1. GetLevel(r)' = l.orders
      BY <1>4, <2>1 DEF GetLevel
    <3> QED
      BY <1>6, <2>1, <3>1 DEF Members
  <2>2. CASE r # p
    <3>1. GetLevel(r)' = GetLevel(r)
      BY <1>4, <2>2 DEF GetLevel
    <3>2. {x \in DOMAIN o : o[x].price = r} = {x \in DOMAIN m : m[x].price = r}
      <4> HIDE DEF m, o
      <4> QED
        BY <1>3, <2>2
    <3>3. ToSet(GetLevel(r)) = {x \in DOMAIN m : m[x].price = r}
      BY DEF Structures, Members
    <3> QED
      BY <3>1, <3>2, <3>3 DEF Members
  <2> QED
    BY <2>1, <2>2
<1>9. Structures'
  <2>1. \A r \in DOMAIN levels' : LevelIs(levels'[r], seqMap'[r], o)
    <3> HIDE DEF m, o
    <3> QED
      BY <1>4, <1>5, <1>7
  <2>2. DOMAIN levels' \subseteq Prices /\ DOMAIN seqMap' = DOMAIN levels'
    BY <1>4 DEF Structures
  <2> QED
    BY <1>3, <1>8, <2>1, <2>2 DEF Structures
<1>10. Counters'
  <2> DEFINE x == QtyIn(m, DOMAIN m)
             y == Cardinality(DOMAIN m)
             z == QtyIn(o, DOMAIN o)
             w == Cardinality(DOMAIN o)
  <2>1. totalQty \in Nat /\ orderCount \in Nat /\ totalQty = x - 0 /\ orderCount = y - 0
    BY <1>1 DEF Counters
  <2>2. x \in Nat /\ y \in Nat
    BY <1>2, QtyPositive, FS_CardinalityType DEF IsMap
  <2>3. z = x + q /\ w = y + 1
    BY <1>3
  <2> HIDE DEF x, y, z, w
  <2>4. totalQty' = z - (IF pc' = "qty" THEN change'.qty ELSE 0) /\ orderCount' = w - change'.count
    BY <1>1, <1>3, <2>1, <2>2, <2>3
  <2>5. /\ totalQty' \in Nat /\ orderCount' \in Nat /\ pc' \in {"free", "qty", "count"}
        /\ change' \in [qty : Int, count : -1 .. 1] /\ pc' # "free"
    BY <1>1, <1>3, <2>1
  <2> QED
    BY <2>4, <2>5 DEF Counters, z, w
<1> QED
  BY <1>9, <1>10

LEMMA RemoveKeeps ==
  ASSUME Structures, Counters, NEW id \in Ids, RemoveOrder(id)
  PROVE  Structures' /\ Counters'
<1> DEFINE m == orderMap
           o == orderMap'
           p == orderMap[id].price
           qty == orderMap[id].qty
           l == levels[p]
           k == seqMap[p]
           left == l.total - qty
           t == RemoveFirst(l.orders, id)
<1>1. /\ pc = "free" /\ id \in DOMAIN m /\ o = Without(m, id)
      /\ p \in DOMAIN levels /\ id \in ToSet(l.orders)
      /\ pc' = "qty" /\ change' = [qty |-> -qty, count |-> -1]
      /\ totalQty' = totalQty /\ orderCount' = orderCount
  BY DEF RemoveOrder
<1>2. \/ /\ left = 0
         /\ levels' = Without(levels, p) /\ seqMap' = Without(seqMap, p)
      \/ /\ left # 0
         /\ levels' = [levels EXCEPT ![p] = [orders |-> t, total |-> left]]
         /\ seqMap' = [seqMap EXCEPT ![p] = Removed(@, id)]
  BY DEF RemoveOrder, QueueWithout
<1>3. IsMap(m) /\ OneMore(m, o, id)
  BY <1>1, MapLess DEF Structures
<1>4. LevelIs(l, k, m) /\ ToSet(l.orders) = {x \in DOMAIN m : m[x].price = p}
  BY <1>1, LevelOrders
<1>5. /\ left = 0 => ToSet(l.orders) = {id}
      /\ left # 0 => LevelIs([orders |-> t, total |-> left], Removed(k, id), o)
      /\ ToSet(t) = ToSet(l.orders) \ {id}
  <2> DEFINE r == left
  <2>1. r = l.total - m[id].qty /\ ToSet(l.orders) \subseteq DOMAIN m
    BY <1>4
  <2> HIDE DEF r, m, o, l, k
  <2>2. /\ r = 0 => ToSet(l.orders) = {id}
        /\ r # 0 => LevelIs([orders |-> RemoveFirst(l.orders, id), total |-> r], Removed(k, id), o)
        /\ ToSet(RemoveFirst(l.orders, id)) = ToSet(l.orders) \ {id}
    BY <1>1, <1>3, <1>4, <2>1, LevelLoses
  <2> QED
    BY <2>2 DEF r, m, o, l, k
<1>6. DOMAIN seqMap = DOMAIN levels /\ DOMAIN levels \subseteq Prices
  BY DEF Structures
<1> DEFINE s(r) == IF r \in DOMAIN levels' THEN levels'[r].orders ELSE <<>>
<1>7. /\ DOMAIN levels' \subseteq DOMAIN levels /\ DOMAIN seqMap' = DOMAIN levels'
      /\ p \in DOMAIN levels' => LevelIs(levels'[p], seqMap'[p], o)
      /\ \A r \in DOMAIN levels : r # p =>
           r \in DOMAIN levels' /\ levels'[r] = levels[r] /\ seqMap'[r] = seqMap[r]
      /\ ToSet(s(p)) = ToSet(l.orders) \ {id}
  <2> HIDE DEF m, o, t
  <2>1. CASE left = 0
    <3>1. levels' = Without(levels, p) /\ seqMap' = Without(seqMap, p)
      BY <1>2, <2>1
    <3> HIDE DEF l, k, left
    <3>2. /\ DOMAIN levels' = DOMAIN levels \ {p} /\ DOMAIN seqMap' = DOMAIN seqMap \ {p}
          /\ \A r \in DOMAIN levels : r # p => levels'[r] = levels[r]
          /\ \A r \in DOMAIN seqMap : r # p => seqMap'[r] = seqMap[r]
      BY <3>1 DEF Without, Restrict
    <3>3. ToSet(<<>>) = {} /\ ToSet(l.orders) \ {id} = {}
      BY <1>5, <2>1 DEF ToSet
    <3> QED
      BY <1>6, <3>2, <3>3
  <2>2. CASE left # 0
    <3>1. /\ levels' = [levels EXCEPT ![p] = [orders |-> t, total |-> left]]
          /\ seqMap' = [seqMap EXCEPT ![p] = Removed(@, id)]
      BY <1>2, <2>2
    <3>2. LevelIs([orders |-> t, total |-> left], Removed(k, id), o)
      BY <1>5, <2>2
    <3> HIDE DEF left
    <3>3. /\ DOMAIN levels' = DOMAIN levels /\ DOMAIN seqMap' = DOMAIN seqMap
          /\ levels'[p] = [orders |-> t, total |-> left] /\ seqMap'[p] = Removed(k, id)
          /\ \A r \in DOMAIN levels : r # p => levels'[r] = levels[r]
          /\ \A r \in DOMAIN seqMap : r # p => seqMap'[r] = seqMap[r]
      BY <1>1, <1>6, <3>1
    <3>4. s(p) = t
      BY <1>1, <3>3
    <3> HIDE DEF l, k
    <3> QED
      BY <1>5, <1>6, <3>2, <3>3, <3>4
  <2> QED
    BY <2>1, <2>2
<1> HIDE DEF t, left
<1>8. ASSUME NEW r \in DOMAIN levels, r # p
      PROVE  LevelIs(levels'[r], seqMap'[r], o)
  <2> DEFINE a == levels[r]
             b == seqMap[r]
  <2>1. levels'[r] = a /\ seqMap'[r] = b
    BY <1>7, <1>8
  <2>2. LevelIs(a, b, m) /\ ToSet(a.orders) = {x \in DOMAIN m : m[x].price = r}
    BY LevelOrders
  <2>3. id \notin ToSet(a.orders)
    BY <1>8, <2>2
  <2> HIDE DEF m, o, a, b
  <2>4. ToSet(a.orders) \subseteq DOMAIN o /\ \A x \in ToSet(a.orders) : o[x] = m[x]
    BY <1>3, <2>2, <2>3 DEF OneMore
  <2>5. ToSet(a.orders) \subseteq DOMAIN m
    BY <2>2
  <2>6. LevelIs(a, b, o)
    BY <1>3, <2>2, <2>4, <2>5, LevelKept
  <2> QED
    BY <2>1, <2>6
<1>9. ASSUME NEW r \in Prices
      PROVE  Members(r)'
  <2>1. CASE r = p
    <3>1. GetLevel(r)' = s(p)
      BY <2>1 DEF GetLevel
    <3>2. {x \in DOMAIN o : o[x].price = p} = {x \in DOMAIN m : m[x].price = p} \ {id}
      <4> HIDE DEF m, o, p
      <4> QED
        BY <1>3 DEF OneMore
    <3> HIDE DEF s
    <3> QED
      BY <1>4, <1>7, <2>1, <3>1, <3>2 DEF Members
  <2>2. CASE r # p
    <3>1. GetLevel(r)' = GetLevel(r)
      BY <1>7, <2>2 DEF GetLevel
    <3>2. {x \in DOMAIN o : o[x].price = r} = {x \in DOMAIN m : m[x].price = r}
      <4>1. m[id].price # r
        BY <2>2
      <4> HIDE DEF m, o
      <4> QED
        BY <1>3, <4>1 DEF OneMore
    <3>3. ToSet(GetLevel(r)) = {x \in DOMAIN m : m[x].price = r}
      BY DEF Structures, Members
    <3> QED
      BY <3>1, <3>2, <3>3 DEF Members
  <2> QED
    BY <2>1, <2>2
<1>10. Structures'
  <2>1. \A r \in DOMAIN levels' : LevelIs(levels'[r], seqMap'[r], o)
    <3> HIDE DEF m, o, p
    <3> QED
      BY <1>7, <1>8
  <2>2. DOMAIN levels' \subseteq Prices /\ DOMAIN seqMap' = DOMAIN levels'
    BY <1>6, <1>7
  <2>3. IsMap(o)
    BY <1>3 DEF OneMore
  <2> QED
    BY <1>9, <2>1, <2>2, <2>3 DEF Structures
<1>11. Counters'
  <2> DEFINE x == QtyIn(m, DOMAIN m)
             y == Cardinality(DOMAIN m)
             z == QtyIn(o, DOMAIN o)
             w == Cardinality(DOMAIN o)
  <2>1. totalQty \in Nat /\ orderCount \in Nat /\ totalQty = x - 0 /\ orderCount = y - 0
    BY <1>1 DEF Counters
  <2>2. z \in Nat /\ w \in Nat /\ x = z + qty /\ y = w + 1 /\ qty \in Nat \ {0}
    BY <1>3 DEF OneMore
  <2> HIDE DEF x, y, z, w, qty
  <2>3. totalQty' = z - (IF pc' = "qty" THEN change'.qty ELSE 0) /\ orderCount' = w - change'.count
    BY <1>1, <2>1, <2>2
  <2>4. /\ totalQty' \in Nat /\ orderCount' \in Nat /\ pc' \in {"free", "qty", "count"}
        /\ change' \in [qty : Int, count : -1 .. 1] /\ pc' # "free"
    BY <1>1, <2>1, <2>2
  <2> QED
    BY <2>3, <2>4 DEF Counters, z, w
<1> QED
  BY <1>10, <1>11

LEMMA CountersMove ==
  ASSUME Structures, Counters, ChangeQty \/ ChangeCount
  PROVE  Structures' /\ Counters'
<1> DEFINE x == QtyIn(orderMap, DOMAIN orderMap)
           y == Cardinality(DOMAIN orderMap)
<1>1. x \in Nat /\ y \in Nat
  BY QtyPositive, FS_CardinalityType DEF Structures, IsMap
<1>2. UNCHANGED <<levels, orderMap, seqMap>>
  BY DEF ChangeQty, ChangeCount
<1>3. Structures'
  BY <1>2 DEF Structures, Members, GetLevel
<1>4. x' = x /\ y' = y
  BY <1>2
<1>5. /\ totalQty \in Nat /\ orderCount \in Nat
      /\ change \in [qty : Int, count : -1 .. 1]
      /\ totalQty = x - (IF pc = "qty" THEN change.qty ELSE 0)
      /\ orderCount = y - change.count
  BY DEF Counters
<1> HIDE DEF x, y
<1>6. CASE ChangeQty
  <2>1. totalQty' = x /\ orderCount' = y - change'.count /\ orderCount' = orderCount
        /\ pc' = "count" /\ change' = change
    BY <1>1, <1>5, <1>6 DEF ChangeQty
  <2>2. totalQty' = x' - (IF pc' = "qty" THEN change'.qty ELSE 0) /\ orderCount' = y' - change'.count
    BY <1>1, <1>4, <2>1
  <2> QED
    BY <1>1, <1>3, <1>5, <2>1, <2>2 DEF Counters, x, y
<1>7. CASE ChangeCount
  <2>1. totalQty' = x /\ orderCount' = y /\ pc' = "free" /\ change' = [qty |-> 0, count |-> 0]
    BY <1>1, <1>5, <1>7 DEF ChangeCount
  <2>2. totalQty' = x' - (IF pc' = "qty" THEN change'.qty ELSE 0) /\ orderCount' = y' - change'.count
    BY <1>1, <1>4, <2>1
  <2>3. totalQty' \in Nat /\ orderCount' \in Nat /\ change' \in [qty : Int, count : -1 .. 1]
    BY <1>1, <2>1
  <2> QED
    BY <1>3, <2>1, <2>2, <2>3 DEF Counters, x, y
<1> QED
  BY <1>6, <1>7

\* The inductive invariant.
LevelsInv ==
  Structures /\ Counters /\ IsQueue(queue) /\ subject \in {"manager", "queue"}

LEMMA QueueStepKeeps ==
  ASSUME IsQueue(queue), QueueStep
  PROVE  IsQueue(queue')
<1>1. ASSUME NEW id \in Ids, Push(id) PROVE IsQueue(queue')
  BY <1>1, PushedAppends DEF Push
<1>2. ASSUME NEW id \in Ids, Take(id) PROVE IsQueue(queue')
  BY <1>2, RemovedFirst DEF Take
<1>3. ASSUME Pop PROVE IsQueue(queue')
  BY <1>3, PoppedTail DEF Pop
<1> QED
  BY <1>1, <1>2, <1>3 DEF QueueStep

LEMMA LevelsInvInductive == Spec => []LevelsInv
<1>1. Init => LevelsInv
  <2> SUFFICES ASSUME Init PROVE LevelsInv
    OBVIOUS
  <2>1. /\ DOMAIN levels = {} /\ DOMAIN seqMap = {} /\ DOMAIN orderMap = {}
        /\ totalQty = 0 /\ orderCount = 0 /\ pc = "free"
        /\ change = [qty |-> 0, count |-> 0] /\ queue = NewOrderQueue
        /\ subject \in {"manager", "queue"}
    BY DEF Init
  <2>2. IsMap(orderMap)
    BY <2>1, FS_EmptySet DEF IsMap
  <2>3. Structures
    BY <2>1, <2>2 DEF Structures, Members, GetLevel, ToSet
  <2>4. QtyIn(orderMap, DOMAIN orderMap) = 0 /\ Cardinality(DOMAIN orderMap) = 0
    BY <2>1, <2>2, QtyPositive, FS_EmptySet
  <2>5. Counters
    BY <2>1, <2>4 DEF Counters
  <2> QED
    BY <2>1, <2>3, <2>5, NewFits, QueueAssumption DEF LevelsInv, IsQueue
<1>2. LevelsInv /\ [Next]_vars => LevelsInv'
  <2> SUFFICES ASSUME LevelsInv, [Next]_vars PROVE LevelsInv'
    OBVIOUS
  <2>1. CASE UNCHANGED vars
    BY <2>1 DEF LevelsInv, vars, mvars, Structures, Members, GetLevel, Counters
  <2>2. CASE subject = "manager" /\ ManagerStep /\ UNCHANGED <<queue, subject>>
    <3>1. ASSUME NEW id \in Ids, NEW p \in Prices, NEW q \in Quantities, AddOrder(id, p, q)
          PROVE  Structures' /\ Counters'
      BY <3>1, AddKeeps DEF LevelsInv
    <3>2. ASSUME NEW id \in Ids, RemoveOrder(id)
          PROVE  Structures' /\ Counters'
      BY <3>2, RemoveKeeps DEF LevelsInv
    <3>3. ASSUME ChangeQty \/ ChangeCount
          PROVE  Structures' /\ Counters'
      BY <3>3, CountersMove DEF LevelsInv
    <3>4. Structures' /\ Counters'
      BY <2>2, <3>1, <3>2, <3>3 DEF ManagerStep
    <3> QED
      BY <2>2, <3>4 DEF LevelsInv
  <2>3. CASE subject = "queue" /\ QueueStep /\ UNCHANGED <<mvars, subject>>
    <3>1. IsQueue(queue')
      BY <2>3, QueueStepKeeps DEF LevelsInv
    <3>2. Structures' /\ Counters'
      BY <2>3 DEF LevelsInv, mvars, Structures, Members, GetLevel, Counters
    <3> QED
      BY <2>3, <3>1, <3>2 DEF LevelsInv
  <2> QED
    BY <2>1, <2>2, <2>3 DEF Next
<1> QED
  BY <1>1, <1>2, PTL DEF Spec

-----------------------------------------------------------------------------
(* The theorems                                                            *)

\* Every queue, of a price or by itself, keeps tail, head and size in step and
\* its slots within size filled: Remove, which reads the id of each of them,
\* meets no nil.
THEOREM LevelsTypes == Spec => []TypeOK
<1>1. LevelsInv => TypeOK
  <2> SUFFICES ASSUME LevelsInv PROVE TypeOK
    OBVIOUS
  <2>1. Structures /\ Counters /\ IsQueue(queue) /\ subject \in {"manager", "queue"}
    BY DEF LevelsInv
  <2>2. ASSUME NEW p \in DOMAIN levels
        PROVE  levels[p] \in Level /\ Sound(seqMap[p])
    BY <2>1, LevelOrders, FitsSound DEF LevelIs
  <2>3. Sound(queue)
    BY <2>1, FitsSound
  <2>4. \A id \in DOMAIN orderMap : orderMap[id] \in [price : Prices, qty : Quantities]
    BY <2>1 DEF Structures, IsMap
  <2>5. Range(levels) \subseteq Level
    BY <2>2 DEF Range
  <2>6. Range(orderMap) \subseteq [price : Prices, qty : Quantities]
    BY <2>4 DEF Range
  <2> QED
    BY <2>1, <2>2, <2>3, <2>5, <2>6 DEF TypeOK, Structures, IsMap, Counters
<1> QED
  BY <1>1, LevelsInvInductive, PTL

\* What Peek returns.
LEMMA PeekFirst ==
  ASSUME NEW q, IsQueue(q), Content(q) # <<>>
  PROVE  Peek(q) = Head(Content(q)) /\ Size(q) = Len(Content(q))
<1>1. PICK n \in Nat \ {0} : Fits(q, n)
  BY DEF IsQueue
<1>2. /\ Content(q) \in Seq(Ids) /\ Len(Content(q)) = q.size /\ q.size \in 0 .. n
      /\ \A k \in 0 .. q.size - 1 : Content(q)[k + 1] = q.orders[Place(n, q.head, k)]
  BY <1>1, ContentIs
<1>3. q.size # 0
  BY <1>2
<1>4. q.head \in 0 .. n - 1
  BY <1>1 DEF Fits
<1>5. Place(n, q.head, 0) = q.head /\ 0 \in 0 .. q.size - 1 /\ 0 + 1 = 1
  BY <1>2, <1>3, <1>4 DEF Place
<1>6. Content(q)[1] = q.orders[q.head]
  BY <1>2, <1>5
<1> QED
  BY <1>2, <1>3, <1>6 DEF Peek, Size

\* After any additions and removals a price has a level just when it has a
\* queue, both hold its orders in their order, the totals are those of the
\* orders, and the counters lag by at most the call in progress.
THEOREM LevelsAlwaysAgree == Spec => []LevelsAgree
<1>1. LevelsInv => LevelsAgree
  <2> SUFFICES ASSUME LevelsInv PROVE LevelsAgree
    OBVIOUS
  <2>1. Structures /\ Counters
    BY DEF LevelsInv
  <2>2. \A S : QtyOf(S) = QtyIn(orderMap, S)
    BY DEF QtyOf, QtyIn
  <2>3. ASSUME NEW p \in DOMAIN levels
        PROVE  /\ Content(seqMap[p]) = GetLevel(p) /\ IsInjective(GetLevel(p))
               /\ Size(seqMap[p]) = Len(GetLevel(p))
               /\ GetEarliestOrder(p) = Head(GetLevel(p))
               /\ levels[p].total = QtyOf(ToSet(GetLevel(p)))
    <3> DEFINE l == levels[p]
               k == seqMap[p]
    <3>1. LevelIs(l, k, orderMap)
      BY <2>1, LevelOrders
    <3>2. GetLevel(p) = l.orders /\ GetEarliestOrder(p) = Peek(k)
      BY <2>1 DEF GetLevel, GetEarliestOrder, Structures
    <3> HIDE DEF l, k
    <3>3. /\ IsQueue(k) /\ Content(k) = l.orders /\ IsInjective(l.orders)
          /\ l.total \in Nat \ {0} /\ l.total = QtyIn(orderMap, ToSet(l.orders))
      BY <3>1 DEF LevelIs, Level
    <3>4. l.orders # <<>>
      <4> SUFFICES ASSUME l.orders = <<>> PROVE FALSE
        OBVIOUS
      <4>1. ToSet(l.orders) = {}
        BY DEF ToSet
      <4>2. QtyIn(orderMap, {}) = 0
        BY <2>1, QtyPositive DEF Structures
      <4> QED
        BY <3>3, <4>1, <4>2
    <3>5. Peek(k) = Head(l.orders) /\ Size(k) = Len(l.orders)
      BY <3>3, <3>4, PeekFirst
    <3>6. /\ Content(k) = GetLevel(p) /\ IsInjective(GetLevel(p))
          /\ Size(k) = Len(GetLevel(p)) /\ GetEarliestOrder(p) = Head(GetLevel(p))
          /\ l.total = QtyOf(ToSet(GetLevel(p)))
      BY <2>2, <3>2, <3>3, <3>5
    <3> QED
      BY <3>6 DEF l, k
  <2>4. /\ GetTotalQuantity = QtyOf(DOMAIN orderMap) - (IF pc = "qty" THEN change.qty ELSE 0)
        /\ GetOrderCount = Cardinality(DOMAIN orderMap) - change.count
    BY <2>1, <2>2 DEF GetTotalQuantity, GetOrderCount, Counters
  <2> QED
    BY <2>1, <2>3, <2>4 DEF LevelsAgree, Structures, Members
<1> QED
  BY <1>1, LevelsInvInductive, PTL
=============================================================================
