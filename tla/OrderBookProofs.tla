-------------------------- MODULE OrderBookProofs ---------------------------
(***************************************************************************)
(* Theorems about OrderBook, for every price grid, every set of quantities *)
(* and any number of orders: no level oversells, the book's lists and maps *)
(* agree, a Match takes the levels in the order of their prices and gives  *)
(* the taker what it asked for, no order comes to rest that could have     *)
(* traded, and what readers are shown is true of the orders.               *)
(***************************************************************************)
EXTENDS OrderBook, Recursion

\* The constants, as the provers need them.
LEMMA ConstantTypes ==
  /\ \A p \in Prices : p \in Nat \ {0}
  /\ \A q \in Quantities : q \in Nat \ {0}
  /\ 0 \in 0 .. MaxOrders
  /\ Blank \notin Orders
  BY BookAssumption DEF Blank, Orders, Ids

\* The fields of a valid order.
LEMMA OrderFields ==
  ASSUME NEW o \in Orders
  PROVE  /\ o.id \in Ids /\ o.qty \in Quantities /\ o.price \in Prices
         /\ LevelOf(o) \in Levels
  BY DEF Orders, LevelOf, Levels, Sides

\* The fields of a price level.
LEMMA LevelFields ==
  ASSUME NEW l \in Levels
  PROVE  l.side \in Sides /\ l.price \in Prices
  BY DEF Levels

\* What a cancellation leaves of a list is a list of the same elements.
LEMMA WithoutType ==
  ASSUME NEW s \in Seq(Ids), NEW n \in 1 .. Len(s)
  PROVE  Without(s, n) \in Seq(Ids)
  BY DEF Without

-----------------------------------------------------------------------------

\* The empty book is well typed.
LEMMA TypeInit == Init => TypeOK
  BY ConstantTypes, BookAssumption DEF Init, TypeOK

\* A new call of Match keeps the types.
LEMMA BeginType ==
  ASSUME TypeOK, NEW s \in Sides, NEW t \in Types, NEW p \in Prices,
         NEW q \in Quantities, MatchBegin(s, t, p, q)
  PROVE  TypeOK'
<1> DEFINE o == [id |-> used + 1, side |-> s, type |-> t, price |-> p, qty |-> q]
<1>1. used + 1 \in Ids /\ used + 1 \in 0 .. MaxOrders
  BY BookAssumption DEF TypeOK, MatchBegin, Ids
<1>2. o \in Orders
  BY <1>1 DEF Orders
<1>3. order' = [order EXCEPT ![used + 1] = o] /\ taker' = used + 1
      /\ used' = used + 1
  BY DEF MatchBegin
<1> HIDE DEF o
<1>4. order' \in [Ids -> Orders \cup {Blank}] /\ order'[taker'] \in Orders
  BY <1>1, <1>2, <1>3 DEF TypeOK
<1>5. rem' \in Nat /\ taker' \in 0 .. used' /\ used' \in 0 .. MaxOrders
  BY <1>1, <1>3, ConstantTypes DEF MatchBegin, TypeOK
<1> QED
  BY <1>4, <1>5 DEF MatchBegin, TypeOK, history

\* A trade takes something, and no more than both sides have.
LEMMA MatchedType ==
  ASSUME TypeOK, NEW l \in tree, CanTrade(l)
  PROVE  /\ l \in Levels /\ total[l] \in Int
         /\ Matched(l) \in Nat \ {0}
         /\ Matched(l) <= rem /\ Matched(l) <= total[l]
  BY DEF TypeOK, CanTrade, Matched

\* The maker is a submitted order, a reset one, or the stand-in.
LEMMA MakerType ==
  ASSUME TypeOK, NEW p \in Prices
  PROVE  Maker(p) \in {VIRTUAL, 0} \cup Ids
<1>1. CASE seq[p] = <<>>
  BY <1>1 DEF Maker
<1>2. CASE seq[p] # <<>>
  <2>1. Head(seq[p]) \in Ids
    BY <1>2 DEF TypeOK
  <2>2. order[Head(seq[p])] \in Orders \cup {Blank}
    BY <2>1 DEF TypeOK
  <2> QED
    BY <1>2, <2>2, OrderFields DEF Maker, Blank
<1> QED
  BY <1>1, <1>2

\* A turn of the matching loop keeps the types.
LEMMA TradeType ==
  ASSUME TypeOK, NEW l \in tree, MatchTrade(l)
  PROVE  TypeOK'
<1> DEFINE q == Matched(l)
           t == [maker |-> Maker(l.price), price |-> l.price, qty |-> q]
<1>1. /\ l \in Levels /\ l.price \in Prices /\ total[l] \in Int
      /\ q \in Nat \ {0} /\ q <= rem /\ q <= total[l]
  BY MatchedType, LevelFields DEF MatchTrade
<1>2. t \in [maker : {VIRTUAL, 0} \cup Ids, price : Prices, qty : Nat \ {0}]
  BY <1>1, MakerType
<1>3. trades' = Append(trades, t) /\ rem' = rem - q /\ taker # 0
      /\ traded' = [traded EXCEPT ![l] = @ + q]
      /\ UNCHANGED <<used, order, orderMap, taker, rested>>
  BY DEF MatchTrade, Left
<1>4. /\ tree' \subseteq Levels
      /\ total' \in [Levels -> Int]
      /\ resting' \in [Levels -> Seq(Ids)]
      /\ seq' \in [Prices -> Seq(Ids)]
  <2>1. CASE total[l] - q = 0
    <3>1. /\ tree' = tree \ {l}
          /\ total' = [total EXCEPT ![l] = 0]
          /\ resting' = [resting EXCEPT ![l] = <<>>]
          /\ seq' = [seq EXCEPT ![l.price] = <<>>]
      BY <2>1 DEF MatchTrade
    <3>2. <<>> \in Seq(Ids)
      OBVIOUS
    <3>3. total' \in [Levels -> Int]
      BY <3>1 DEF TypeOK
    <3>4. resting' \in [Levels -> Seq(Ids)] /\ seq' \in [Prices -> Seq(Ids)]
      BY <3>1, <3>2 DEF TypeOK
    <3> QED
      BY <3>1, <3>3, <3>4 DEF TypeOK
  <2>2. CASE total[l] - q # 0
    <3>1. AfterPartial(total[l] - q, q) \in Int
      BY <1>1 DEF AfterPartial
    <3>2. total' = [total EXCEPT ![l] = AfterPartial(total[l] - q, q)]
          /\ UNCHANGED <<tree, resting>>
      BY <2>2 DEF MatchTrade
    <3>3. seq' = [seq EXCEPT ![l.price] = IF @ = <<>> THEN @ ELSE Tail(@)]
      BY <2>2 DEF MatchTrade
    <3>4. (IF seq[l.price] = <<>> THEN seq[l.price] ELSE Tail(seq[l.price]))
            \in Seq(Ids)
      BY <1>1 DEF TypeOK
    <3>5. seq' \in [Prices -> Seq(Ids)]
      BY <3>3, <3>4 DEF TypeOK
    <3> QED
      BY <1>1, <3>1, <3>2, <3>5 DEF TypeOK
  <2> QED
    BY <2>1, <2>2
<1> HIDE DEF q, t
<1>5. trades' \in Seq([maker : {VIRTUAL, 0} \cup Ids, price : Prices,
                       qty : Nat \ {0}])
  BY <1>2, <1>3 DEF TypeOK
<1>6. rem' \in Nat /\ traded' \in [Levels -> Nat]
  BY <1>1, <1>3 DEF TypeOK
<1> QED
  BY <1>3, <1>4, <1>5, <1>6 DEF TypeOK

\* Resting an order keeps the types.
LEMMA AddType ==
  ASSUME TypeOK, NEW l \in Levels, taker \in Ids, AddOrderToBook(l)
  PROVE  /\ tree' \subseteq Levels
         /\ total' \in [Levels -> Int]
         /\ resting' \in [Levels -> Seq(Ids)]
         /\ seq' \in [Prices -> Seq(Ids)]
         /\ orderMap' \subseteq Ids
         /\ rested' \in [Levels -> Nat]
<1>1. l.price \in Prices
  BY LevelFields
<1>2. (IF Len(seq[l.price]) < SeqCap THEN Append(seq[l.price], taker)
       ELSE seq[l.price]) \in Seq(Ids)
  BY <1>1 DEF TypeOK
<1>3. seq' \in [Prices -> Seq(Ids)]
  BY <1>2 DEF AddOrderToBook, TypeOK
<1>4. resting' \in [Levels -> Seq(Ids)]
  BY DEF AddOrderToBook, TypeOK
<1>5. total' = [total EXCEPT ![l] = total[l] + rem]
      /\ rested' = [rested EXCEPT ![l] = rested[l] + rem]
  BY DEF AddOrderToBook
<1>6. total[l] + rem \in Int /\ rested[l] + rem \in Nat
  BY DEF TypeOK
<1>7. total' \in [Levels -> Int] /\ rested' \in [Levels -> Nat]
  BY <1>5, <1>6 DEF TypeOK
<1>8. tree' \subseteq Levels /\ orderMap' \subseteq Ids
  BY DEF AddOrderToBook, TypeOK
<1> QED
  BY <1>3, <1>4, <1>7, <1>8

\* The end of Match keeps the types.
LEMMA EndType ==
  ASSUME TypeOK, MatchEnd
  PROVE  TypeOK'
<1>1. taker \in Ids /\ order[taker] \in Orders
  BY BookAssumption DEF MatchEnd, TypeOK, Ids
<1>2. /\ tree' \subseteq Levels
      /\ total' \in [Levels -> Int]
      /\ resting' \in [Levels -> Seq(Ids)]
      /\ seq' \in [Prices -> Seq(Ids)]
      /\ orderMap' \subseteq Ids
      /\ rested' \in [Levels -> Nat]
  <2>1. CASE Rests
    BY <1>1, <2>1, OrderFields, AddType DEF MatchEnd
  <2>2. CASE ~Rests
    BY <2>2 DEF MatchEnd, TypeOK
  <2> QED
    BY <2>1, <2>2
<1>3. taker' = 0 /\ rem' = 0 /\ UNCHANGED <<used, order, trades, traded>>
  BY DEF MatchEnd
<1>4. taker' \in 0 .. used'
  BY <1>3 DEF TypeOK
<1> QED
  BY <1>2, <1>3, <1>4 DEF TypeOK

\* A cancellation keeps the types.
LEMMA CancelType ==
  ASSUME TypeOK, NEW i \in Ids, NEW n, CancelOrder(i, n)
  PROVE  TypeOK'
<1> DEFINE l == LevelOf(order[i])
           left == total[l] - order[i].qty
<1>1. l \in Levels /\ l.price \in Prices
  BY LevelFields DEF CancelOrder, TypeOK
<1>2. order[i] \in Orders
  BY <1>1, OrderFields DEF TypeOK, Blank, LevelOf, Levels, Sides
<1>3. left \in Int
  BY <1>1, <1>2, OrderFields, ConstantTypes DEF TypeOK
<1>4. n \in 1 .. Len(resting[l])
  BY DEF CancelOrder
<1>5. /\ tree' \subseteq Levels
      /\ resting' \in [Levels -> Seq(Ids)]
      /\ seq' \in [Prices -> Seq(Ids)]
  <2>1. CASE left = 0
    <3>1. /\ tree' = tree \ {l}
          /\ resting' = [resting EXCEPT ![l] = <<>>]
          /\ seq' = [seq EXCEPT ![l.price] = <<>>]
      BY <2>1 DEF CancelOrder, TotalWithout
    <3>2. <<>> \in Seq(Ids)
      OBVIOUS
    <3> QED
      BY <3>1, <3>2 DEF TypeOK
  <2>2. CASE left # 0
    <3>1. Without(resting[l], n) \in Seq(Ids)
      BY <1>1, <1>4, WithoutType DEF TypeOK
    <3>2. resting' = [resting EXCEPT ![l] = Without(resting[l], n)]
          /\ UNCHANGED <<tree, seq>>
      BY <1>1, <2>2 DEF CancelOrder, TotalWithout, TypeOK
    <3> QED
      BY <1>1, <3>1, <3>2 DEF TypeOK
  <2> QED
    BY <2>1, <2>2
<1>6. total' = [total EXCEPT ![l] = left] /\ orderMap' = orderMap \ {i}
      /\ order' = [order EXCEPT ![i] = Blank] /\ taker = 0
      /\ UNCHANGED <<used, taker, rem, trades, rested, traded>>
  BY DEF CancelOrder, TotalWithout, history
<1> HIDE DEF l, left
<1>7. total' \in [Levels -> Int]
  BY <1>1, <1>3, <1>6 DEF TypeOK
<1> QED
  BY <1>5, <1>6, <1>7 DEF TypeOK

\* Every step of the book keeps the types.
LEMMA StepType == TypeOK /\ [Next]_vars => TypeOK'
<1> SUFFICES ASSUME TypeOK, [Next]_vars PROVE TypeOK'
  OBVIOUS
<1>1. CASE UNCHANGED vars
  BY <1>1 DEF vars, TypeOK
<1>2. CASE Next
  <2>1. ASSUME NEW i \in orderMap,
               NEW n \in 1 .. Len(resting[LevelOf(order[i])]), CancelOrder(i, n)
        PROVE  TypeOK'
    BY <2>1, CancelType DEF TypeOK
  <2> QED
    BY <1>2, <2>1, BeginType, TradeType, EndType DEF Next, MatchStep
<1> QED
  BY <1>1, <1>2

\* Type correctness: the amounts of a Match stay natural numbers, every trade
\* has a positive quantity at a price of the grid, and every list and queue
\* holds submitted orders.
THEOREM BookTypeCorrect == Spec => []TypeOK
  BY TypeInit, StepType, PTL DEF Spec

-----------------------------------------------------------------------------
(* NoOversell is inductive: every trade takes at least its quantity off the *)
(* level's total, and leaves a total that is not negative.                  *)

\* A trade moves its quantity from the total to what was traded.
LEMMA TradeNoOversell ==
  ASSUME TypeOK, NoOversell, NEW l \in tree, MatchTrade(l)
  PROVE  NoOversell'
<1> DEFINE q == Matched(l)
<1>1. /\ l \in Levels /\ total[l] \in Int
      /\ q \in Nat \ {0} /\ q <= total[l]
  BY MatchedType DEF MatchTrade
<1>2. traded'[l] = traded[l] + q /\ rested' = rested
      /\ \A k \in Levels \ {l} : traded'[k] = traded[k] /\ total'[k] = total[k]
  BY <1>1 DEF MatchTrade, TypeOK
<1>3. total'[l] >= 0 /\ total'[l] <= total[l] - q /\ total'[l] \in Int
  <2>1. CASE total[l] - q = 0
    <3>1. total' = [total EXCEPT ![l] = 0]
      BY <2>1 DEF MatchTrade
    <3> QED
      BY <1>1, <2>1, <3>1 DEF TypeOK
  <2>2. CASE total[l] - q # 0
    <3>1. total' = [total EXCEPT ![l] = AfterPartial(total[l] - q, q)]
      BY <2>2 DEF MatchTrade
    <3>2. total'[l] = AfterPartial(total[l] - q, q)
      BY <1>1, <3>1 DEF TypeOK
    <3> QED
      BY <1>1, <3>2 DEF AfterPartial
  <2> QED
    BY <2>1, <2>2
<1> HIDE DEF q
<1>4. traded[l] + total[l] <= rested[l] /\ traded[l] \in Nat /\ rested[l] \in Nat
  BY <1>1 DEF NoOversell, TypeOK
<1>5. traded'[l] <= rested'[l] /\ traded'[l] + total'[l] <= rested'[l]
  BY <1>1, <1>2, <1>3, <1>4
<1> QED
  BY <1>2, <1>5 DEF NoOversell

\* Resting an order adds the same to the total and to what was rested.
LEMMA EndNoOversell ==
  ASSUME TypeOK, NoOversell, MatchEnd
  PROVE  NoOversell'
<1>1. CASE Rests
  <2> DEFINE l == LevelOf(order[taker])
  <2>1. l \in Levels
    BY OrderFields DEF MatchEnd, TypeOK
  <2>2. total' = [total EXCEPT ![l] = @ + rem]
        /\ rested' = [rested EXCEPT ![l] = @ + rem] /\ traded' = traded
    BY <1>1 DEF MatchEnd, AddOrderToBook
  <2> HIDE DEF l
  <2>3. ASSUME NEW k \in Levels
        PROVE  traded'[k] <= rested'[k] /\ traded'[k] + total'[k] <= rested'[k]
    BY <2>1, <2>2 DEF NoOversell, TypeOK
  <2> QED
    BY <2>3 DEF NoOversell
<1>2. CASE ~Rests
  BY <1>2 DEF MatchEnd, NoOversell
<1> QED
  BY <1>1, <1>2

\* A cancellation only lowers a total.
LEMMA CancelNoOversell ==
  ASSUME TypeOK, NoOversell, NEW i \in Ids, NEW n, CancelOrder(i, n)
  PROVE  NoOversell'
<1> DEFINE l == LevelOf(order[i])
<1>1. l \in Levels
  BY DEF CancelOrder, TypeOK
<1>2. order[i] \in Orders
  BY <1>1, OrderFields DEF TypeOK, Blank, LevelOf, Levels, Sides
<1>3. order[i].qty \in Nat
  BY <1>2, OrderFields, ConstantTypes
<1>4. total' = [total EXCEPT ![l] = total[l] - order[i].qty]
      /\ rested' = rested /\ traded' = traded
  BY DEF CancelOrder, TotalWithout, history
<1> HIDE DEF l
<1>5. ASSUME NEW k \in Levels
      PROVE  traded'[k] <= rested'[k] /\ traded'[k] + total'[k] <= rested'[k]
  BY <1>1, <1>3, <1>4 DEF NoOversell, TypeOK
<1> QED
  BY <1>5 DEF NoOversell

\* No price level ever sells more than was rested in it, although a partial
\* fill is subtracted twice and a cancellation subtracts the whole order.
THEOREM BookNeverOversells == Spec => []NoOversell
<1>1. Init => NoOversell
  BY DEF Init, NoOversell
<1>2. TypeOK /\ NoOversell /\ [Next]_vars => NoOversell'
  <2> SUFFICES ASSUME TypeOK, NoOversell, [Next]_vars PROVE NoOversell'
    OBVIOUS
  <2>1. CASE UNCHANGED vars
    BY <2>1 DEF vars, NoOversell
  <2>2. ASSUME NEW s \in Sides, NEW t \in Types, NEW p \in Prices,
               NEW q \in Quantities, MatchBegin(s, t, p, q)
        PROVE  NoOversell'
    BY <2>2 DEF MatchBegin, NoOversell, history
  <2>3. ASSUME NEW i \in orderMap,
               NEW n \in 1 .. Len(resting[LevelOf(order[i])]), CancelOrder(i, n)
        PROVE  NoOversell'
    BY <2>3, CancelNoOversell DEF TypeOK
  <2> QED
    BY <2>1, <2>2, <2>3, TradeNoOversell, EndNoOversell DEF Next, MatchStep
<1> QED
  BY <1>1, <1>2, BookTypeCorrect, PTL DEF Spec

-----------------------------------------------------------------------------

(* RestingIndexed is inductive together with what is known of the ids: the *)
(* order that is matched is the newest one and in no list or map yet.      *)

Fresh ==
  /\ orderMap \subseteq 1 .. used
  /\ taker \in {0, used} /\ taker \notin orderMap

Indexed == RestingIndexed /\ Fresh

\* What a level lists, as the provers use it.
LEMMA ListedOrder ==
  ASSUME TypeOK, Indexed, NEW l \in Levels, NEW n \in 1 .. Len(resting[l])
  PROVE  /\ resting[l][n] \in orderMap /\ resting[l][n] \in 1 .. used
         /\ resting[l][n] \in Ids
         /\ order[resting[l][n]].type = "limit" /\ LevelOf(order[resting[l][n]]) = l
         /\ order[resting[l][n]] \in Orders
<1>1. resting[l][n] \in orderMap /\ order[resting[l][n]].type = "limit"
      /\ LevelOf(order[resting[l][n]]) = l
  BY DEF Indexed, RestingIndexed
<1>2. resting[l][n] \in Ids /\ resting[l][n] \in 1 .. used
  BY <1>1 DEF TypeOK, Indexed, Fresh
<1>3. order[resting[l][n]] \in Orders \cup {Blank}
  BY <1>2 DEF TypeOK
<1> QED
  BY <1>1, <1>2, <1>3 DEF Blank

\* A new order is in no list.
LEMMA BeginIndexed ==
  ASSUME TypeOK, Indexed, NEW s \in Sides, NEW t \in Types, NEW p \in Prices,
         NEW q \in Quantities, MatchBegin(s, t, p, q)
  PROVE  Indexed'
<1>1. used' = used + 1 /\ taker' = used + 1 /\ used \in Nat
      /\ UNCHANGED <<tree, total, resting, orderMap>>
  BY BookAssumption DEF MatchBegin, TypeOK
<1>2. \A i \in Ids : i # used + 1 => order'[i] = order[i]
  BY DEF MatchBegin, TypeOK
<1>3. ASSUME NEW l \in Levels, NEW n \in 1 .. Len(resting[l])
      PROVE  order'[resting[l][n]] = order[resting[l][n]]
  BY <1>1, <1>2, ListedOrder
<1>4. Fresh'
  BY <1>1 DEF Indexed, Fresh
<1>5. RestingIndexed'
  <2>1. ASSUME NEW l \in Levels, NEW n \in 1 .. Len(resting'[l])
        PROVE  /\ resting'[l][n] \in orderMap' /\ order'[resting'[l][n]].type = "limit"
               /\ LevelOf(order'[resting'[l][n]]) = l
               /\ \A m \in 1 .. Len(resting'[l]) : m # n => resting'[l][m] # resting'[l][n]
    BY <1>1, <1>3, <2>1 DEF Indexed, RestingIndexed
  <2>2. ASSUME NEW l \in Levels, l \notin tree'
        PROVE  resting'[l] = <<>> /\ total'[l] = 0
    BY <1>1, <2>2 DEF Indexed, RestingIndexed
  <2> QED
    BY <2>1, <2>2 DEF RestingIndexed, LevelOf
<1> QED
  BY <1>4, <1>5 DEF Indexed

\* A trade leaves the lists alone, or empties that of a level it removes.
LEMMA TradeIndexed ==
  ASSUME TypeOK, Indexed, NEW l \in tree, MatchTrade(l)
  PROVE  Indexed'
<1>1. l \in Levels /\ UNCHANGED <<used, order, orderMap, taker>>
  BY DEF MatchTrade, TypeOK
<1>2. CASE total[l] - Matched(l) = 0
  <2>1. tree' = tree \ {l} /\ total'[l] = 0 /\ resting'[l] = <<>>
        /\ \A k \in Levels \ {l} : total'[k] = total[k] /\ resting'[k] = resting[k]
    BY <1>1, <1>2 DEF MatchTrade, TypeOK
  <2>2. ASSUME NEW k \in Levels, k # l
        PROVE  resting'[k] = resting[k] /\ total'[k] = total[k]
               /\ (k \notin tree' => k \notin tree)
    BY <2>1, <2>2
  <2>3. Len(resting'[l]) = 0
    BY <2>1
  <2> QED
    BY <1>1, <2>1, <2>2, <2>3 DEF Indexed, RestingIndexed, Fresh, LevelOf
<1>3. CASE total[l] - Matched(l) # 0
  <2>1. tree' = tree /\ resting' = resting
        /\ \A k \in Levels \ {l} : total'[k] = total[k]
    BY <1>1, <1>3 DEF MatchTrade, TypeOK
  <2> QED
    BY <1>1, <2>1 DEF Indexed, RestingIndexed, Fresh, LevelOf
<1> QED
  BY <1>2, <1>3

\* The rest of the taker is listed once, at its own side and price.
LEMMA EndIndexed ==
  ASSUME TypeOK, Indexed, MatchEnd
  PROVE  Indexed'
<1>1. taker \in Ids /\ order[taker] \in Orders /\ taker = used /\ used \in Nat
      /\ used' = used /\ order' = order /\ taker' = 0 /\ taker \in 1 .. used
  BY BookAssumption DEF MatchEnd, TypeOK, Ids, Indexed, Fresh
<1>2. CASE Rests
  <2> DEFINE l == LevelOf(order[taker])
  <2>1. l \in Levels /\ order[taker].type = "limit"
    BY <1>1, <1>2, OrderFields DEF Rests
  <2>2. /\ tree' = tree \cup {l} /\ orderMap' = orderMap \cup {taker}
        /\ resting' = [resting EXCEPT ![l] = Append(@, taker)]
        /\ total' = [total EXCEPT ![l] = @ + rem]
    BY <1>2 DEF MatchEnd, AddOrderToBook
  <2>3. LevelOf(order[taker]) = l
    OBVIOUS
  <2> HIDE DEF l
  <2>4. Fresh'
    BY <1>1, <2>2 DEF Indexed, Fresh
  <2>5. resting[l] \in Seq(Ids) /\ Len(resting[l]) \in Nat
    BY <2>1 DEF TypeOK
  <2>6. resting'[l] = Append(resting[l], taker)
        /\ \A k \in Levels \ {l} : resting'[k] = resting[k] /\ total'[k] = total[k]
    BY <2>1, <2>2 DEF TypeOK
  <2>7. ASSUME NEW n \in 1 .. Len(resting'[l])
        PROVE  /\ resting'[l][n] \in orderMap' /\ order[resting'[l][n]].type = "limit"
               /\ LevelOf(order[resting'[l][n]]) = l
               /\ \A m \in 1 .. Len(resting'[l]) : m # n => resting'[l][m] # resting'[l][n]
    <3>1. Len(resting'[l]) = Len(resting[l]) + 1
          /\ resting'[l][Len(resting[l]) + 1] = taker
          /\ \A m \in 1 .. Len(resting[l]) : resting'[l][m] = resting[l][m]
      BY <1>1, <2>5, <2>6
    <3>2. \A m \in 1 .. Len(resting[l]) : resting[l][m] # taker
      BY <2>1, ListedOrder DEF Indexed, Fresh
    <3>3. CASE n = Len(resting[l]) + 1
      BY <2>1, <2>2, <2>3, <2>5, <3>1, <3>2, <3>3
    <3>4. CASE n \in 1 .. Len(resting[l])
      <4>1. /\ resting[l][n] \in orderMap /\ order[resting[l][n]].type = "limit"
            /\ LevelOf(order[resting[l][n]]) = l
            /\ \A m \in 1 .. Len(resting[l]) : m # n => resting[l][m] # resting[l][n]
        BY <2>1, <3>4 DEF Indexed, RestingIndexed
      <4> QED
        BY <2>2, <2>5, <3>1, <3>2, <3>4, <4>1
    <3> QED
      BY <2>5, <3>1, <3>3, <3>4
  <2>8. ASSUME NEW k \in Levels, k # l
        PROVE  /\ resting'[k] = resting[k] /\ total'[k] = total[k]
               /\ k \notin tree' => k \notin tree
    BY <2>2, <2>6, <2>8
  <2>9. l \in tree' /\ orderMap \subseteq orderMap'
    BY <2>2
  <2>10. RestingIndexed'
    <3>1. ASSUME NEW k \in Levels, NEW n \in 1 .. Len(resting'[k])
          PROVE  /\ resting'[k][n] \in orderMap' /\ order[resting'[k][n]].type = "limit"
                 /\ LevelOf(order[resting'[k][n]]) = k
                 /\ \A m \in 1 .. Len(resting'[k]) : m # n => resting'[k][m] # resting'[k][n]
      BY <2>7, <2>8, <2>9, <3>1 DEF Indexed, RestingIndexed
    <3>2. ASSUME NEW k \in Levels, k \notin tree'
          PROVE  resting'[k] = <<>> /\ total'[k] = 0
      BY <2>8, <2>9, <3>2 DEF Indexed, RestingIndexed
    <3> QED
      BY <1>1, <3>1, <3>2 DEF RestingIndexed, LevelOf
  <2> QED
    BY <2>4, <2>10 DEF Indexed
<1>3. CASE ~Rests
  <2>1. UNCHANGED <<tree, total, resting, orderMap>>
    BY <1>3 DEF MatchEnd
  <2>2. Fresh'
    BY <1>1, <2>1 DEF Indexed, Fresh
  <2>3. RestingIndexed'
    BY <1>1, <2>1 DEF Indexed, RestingIndexed, LevelOf
  <2> QED
    BY <2>2, <2>3 DEF Indexed
<1> QED
  BY <1>2, <1>3

\* What a list without its n-th order holds.
LEMMA WithoutElements ==
  ASSUME NEW s \in Seq(Ids), NEW n \in 1 .. Len(s)
  PROVE  /\ Len(Without(s, n)) = Len(s) - 1
         /\ \A m \in 1 .. Len(s) - 1 :
              Without(s, n)[m] = IF m < n THEN s[m] ELSE s[m + 1]
<1>1. SubSeq(s, 1, n - 1) \in Seq(Ids) /\ Len(SubSeq(s, 1, n - 1)) = n - 1
      /\ SubSeq(s, n + 1, Len(s)) \in Seq(Ids)
      /\ Len(SubSeq(s, n + 1, Len(s))) = Len(s) - n
  OBVIOUS
<1>2. \A m \in 1 .. n - 1 : SubSeq(s, 1, n - 1)[m] = s[m]
  OBVIOUS
<1>3. \A m \in 1 .. Len(s) - n : SubSeq(s, n + 1, Len(s))[m] = s[m + n]
  OBVIOUS
<1> DEFINE a == SubSeq(s, 1, n - 1)
           b == SubSeq(s, n + 1, Len(s))
<1>4. Without(s, n) = a \o b /\ Len(s) \in Nat
  BY DEF Without
<1> HIDE DEF a, b
<1>5. a \in Seq(Ids) /\ b \in Seq(Ids) /\ Len(a) = n - 1 /\ Len(b) = Len(s) - n
  BY <1>1 DEF a, b
<1>6. Len(a \o b) = Len(s) - 1
  BY <1>4, <1>5
<1>7. ASSUME NEW m \in 1 .. Len(s) - 1
      PROVE  (a \o b)[m] = IF m < n THEN s[m] ELSE s[m + 1]
  <2>1. CASE m < n
    <3>1. (a \o b)[m] = a[m]
      BY <1>4, <1>5, <2>1
    <3>2. a[m] = s[m]
      BY <1>2, <1>4, <2>1 DEF a
    <3> QED
      BY <2>1, <3>1, <3>2
  <2>2. CASE ~(m < n)
    <3>1. (a \o b)[m] = b[m - (n - 1)]
      BY <1>4, <1>5, <2>2
    <3>2. m - (n - 1) \in 1 .. Len(s) - n /\ (m - (n - 1)) + n = m + 1
      BY <1>4, <2>2
    <3>3. b[m - (n - 1)] = s[m + 1]
      BY <1>3, <3>2 DEF b
    <3> QED
      BY <2>2, <3>1, <3>3
  <2> QED
    BY <2>1, <2>2
<1> QED
  BY <1>4, <1>6, <1>7

\* A cancelled order leaves the list, the map and its object together.
LEMMA CancelIndexed ==
  ASSUME TypeOK, Indexed, NEW i \in Ids, NEW n, CancelOrder(i, n)
  PROVE  Indexed'
<1> DEFINE l == LevelOf(order[i])
           left == TotalWithout(l, i)
<1>1. /\ l \in Levels /\ l \in tree /\ n \in 1 .. Len(resting[l]) /\ resting[l][n] = i
      /\ taker = 0 /\ taker' = 0 /\ used' = used
      /\ orderMap' = orderMap \ {i}
      /\ \A k \in Levels \ {l} : total'[k] = total[k]
      /\ total' = [total EXCEPT ![l] = left]
  BY DEF CancelOrder, TypeOK, FirstAt
<1>2. \A j \in Ids : j # i => order'[j] = order[j]
  BY DEF CancelOrder, TypeOK
<1>11. LevelOf(order[i]) = l
  OBVIOUS
<1>3. \/ left = 0 /\ tree' = tree \ {l} /\ resting' = [resting EXCEPT ![l] = <<>>]
      \/ left # 0 /\ tree' = tree /\ resting' = [resting EXCEPT ![l] = Without(@, n)]
  BY DEF CancelOrder
<1> HIDE DEF l, left
<1>4. Fresh'
  BY <1>1 DEF Indexed, Fresh
<1>5. total'[l] = left
  BY <1>1 DEF TypeOK
<1>6. ASSUME NEW k \in Levels, k # l
      PROVE  resting'[k] = resting[k] /\ total'[k] = total[k]
             /\ (k \notin tree' => k \notin tree)
  BY <1>1, <1>3, <1>6 DEF TypeOK
<1>7. ASSUME NEW k \in Levels, k # l, NEW m \in 1 .. Len(resting[k])
      PROVE  resting[k][m] # i /\ order'[resting[k][m]] = order[resting[k][m]]
  BY <1>2, <1>7, <1>11, ListedOrder
<1>8. ASSUME NEW m \in 1 .. Len(resting'[l])
      PROVE  /\ resting'[l][m] \in orderMap' /\ order'[resting'[l][m]].type = "limit"
             /\ LevelOf(order'[resting'[l][m]]) = l
             /\ \A j \in 1 .. Len(resting'[l]) : j # m => resting'[l][j] # resting'[l][m]
  <2> DEFINE s == resting[l]
             at(j) == IF j < n THEN j ELSE j + 1
  <2>1. s \in Seq(Ids) /\ Len(s) \in Nat /\ n \in 1 .. Len(s) /\ s[n] = i
    BY <1>1 DEF TypeOK
  <2>2. resting'[l] # <<>>
    <3>1. CASE resting'[l] = <<>>
      BY <1>8, <3>1
    <3> QED
      BY <3>1
  <2>3. resting'[l] = Without(s, n)
    BY <1>1, <1>3, <2>2 DEF TypeOK
  <2>4. \A j \in 1 .. Len(s) : /\ s[j] \in orderMap /\ order[s[j]].type = "limit"
                               /\ LevelOf(order[s[j]]) = l
                               /\ \A h \in 1 .. Len(s) : h # j => s[h] # s[j]
    BY <1>1 DEF Indexed, RestingIndexed
  <2>5. \A j \in 1 .. Len(s) : s[j] \in Ids
    BY <2>1
  <2> HIDE DEF s
  <2>6. Len(resting'[l]) = Len(s) - 1
        /\ \A j \in 1 .. Len(s) - 1 : resting'[l][j] = s[at(j)]
    BY <2>1, <2>3, WithoutElements
  <2>7. \A j \in 1 .. Len(s) - 1 : at(j) \in 1 .. Len(s) /\ at(j) # n
    BY <2>1
  <2>8. \A j, h \in 1 .. Len(s) - 1 : j # h => at(j) # at(h)
    BY <2>1
  <2> HIDE DEF at
  <2>9. m \in 1 .. Len(s) - 1
    BY <2>6
  <2>10. s[at(m)] # i
    BY <2>1, <2>4, <2>7, <2>9
  <2>11. order'[s[at(m)]] = order[s[at(m)]]
    BY <1>2, <2>5, <2>7, <2>9, <2>10
  <2>12. \A j \in 1 .. Len(s) - 1 : j # m => s[at(j)] # s[at(m)]
    BY <2>4, <2>7, <2>8, <2>9
  <2>13. /\ resting'[l][m] = s[at(m)]
         /\ \A j \in 1 .. Len(resting'[l]) : j # m => resting'[l][j] # resting'[l][m]
    BY <2>6, <2>9, <2>12
  <2>14. /\ s[at(m)] \in orderMap' /\ order'[s[at(m)]].type = "limit"
         /\ LevelOf(order'[s[at(m)]]) = l
    BY <1>1, <2>4, <2>7, <2>9, <2>10, <2>11
  <2> QED
    BY <2>13, <2>14
<1>9. l \notin tree' => resting'[l] = <<>> /\ total'[l] = 0
  BY <1>1, <1>3, <1>5 DEF TypeOK
<1>10. RestingIndexed'
  <2>1. ASSUME NEW k \in Levels, NEW m \in 1 .. Len(resting'[k])
        PROVE  /\ resting'[k][m] \in orderMap' /\ order'[resting'[k][m]].type = "limit"
               /\ LevelOf(order'[resting'[k][m]]) = k
               /\ \A j \in 1 .. Len(resting'[k]) : j # m => resting'[k][j] # resting'[k][m]
    <3>1. CASE k = l
      BY <1>8, <3>1
    <3>2. CASE k # l
      <4>1. resting'[k] = resting[k] /\ resting[k][m] # i
            /\ order'[resting[k][m]] = order[resting[k][m]]
        BY <1>6, <1>7, <2>1, <3>2
      <4>2. /\ resting[k][m] \in orderMap /\ order[resting[k][m]].type = "limit"
            /\ LevelOf(order[resting[k][m]]) = k
            /\ \A j \in 1 .. Len(resting[k]) : j # m => resting[k][j] # resting[k][m]
        BY <2>1, <4>1 DEF Indexed, RestingIndexed
      <4> QED
        BY <1>1, <4>1, <4>2
    <3> QED
      BY <3>1, <3>2
  <2>2. ASSUME NEW k \in Levels, k \notin tree'
        PROVE  resting'[k] = <<>> /\ total'[k] = 0
    BY <1>6, <1>9, <2>2 DEF Indexed, RestingIndexed
  <2> QED
    BY <2>1, <2>2 DEF RestingIndexed, LevelOf
<1> QED
  BY <1>4, <1>10 DEF Indexed

\* Every step keeps the lists and the maps in agreement.
LEMMA StepIndexed == TypeOK /\ Indexed /\ [Next]_vars => Indexed'
<1> SUFFICES ASSUME TypeOK, Indexed, [Next]_vars PROVE Indexed'
  OBVIOUS
<1>1. CASE UNCHANGED vars
  BY <1>1 DEF vars, Indexed, RestingIndexed, Fresh, LevelOf
<1>2. ASSUME NEW i \in orderMap,
             NEW n \in 1 .. Len(resting[LevelOf(order[i])]), CancelOrder(i, n)
      PROVE  Indexed'
  BY <1>2, CancelIndexed DEF TypeOK
<1> QED
  BY <1>1, <1>2, BeginIndexed, TradeIndexed, EndIndexed DEF Next, MatchStep

\* The empty book is in agreement.
LEMMA InitIndexed == Init => Indexed
  BY DEF Init, Indexed, RestingIndexed, Fresh

\* The four redundant structures of the book agree at every turn of a Match:
\* what a level lists is in the order map, belongs there, and is listed once.
THEOREM BookIndexed == Spec => []RestingIndexed
<1>1. Spec => [](TypeOK /\ Indexed)
  BY InitIndexed, StepIndexed, BookTypeCorrect, PTL DEF Spec
<1>2. TypeOK /\ Indexed => RestingIndexed
  BY DEF Indexed
<1> QED
  BY <1>1, <1>2, PTL

-----------------------------------------------------------------------------
(* A level that a Match has met is behind the taker: the opposite levels   *)
(* that are left are worse than its last trade, while it still wants more. *)

Worse(o, p, r) == IF o.side = "buy" THEN p < r ELSE p > r

Ahead ==
  taker # 0 /\ rem > 0 /\ Len(trades) > 0 =>
    \A l \in tree : l.side = Opposite(order[taker].side) =>
      Worse(order[taker], trades[Len(trades)].price, l.price)

\* Two different levels of one side differ in their price.
LEMMA PricesDiffer ==
  ASSUME NEW k \in Levels, NEW l \in Levels, k # l, k.side = l.side
  PROVE  k.price # l.price
  BY DEF Levels

\* A level's price is a number.
LEMMA LevelPrice ==
  ASSUME NEW l \in Levels
  PROVE  l.price \in Prices /\ l.price \in Nat /\ l.side \in Sides
  BY LevelFields, ConstantTypes

\* A turn of the loop trades at a price worse than before, within the limit.
LEMMA TradeWalk ==
  ASSUME TypeOK, PriceWalk, Ahead, NEW l \in tree, MatchTrade(l)
  PROVE  PriceWalk' /\ Ahead'
<1> DEFINE q == Matched(l)
           o == order[taker]
           t == [maker |-> Maker(l.price), price |-> l.price, qty |-> q]
<1>1. /\ l \in Levels /\ total[l] \in Int
      /\ q \in Nat \ {0} /\ q <= rem /\ q <= total[l] /\ rem \in Nat
      /\ taker # 0 /\ o \in Orders
  BY MatchedType DEF MatchTrade, TypeOK
<1>2. /\ trades' = Append(trades, t) /\ rem' = rem - q
      /\ order' = order /\ taker' = taker
  BY DEF MatchTrade, Left
<1>3. IsBest(l) /\ WithinLimit(l) /\ rem > 0 /\ l.side = Opposite(o.side)
  BY DEF MatchTrade, CanTrade, IsBest
<1>4. total[l] - q = 0 => tree' = tree \ {l}
  BY DEF MatchTrade
<1>5. total[l] - q # 0 => q = rem
  BY <1>1 DEF Matched
<1>6. t.price = l.price /\ l.price \in Nat
  BY <1>1, LevelPrice
<1>7. trades \in Seq([maker : {VIRTUAL, 0} \cup Ids, price : Prices, qty : Nat \ {0}])
      /\ Len(trades) \in Nat
  BY DEF TypeOK
<1> HIDE DEF q, t
<1>8. /\ Len(trades') = Len(trades) + 1 /\ trades'[Len(trades) + 1] = t
      /\ \A n \in 1 .. Len(trades) : trades'[n] = trades[n]
  BY <1>2, <1>7
<1>9. o.side \in Sides
  BY <1>1 DEF Orders
<1>10. Ahead'
  <2> SUFFICES ASSUME rem' > 0, NEW k \in tree', k.side = Opposite(o.side)
               PROVE  Worse(o, l.price, k.price)
    BY <1>2, <1>6, <1>8 DEF Ahead
  <2>1. total[l] - q = 0
    BY <1>1, <1>2, <1>5
  <2>2. k \in tree /\ k # l /\ k \in Levels
    BY <1>4, <2>1 DEF TypeOK
  <2>3. k.price # l.price /\ k.price \in Nat
    BY <1>1, <1>3, <2>2, PricesDiffer, LevelPrice
  <2>4. IF l.side = "sell" THEN l.price <= k.price ELSE l.price >= k.price
    BY <1>3, <2>2 DEF IsBest
  <2> QED
    BY <1>3, <1>6, <1>9, <2>3, <2>4 DEF Worse, Opposite, Sides
<1>11. PriceWalk'
  <2>1. ASSUME NEW n \in 1 .. Len(trades')
        PROVE  WithinLimit([side |-> Opposite(o.side), price |-> trades'[n].price])
    <3>1. CASE n = Len(trades) + 1
      <4>1. trades'[n].price = l.price
        BY <1>6, <1>8, <3>1
      <4> QED
        BY <1>3, <4>1 DEF WithinLimit
    <3>2. CASE n \in 1 .. Len(trades)
      <4>1. trades'[n] = trades[n]
        BY <1>8, <3>2
      <4> QED
        BY <1>1, <3>2, <4>1 DEF PriceWalk
    <3> QED
      BY <1>7, <1>8, <3>1, <3>2
  <2>2. ASSUME NEW n \in 2 .. Len(trades')
        PROVE  Worse(o, trades'[n - 1].price, trades'[n].price)
    <3>1. CASE n = Len(trades) + 1
      <4>1. trades'[n].price = l.price /\ trades'[n - 1] = trades[Len(trades)]
            /\ Len(trades) > 0
        BY <1>6, <1>7, <1>8, <3>1
      <4>2. Worse(o, trades[Len(trades)].price, l.price)
        BY <1>1, <1>3, <4>1 DEF Ahead
      <4> QED
        BY <4>1, <4>2
    <3>2. CASE n \in 2 .. Len(trades)
      <4>1. trades'[n] = trades[n] /\ trades'[n - 1] = trades[n - 1]
        BY <1>7, <1>8, <3>2
      <4> QED
        BY <1>1, <3>2, <4>1 DEF PriceWalk, Worse
    <3> QED
      BY <1>7, <1>8, <3>1, <3>2
  <2> QED
    BY <1>2, <2>1, <2>2 DEF PriceWalk, Worse, WithinLimit
<1> QED
  BY <1>10, <1>11

\* Price priority: a Match walks from the best price to worse ones, trades at
\* most once at each level, and stays within the taker's limit.
THEOREM BookWalksPrices == Spec => []PriceWalk
<1>1. Init => PriceWalk /\ Ahead
  BY DEF Init, PriceWalk, Ahead
<1>2. TypeOK /\ PriceWalk /\ Ahead /\ [Next]_vars => (PriceWalk /\ Ahead)'
  <2> SUFFICES ASSUME TypeOK, PriceWalk, Ahead, [Next]_vars
               PROVE  PriceWalk' /\ Ahead'
    OBVIOUS
  <2>1. CASE UNCHANGED vars
    BY <2>1 DEF vars, PriceWalk, Ahead, WithinLimit
  <2>2. ASSUME NEW s \in Sides, NEW t \in Types, NEW p \in Prices,
               NEW q \in Quantities, MatchBegin(s, t, p, q)
        PROVE  PriceWalk' /\ Ahead'
    <3>1. trades' = <<>>
      BY <2>2 DEF MatchBegin
    <3>2. Len(trades') = 0
      BY <3>1
    <3> QED
      BY <3>2 DEF PriceWalk, Ahead
  <2>3. ASSUME NEW i \in orderMap,
               NEW n \in 1 .. Len(resting[LevelOf(order[i])]), CancelOrder(i, n)
        PROVE  taker' = 0
    BY <2>3 DEF CancelOrder
  <2>4. taker' = 0 => PriceWalk' /\ Ahead'
    BY DEF PriceWalk, Ahead
  <2>5. MatchEnd => taker' = 0
    BY DEF MatchEnd
  <2> QED
    BY <2>1, <2>2, <2>3, <2>4, <2>5, TradeWalk DEF Next, MatchStep
<1> QED
  BY <1>1, <1>2, BookTypeCorrect, PTL DEF Spec

-----------------------------------------------------------------------------
(* Crossing levels that could both trade are blocked by a level that could *)
(* not: it is ahead of one of them and its total is used up.  A trade, a   *)
(* removal and a cancellation only lower totals; an order that comes to    *)
(* rest met the best level first and could not trade there.                *)

Spent(k, b, a) ==
  /\ total[k] <= 0
  /\ \/ k.side = "buy" /\ k.price > b.price
     \/ k.side = "sell" /\ k.price < a.price

Crossing(b, a) ==
  /\ b.side = "buy" /\ a.side = "sell" /\ b.price >= a.price
  /\ total[b] > 0 /\ total[a] > 0

CrossBlocked == \A b, a \in tree : Crossing(b, a) => \E k \in tree : Spent(k, b, a)

\* Prices in the tree have a greatest one, as the tree only grows by an order.
Limited == \E m \in Nat : \A l \in tree : l.price <= m

\* If the totals that change are lowered, and no spent level is removed,
\* crossing levels stay blocked.
LEMMA LoweringBlocks ==
  ASSUME TypeOK, CrossBlocked, TypeOK', tree' \subseteq tree,
         \A k \in tree' : total'[k] <= total[k],
         \A k \in tree : total[k] <= 0 => k \in tree'
  PROVE  CrossBlocked'
<1> SUFFICES ASSUME NEW b \in tree', NEW a \in tree', Crossing(b, a)'
             PROVE  \E k \in tree' : Spent(k, b, a)'
  BY DEF CrossBlocked
<1>1. \A k \in tree : total[k] \in Int /\ k \in Levels
  BY DEF TypeOK
<1>2. \A k \in tree' : total'[k] \in Int
  BY DEF TypeOK
<1>3. b \in tree /\ a \in tree
  OBVIOUS
<1>4. Crossing(b, a)
  BY <1>1, <1>2, <1>3 DEF Crossing
<1>5. PICK k \in tree : Spent(k, b, a)
  BY <1>3, <1>4 DEF CrossBlocked
<1>6. k \in tree' /\ total'[k] <= 0
  BY <1>1, <1>2, <1>5 DEF Spent
<1> QED
  BY <1>5, <1>6 DEF Spent

\* A trade lowers the total of its level and removes none that is spent.
LEMMA TradeBlocks ==
  ASSUME TypeOK, TypeOK', CrossBlocked, NEW l \in tree, MatchTrade(l)
  PROVE  CrossBlocked' /\ tree' \subseteq tree
<1> DEFINE q == Matched(l)
<1>1. /\ l \in Levels /\ total[l] \in Int
      /\ q \in Nat \ {0} /\ q <= total[l]
  BY MatchedType DEF MatchTrade
<1>2. \A k \in Levels \ {l} : total'[k] = total[k]
  BY <1>1 DEF MatchTrade, TypeOK
<1>3. \/ total[l] - q = 0 /\ tree' = tree \ {l}
      \/ total[l] - q # 0 /\ tree' = tree /\ total'[l] = AfterPartial(total[l] - q, q)
  BY <1>1 DEF MatchTrade, TypeOK
<1> HIDE DEF q
<1>4. tree' \subseteq tree
  BY <1>3
<1>5. ASSUME NEW k \in tree'
      PROVE  total'[k] <= total[k]
  <2>1. CASE k = l
    BY <1>1, <1>3, <2>1 DEF AfterPartial
  <2>2. CASE k # l
    BY <1>2, <1>4, <2>2 DEF TypeOK
  <2> QED
    BY <2>1, <2>2
<1>6. ASSUME NEW k \in tree, total[k] <= 0
      PROVE  k \in tree'
  BY <1>1, <1>3, <1>6
<1> QED
  BY <1>4, <1>5, <1>6, LoweringBlocks

\* A cancellation lowers a total; a level that it removes had some left.
LEMMA CancelBlocks ==
  ASSUME TypeOK, TypeOK', CrossBlocked, NEW i \in Ids, NEW n, CancelOrder(i, n)
  PROVE  CrossBlocked' /\ tree' \subseteq tree
<1> DEFINE l == LevelOf(order[i])
           left == total[l] - order[i].qty
<1>1. l \in Levels /\ l \in tree
  BY DEF CancelOrder, TypeOK
<1>2. order[i] \in Orders
  BY <1>1, OrderFields DEF TypeOK, Blank, LevelOf, Levels, Sides
<1>3. order[i].qty \in Nat \ {0} /\ total[l] \in Int
  BY <1>1, <1>2, OrderFields, ConstantTypes DEF TypeOK
<1>4. left \in Int /\ left < total[l] /\ (left = 0 => total[l] > 0)
  BY <1>3
<1>5. total' = [total EXCEPT ![l] = left] /\ (left = 0 => tree' = tree \ {l})
      /\ (left # 0 => tree' = tree)
  BY DEF CancelOrder, TotalWithout
<1> HIDE DEF l, left
<1>6. \A k \in Levels : total'[k] = IF k = l THEN left ELSE total[k]
  BY <1>5 DEF TypeOK
<1>7. tree' \subseteq tree
  BY <1>5
<1>8. ASSUME NEW k \in tree'
      PROVE  total'[k] <= total[k]
  <2>1. k \in Levels /\ total[k] \in Int
    BY <1>7 DEF TypeOK
  <2>2. k # l => total'[k] = total[k]
    BY <1>6, <2>1
  <2>3. k = l => total'[k] < total[k]
    BY <1>1, <1>4, <1>6
  <2>4. total'[k] \in Int
    BY <1>4, <1>6, <2>1
  <2> QED
    BY <2>1, <2>2, <2>3, <2>4
<1>9. ASSUME NEW k \in tree, total[k] <= 0
      PROVE  k \in tree'
  BY <1>3, <1>4, <1>5, <1>9
<1> QED
  BY <1>7, <1>8, <1>9, LoweringBlocks

\* The side a taker looks at has a best level if it has any.
LEMMA BestExists ==
  ASSUME TypeOK, Limited, taker # 0, order[taker] \in Orders,
         NEW k \in tree, k.side = Opposite(order[taker].side)
  PROVE  \E l \in tree : IsBest(l)
<1> DEFINE other == {l \in tree : l.side = k.side}
<1>1. PICK m \in Nat : \A l \in tree : l.price <= m
  BY DEF Limited
<1>2. \A l \in tree : l.price \in Nat
  BY LevelPrice DEF TypeOK
<1>3. k.side \in Sides
  BY LevelPrice DEF TypeOK
<1> DEFINE rank(l) == IF k.side = "sell" THEN l.price ELSE m - l.price
           T == {rank(l) : l \in other}
<1>4. \A l \in tree : rank(l) \in Nat
  BY <1>1, <1>2
<1>5. T \subseteq Nat /\ rank(k) \in T
  BY <1>4
<1>11. \A x \in T : \E l \in other : x = rank(l)
  OBVIOUS
<1>12. \A l \in other : rank(l) \in T
  OBVIOUS
<1> HIDE DEF T
<1>6. PICK x \in T : \A y \in T : ~ (<<y, x>> \in OpToRel(<, Nat))
  BY <1>5, WFMin, NatLessThanWellFounded
<1>7. \A y \in T : x <= y
  <2> SUFFICES ASSUME NEW y \in T, ~(x <= y) PROVE FALSE
    OBVIOUS
  <2>1. <<y, x>> \in OpToRel(<, Nat)
    <3>1. x \in Nat /\ y \in Nat
      BY <1>5
    <3>2. y < x
      BY <3>1
    <3> QED
      BY <3>1, <3>2 DEF OpToRel
  <2> QED
    BY <1>6, <2>1
<1>8. PICK l \in other : x = rank(l)
  BY <1>11
<1>9. \A j \in tree : j.side = k.side => rank(l) <= rank(j)
  BY <1>7, <1>8, <1>12
<1>10. \A j \in tree : j.side = l.side =>
         IF l.side = "sell" THEN l.price <= j.price ELSE l.price >= j.price
  BY <1>1, <1>2, <1>8, <1>9
<1> QED
  BY <1>8, <1>10 DEF IsBest

\* An order that comes to rest has a spent level before every level that
\* it crosses.
LEMMA RestBlocked ==
  ASSUME TypeOK, Limited, LoopOver, taker # 0, order[taker] \in Orders, Rests,
         NEW k \in tree, k.side = Opposite(order[taker].side), total[k] > 0,
         WithinLimit(k)
  PROVE  \E j \in tree : /\ total[j] <= 0 /\ j.side = k.side
                         /\ IF k.side = "sell" THEN j.price < k.price
                                               ELSE j.price > k.price
<1>1. PICK j \in tree : IsBest(j)
  BY BestExists
<1>2. j.side = k.side /\ j \in Levels /\ k \in Levels
  BY <1>1 DEF IsBest, TypeOK
<1>3. IF k.side = "sell" THEN j.price <= k.price ELSE j.price >= k.price
  BY <1>1, <1>2 DEF IsBest
<1>4. j.price \in Nat /\ k.price \in Nat /\ order[taker].price \in Nat
      /\ total[j] \in Int /\ rem \in Nat /\ rem > 0
  BY <1>2, LevelPrice, OrderFields, ConstantTypes DEF TypeOK, Rests
<1>5. WithinLimit(j)
  BY <1>2, <1>3, <1>4 DEF WithinLimit
<1>6. total[j] <= 0
  BY <1>1, <1>4, <1>5 DEF LoopOver, CanTrade, Matched
<1>7. j # k
  BY <1>4, <1>6
<1>8. j.price # k.price
  BY <1>2, <1>7, PricesDiffer
<1> QED
  BY <1>2, <1>3, <1>4, <1>6, <1>8

\* The end of a Match keeps crossing levels blocked.
LEMMA EndBlocks ==
  ASSUME TypeOK, TypeOK', Limited, CrossBlocked, MatchEnd
  PROVE  CrossBlocked' /\ Limited'
<1>1. taker # 0 /\ LoopOver /\ order[taker] \in Orders /\ rem \in Nat
  BY DEF MatchEnd, TypeOK
<1>2. CASE ~Rests
  <2>1. UNCHANGED <<tree, total>>
    BY <1>2 DEF MatchEnd
  <2> QED
    BY <2>1 DEF CrossBlocked, Crossing, Spent, Limited
<1>3. CASE Rests
  <2> DEFINE o == order[taker]
             l == LevelOf(o)
  <2>1. l \in Levels /\ l.side = o.side /\ l.price = o.price /\ o.type = "limit"
        /\ l.price \in Nat /\ l.side \in Sides
    BY <1>1, <1>3, OrderFields, LevelPrice DEF Rests, LevelOf
  <2>2. tree' = tree \cup {l} /\ total' = [total EXCEPT ![l] = @ + rem]
    BY <1>3 DEF MatchEnd, AddOrderToBook
  <2> HIDE DEF o, l
  <2>3. \A k \in Levels : k # l => total'[k] = total[k]
    BY <2>1, <2>2 DEF TypeOK
  <2>4. \A k \in tree : k \in Levels /\ k.price \in Nat /\ k.side \in Sides
                        /\ total[k] \in Int
    BY LevelPrice DEF TypeOK
  <2>5. \* A level with something left on the other side that the order reaches.
        ASSUME NEW k \in tree, k.side = Opposite(o.side), total[k] > 0,
               IF k.side = "sell" THEN l.price >= k.price ELSE l.price <= k.price
        PROVE  \E j \in tree' : /\ total'[j] <= 0 /\ j.side = k.side
                                /\ IF k.side = "sell" THEN j.price < k.price
                                                      ELSE j.price > k.price
    <3>1. WithinLimit(k)
      BY <2>1, <2>5 DEF WithinLimit, o
    <3>2. PICK j \in tree : /\ total[j] <= 0 /\ j.side = k.side
                            /\ IF k.side = "sell" THEN j.price < k.price
                                                  ELSE j.price > k.price
      BY <1>1, <1>3, <2>5, <3>1, RestBlocked DEF o
    <3>3. j # l
      BY <2>1, <2>5, <3>2 DEF Opposite, Sides
    <3> QED
      BY <2>2, <2>3, <2>4, <3>2, <3>3
  <2>6. CrossBlocked'
    <3> SUFFICES ASSUME NEW b \in tree', NEW a \in tree', Crossing(b, a)'
                 PROVE  \E k \in tree' : Spent(k, b, a)'
      BY DEF CrossBlocked
    <3>1. /\ b.side = "buy" /\ a.side = "sell" /\ b.price >= a.price
          /\ total'[b] > 0 /\ total'[a] > 0
      BY DEF Crossing
    <3>2. CASE b = l
      <4>1. a # l
        BY <3>1, <3>2
      <4>2. a \in tree /\ total[a] > 0
        BY <2>2, <2>3, <2>4, <3>1, <4>1
      <4>3. a.side = Opposite(o.side)
        BY <2>1, <3>1, <3>2 DEF Opposite
      <4>4. PICK j \in tree' : total'[j] <= 0 /\ j.side = a.side /\ j.price < a.price
        BY <2>5, <3>1, <3>2, <4>2, <4>3
      <4> QED
        BY <3>1, <4>4 DEF Spent
    <3>3. CASE a = l
      <4>1. b # l
        BY <3>1, <3>3
      <4>2. b \in tree /\ total[b] > 0
        BY <2>2, <2>3, <2>4, <3>1, <4>1
      <4>3. b.side = Opposite(o.side)
        BY <2>1, <3>1, <3>3 DEF Opposite
      <4>4. b.side # "sell" /\ l.price <= b.price
        BY <2>1, <2>4, <3>1, <3>3, <4>2
      <4>5. PICK j \in tree' : total'[j] <= 0 /\ j.side = b.side /\ j.price > b.price
        BY <2>5, <4>2, <4>3, <4>4
      <4> QED
        BY <3>1, <4>5 DEF Spent
    <3>4. CASE b # l /\ a # l
      <4>1. b \in tree /\ a \in tree /\ total[b] > 0 /\ total[a] > 0
        BY <2>2, <2>3, <2>4, <3>1, <3>4
      <4>2. PICK k \in tree : Spent(k, b, a)
        BY <3>1, <4>1 DEF CrossBlocked, Crossing
      <4>3. CASE k # l
        <5>1. k \in tree' /\ total'[k] = total[k]
          BY <2>2, <2>3, <2>4, <4>3
        <5> QED
          BY <4>2, <5>1 DEF Spent
      <4>4. CASE k = l /\ k.side = "buy"
        <5>1. a.side = Opposite(o.side) /\ l.price >= a.price
          BY <2>1, <2>4, <3>1, <4>1, <4>2, <4>4 DEF Spent, Opposite
        <5>2. PICK j \in tree' : total'[j] <= 0 /\ j.side = a.side /\ j.price < a.price
          BY <2>5, <3>1, <4>1, <5>1
        <5> QED
          BY <3>1, <5>2 DEF Spent
      <4>5. CASE k = l /\ k.side = "sell"
        <5>1. b.side = Opposite(o.side) /\ l.price <= b.price /\ b.side # "sell"
          BY <2>1, <2>4, <3>1, <4>1, <4>2, <4>5 DEF Spent, Opposite
        <5>2. PICK j \in tree' : total'[j] <= 0 /\ j.side = b.side /\ j.price > b.price
          BY <2>5, <4>1, <5>1
        <5> QED
          BY <3>1, <5>2 DEF Spent
      <4> QED
        BY <4>2, <4>3, <4>4, <4>5 DEF Spent
    <3> QED
      BY <3>2, <3>3, <3>4
  <2>7. Limited'
    <3>1. PICK m \in Nat : \A k \in tree : k.price <= m
      BY DEF Limited
    <3> DEFINE h == IF l.price <= m THEN m ELSE l.price
    <3>2. h \in Nat /\ \A k \in tree' : k.price <= h
      BY <2>1, <2>2, <2>4, <3>1
    <3> QED
      BY <3>2 DEF Limited
  <2> QED
    BY <2>6, <2>7
<1> QED
  BY <1>2, <1>3

\* The book is never crossed by levels that could both trade, unless a level
\* whose total is used up stands before them: no Match rests an order that
\* could have traded, whatever was filled twice or cancelled before.
THEOREM BookNeverCrosses == Spec => []CrossedOnlyAtSpent
<1>1. Init => CrossBlocked /\ Limited
  BY DEF Init, CrossBlocked, Limited
<1>2. TypeOK /\ TypeOK' /\ CrossBlocked /\ Limited /\ [Next]_vars
        => (CrossBlocked /\ Limited)'
  <2> SUFFICES ASSUME TypeOK, TypeOK', CrossBlocked, Limited, [Next]_vars
               PROVE  CrossBlocked' /\ Limited'
    OBVIOUS
  <2>1. ASSUME UNCHANGED <<tree, total>>
        PROVE  CrossBlocked' /\ Limited'
    BY <2>1 DEF CrossBlocked, Crossing, Spent, Limited
  <2>2. ASSUME tree' \subseteq tree
        PROVE  Limited'
    BY <2>2 DEF Limited
  <2>3. ASSUME NEW i \in orderMap,
               NEW n \in 1 .. Len(resting[LevelOf(order[i])]), CancelOrder(i, n)
        PROVE  CrossBlocked' /\ Limited'
    BY <2>2, <2>3, CancelBlocks DEF TypeOK
  <2>4. ASSUME NEW l \in tree, MatchTrade(l)
        PROVE  CrossBlocked' /\ Limited'
    BY <2>2, <2>4, TradeBlocks
  <2>5. ASSUME NEW s \in Sides, NEW t \in Types, NEW p \in Prices,
               NEW q \in Quantities, MatchBegin(s, t, p, q)
        PROVE  CrossBlocked' /\ Limited'
    BY <2>1, <2>5 DEF MatchBegin
  <2>6. CASE UNCHANGED vars
    BY <2>1, <2>6 DEF vars
  <2> QED
    BY <2>3, <2>4, <2>5, <2>6, EndBlocks DEF Next, MatchStep
<1>3. TypeOK /\ CrossBlocked => CrossedOnlyAtSpent
  <2> SUFFICES ASSUME TypeOK, CrossBlocked,
                      NEW b \in tree, b.side = "buy",
                      \A k \in tree : k.side = "buy" => k.price <= b.price,
                      NEW a \in tree, a.side = "sell",
                      \A k \in tree : k.side = "sell" => k.price >= a.price,
                      b.price >= a.price, ~(total[b] <= 0), ~(total[a] <= 0)
               PROVE  FALSE
    BY DEF CrossedOnlyAtSpent, GetBestBid, GetBestAsk, EntryOf
  <2>1. \A k \in tree : k.price \in Nat /\ total[k] \in Int
    BY LevelPrice DEF TypeOK
  <2>2. PICK k \in tree : Spent(k, b, a)
    BY <2>1 DEF CrossBlocked, Crossing
  <2> QED
    BY <2>1, <2>2 DEF Spent
<1> QED
  BY <1>1, <1>2, <1>3, BookTypeCorrect, PTL DEF Spec

-----------------------------------------------------------------------------
(* The sums: what a taker was given, and what a level's orders came with.  *)

Trade == [maker : {VIRTUAL, 0} \cup Ids, price : Prices, qty : Nat \ {0}]

\* One more trade adds its quantity.
LEMMA FilledAppend ==
  ASSUME NEW ts \in Seq(Trade), NEW t \in Trade
  PROVE  /\ TotalFilledQty(ts) \in Int
         /\ TotalFilledQty(Append(ts, t)) = TotalFilledQty(ts) + t.qty
<1> DEFINE N == Len(ts)
           us == Append(ts, t)
           e == [n \in 1 .. N |-> ts[n].qty]
           f == [n \in 1 .. N + 1 |-> us[n].qty]
<1>1. N \in Nat /\ us \in Seq(Trade) /\ Len(us) = N + 1
  OBVIOUS
<1>2. \A n \in 1 .. N : us[n] = ts[n] /\ ts[n] \in Trade
  OBVIOUS
<1>3. us[N + 1] = t
  OBVIOUS
<1>4. TotalFilledQty(ts) = SumFunctionOnSet(e, 1 .. N)
  BY DEF TotalFilledQty, SumFunction
<1>5. TotalFilledQty(us) = SumFunctionOnSet(f, 1 .. N + 1)
  BY <1>1 DEF TotalFilledQty, SumFunction
<1> HIDE DEF N, us
<1>6. IsFiniteSet(1 .. N) /\ IsFiniteSet(1 .. N + 1)
  BY <1>1, FS_Interval
<1>7. \A n \in 1 .. N : e[n] \in Int /\ e[n] = f[n]
  BY <1>1, <1>2 DEF Trade
<1>8. \A n \in 1 .. N + 1 : f[n] \in Int
  <2> SUFFICES ASSUME NEW n \in 1 .. N + 1 PROVE us[n] \in Trade
    BY DEF Trade
  <2>1. CASE n = N + 1
    BY <1>3, <2>1
  <2>2. CASE n # N + 1
    <3>1. n \in 1 .. N
      BY <1>1, <2>2
    <3> QED
      BY <1>2, <3>1
  <2> QED
    BY <2>1, <2>2
<1>9. f[N + 1] = t.qty /\ (1 .. N + 1) \ {N + 1} = 1 .. N /\ N + 1 \in 1 .. N + 1
  BY <1>1, <1>3
<1> DEFINE D == 1 .. N
           E == 1 .. N + 1
<1> HIDE DEF e, f, D, E
<1>10. SumFunctionOnSet(e, D) \in Int
  BY <1>6, <1>7, SumType DEF D
<1>11. SumFunctionOnSet(f, E) = f[N + 1] + SumFunctionOnSet(f, D)
  <2>1. IsFiniteSet(E) /\ N + 1 \in E /\ E \ {N + 1} = D /\ \A x \in E : f[x] \in Int
    BY <1>6, <1>8, <1>9 DEF D, E
  <2> QED
    BY <2>1, SumElement
<1>12. SumFunctionOnSet(f, D) = SumFunctionOnSet(e, D)
  BY <1>6, <1>7, SumAgree DEF D
<1>13. t.qty \in Int
  BY DEF Trade
<1> QED
  BY <1>4, <1>5, <1>9, <1>10, <1>11, <1>12, <1>13 DEF us, D, E

LEMMA FilledEmpty == TotalFilledQty(<<>>) = 0
<1>1. DOMAIN [n \in 1 .. Len(<<>>) |-> <<>>[n].qty] = {}
  OBVIOUS
<1> QED
  BY <1>1, SumEmpty DEF TotalFilledQty, SumFunction

\* The half of TakerServed about quantities.
Filled == taker # 0 => TotalFilledQty(trades) + rem = order[taker].qty

LEMMA StepFilled == TypeOK /\ Filled /\ [Next]_vars => Filled'
<1> SUFFICES ASSUME TypeOK, Filled, [Next]_vars PROVE Filled'
  OBVIOUS
<1>1. CASE UNCHANGED vars
  BY <1>1 DEF vars, Filled
<1>2. ASSUME NEW s \in Sides, NEW t \in Types, NEW p \in Prices,
             NEW q \in Quantities, MatchBegin(s, t, p, q)
      PROVE  Filled'
  <2>1. used + 1 \in Ids /\ q \in Int
    BY <1>2, BookAssumption, ConstantTypes DEF TypeOK, MatchBegin, Ids
  <2>2. order'[used + 1].qty = q /\ taker' = used + 1 /\ rem' = q /\ trades' = <<>>
    BY <1>2, <2>1 DEF MatchBegin, TypeOK
  <2> QED
    BY <2>1, <2>2, FilledEmpty DEF Filled
<1>3. ASSUME NEW l \in tree, MatchTrade(l)
      PROVE  Filled'
  <2> DEFINE t == [maker |-> Maker(l.price), price |-> l.price, qty |-> Matched(l)]
  <2>1. l \in Levels /\ l.price \in Prices
    BY LevelPrice DEF TypeOK
  <2>2. Maker(l.price) \in {VIRTUAL, 0} \cup Ids /\ Matched(l) \in Nat \ {0}
    BY <1>3, <2>1, MakerType, MatchedType DEF MatchTrade
  <2>3. t \in Trade
    BY <2>1, <2>2 DEF Trade
  <2>4. trades' = Append(trades, t) /\ rem' = rem - t.qty /\ UNCHANGED <<order, taker>>
    BY <1>3 DEF MatchTrade, Left
  <2>5. trades \in Seq(Trade) /\ rem \in Int /\ t.qty \in Int
    BY <2>2 DEF TypeOK, Trade
  <2> HIDE DEF t
  <2>6. TotalFilledQty(trades) \in Int /\ TotalFilledQty(trades') = TotalFilledQty(trades) + t.qty
    BY <2>3, <2>4, <2>5, FilledAppend
  <2> QED
    BY <1>3, <2>4, <2>5, <2>6 DEF Filled, MatchTrade
<1>4. CASE MatchEnd
  BY <1>4 DEF MatchEnd, Filled
<1>5. ASSUME NEW i \in orderMap,
             NEW n \in 1 .. Len(resting[LevelOf(order[i])]), CancelOrder(i, n)
      PROVE  Filled'
  BY <1>5 DEF CancelOrder, Filled
<1> QED
  BY <1>1, <1>2, <1>3, <1>4, <1>5 DEF Next, MatchStep

\* At every turn of a Match the taker's trades and its rest add up to what it
\* asked for, and the trades walk from the best price to worse ones: matchBuyOrder
\* and matchSellOrder neither lose nor invent quantity.
THEOREM BookServesTaker == Spec => []TakerServed
<1>1. Init => Filled
  BY DEF Init, Filled
<1>2. Spec => []Filled
  BY <1>1, StepFilled, BookTypeCorrect, PTL DEF Spec
<1>3. PriceWalk /\ Filled => TakerServed
  BY DEF TakerServed, Filled
<1> QED
  BY <1>2, <1>3, BookWalksPrices, PTL

-----------------------------------------------------------------------------
(* What a level shows and what its orders came with.                       *)

Quantity == [i \in Ids |-> order[i].qty]

LEMMA QuantityType == ASSUME TypeOK PROVE \A i \in Ids : Quantity[i] \in Int
<1> SUFFICES ASSUME NEW i \in Ids PROVE order[i].qty \in Int
  BY DEF Quantity
<1>1. CASE order[i] \in Orders
  BY <1>1, OrderFields, ConstantTypes
<1>2. CASE order[i] = Blank
  BY <1>2 DEF Blank
<1> QED
  BY <1>1, <1>2 DEF TypeOK

\* The ids of a list are finitely many.
LEMMA RangeFinite ==
  ASSUME NEW s \in Seq(Ids)
  PROVE  Range(s) \in SUBSET Ids /\ IsFiniteSet(Range(s))
<1>1. Range(s) \in SUBSET Ids
  BY DEF Range
<1>2. IsFiniteSet(Ids)
  BY FS_Interval, BookAssumption DEF Ids
<1> QED
  BY <1>1, <1>2, FS_Subset

\* One more order in a list, and one less.
LEMMA AppendSum ==
  ASSUME NEW s \in Seq(Ids), NEW i \in Ids, i \notin Range(s),
         NEW f, \A j \in Ids : f[j] \in Int
  PROVE  /\ SumFunctionOnSet(f, Range(s)) \in Int
         /\ SumFunctionOnSet(f, Range(Append(s, i))) = f[i] + SumFunctionOnSet(f, Range(s))
<1> DEFINE A == Range(Append(s, i))
           B == Range(s)
<1>1. A = B \cup {i}
  <2>1. DOMAIN Append(s, i) = 1 .. Len(s) + 1 /\ DOMAIN s = 1 .. Len(s) /\ Len(s) \in Nat
    OBVIOUS
  <2>2. \A n \in 1 .. Len(s) + 1 : Append(s, i)[n] = IF n = Len(s) + 1 THEN i ELSE s[n]
    OBVIOUS
  <2>3. A = {Append(s, i)[n] : n \in 1 .. Len(s) + 1} /\ B = {s[n] : n \in 1 .. Len(s)}
    BY <2>1 DEF Range
  <2> HIDE DEF A, B
  <2> QED
    BY <2>1, <2>2, <2>3
<1>2. B \in SUBSET Ids /\ IsFiniteSet(B) /\ i \notin B
  BY RangeFinite
<1> HIDE DEF A, B
<1>3. IsFiniteSet(A) /\ i \in A /\ A \ {i} = B /\ \A x \in A : f[x] \in Int
  BY <1>1, <1>2, FS_AddElement
<1>4. SumFunctionOnSet(f, A) = f[i] + SumFunctionOnSet(f, B)
  BY <1>3, SumElement
<1>5. SumFunctionOnSet(f, B) \in Int
  BY <1>2, SumType
<1> QED
  BY <1>4, <1>5 DEF A, B

LEMMA WithoutSum ==
  ASSUME NEW s \in Seq(Ids), NEW n \in 1 .. Len(s),
         \A m \in 1 .. Len(s) : m # n => s[m] # s[n],
         NEW f, \A j \in Ids : f[j] \in Int
  PROVE  /\ Range(Without(s, n)) = Range(s) \ {s[n]}
         /\ SumFunctionOnSet(f, Range(s)) =
              f[s[n]] + SumFunctionOnSet(f, Range(Without(s, n)))
         /\ SumFunctionOnSet(f, Range(Without(s, n))) \in Int
<1> DEFINE t == Without(s, n)
<1>1. t \in Seq(Ids) /\ Len(t) = Len(s) - 1 /\ Len(s) \in Nat
      /\ \A m \in 1 .. Len(s) - 1 : t[m] = IF m < n THEN s[m] ELSE s[m + 1]
  <2>1. t \in Seq(Ids) /\ Len(s) \in Nat
    BY WithoutType
  <2>2. /\ Len(Without(s, n)) = Len(s) - 1
        /\ \A m \in 1 .. Len(s) - 1 :
             Without(s, n)[m] = IF m < n THEN s[m] ELSE s[m + 1]
    BY WithoutElements
  <2> QED
    BY <2>1, <2>2
<1> HIDE DEF t
<1>2. Range(t) = {t[m] : m \in 1 .. Len(s) - 1} /\ Range(s) = {s[m] : m \in 1 .. Len(s)}
  BY <1>1 DEF Range
<1>3. Range(t) = Range(s) \ {s[n]}
  <2>1. ASSUME NEW x \in Range(t) PROVE x \in Range(s) \ {s[n]}
    <3>1. PICK m \in 1 .. Len(s) - 1 : x = t[m]
      BY <1>2
    <3>2. CASE m < n
      BY <1>1, <1>2, <3>1, <3>2
    <3>3. CASE ~(m < n)
      <4>1. x = s[m + 1] /\ m + 1 \in 1 .. Len(s) /\ m + 1 # n
        BY <1>1, <3>1, <3>3
      <4> QED
        BY <1>2, <4>1
    <3> QED
      BY <3>2, <3>3
  <2>2. ASSUME NEW x \in Range(s), x # s[n] PROVE x \in Range(t)
    <3>1. PICK m \in 1 .. Len(s) : x = s[m]
      BY <1>2
    <3>2. CASE m < n
      <4>1. m \in 1 .. Len(s) - 1 /\ t[m] = x
        BY <1>1, <3>1, <3>2
      <4> QED
        BY <1>2, <4>1
    <3>3. CASE m > n
      <4>1. m - 1 \in 1 .. Len(s) - 1 /\ ~(m - 1 < n) /\ (m - 1) + 1 = m
        BY <1>1, <3>3
      <4>2. t[m - 1] = x
        BY <1>1, <3>1, <4>1
      <4> QED
        BY <1>2, <4>1, <4>2
    <3> QED
      BY <2>2, <3>1, <3>2, <3>3
  <2> QED
    BY <2>1, <2>2
<1>4. Range(s) \in SUBSET Ids /\ IsFiniteSet(Range(s)) /\ s[n] \in Range(s)
  BY <1>2, RangeFinite
<1>5. SumFunctionOnSet(f, Range(s)) = f[s[n]] + SumFunctionOnSet(f, Range(s) \ {s[n]})
  BY <1>4, SumElement
<1>6. Range(t) \in SUBSET Ids /\ IsFiniteSet(Range(t))
  BY <1>1, RangeFinite
<1>7. SumFunctionOnSet(f, Range(t)) \in Int
  BY <1>6, SumType
<1> QED
  BY <1>3, <1>5, <1>7 DEF t

\* A level shows no more than its orders came with; without an order, less than
\* nothing.  The trees are finite, a taker's rest is at most what it came with.
Honest ==
  /\ IsFiniteSet(tree)
  /\ taker # 0 => rem <= order[taker].qty
  /\ \A l \in tree : total[l] <= Listed(l) /\ (resting[l] = <<>> => total[l] < 0)

LEMMA ListedType ==
  ASSUME TypeOK, NEW l \in Levels
  PROVE  Listed(l) \in Int
<1>1. Range(resting[l]) \in SUBSET Ids /\ IsFiniteSet(Range(resting[l]))
  BY RangeFinite DEF TypeOK
<1>2. \A i \in Range(resting[l]) : Quantity[i] \in Int
  BY <1>1, QuantityType
<1>3. Listed(l) = SumFunctionOnSet(Quantity, Range(resting[l]))
  BY DEF Listed, Quantity
<1> QED
  BY <1>1, <1>2, <1>3, SumType

\* A list that stays, of orders that stay, comes with what it came with.
LEMMA ListedStays ==
  ASSUME TypeOK, NEW l \in Levels, resting'[l] = resting[l],
         \A n \in 1 .. Len(resting[l]) : order'[resting[l][n]] = order[resting[l][n]]
  PROVE  Listed(l)' = Listed(l)
<1> DEFINE e == [i \in Ids |-> order'[i].qty]
           R == Range(resting[l])
<1>1. R \in SUBSET Ids /\ IsFiniteSet(R)
  BY RangeFinite DEF TypeOK
<1>2. resting[l] \in Seq(Ids)
  BY DEF TypeOK
<1>3. ASSUME NEW i \in R
      PROVE  order'[i] = order[i]
  <2>1. PICK n \in 1 .. Len(resting[l]) : i = resting[l][n]
    BY <1>2 DEF Range
  <2> QED
    BY <2>1
<1>4. \A i \in R : Quantity[i] = e[i]
  BY <1>1, <1>3 DEF Quantity
<1>5. Listed(l) = SumFunctionOnSet(Quantity, R) /\ Listed(l)' = SumFunctionOnSet(e, R)
  BY DEF Listed, Quantity
<1> HIDE DEF e, R
<1> QED
  BY <1>1, <1>4, <1>5, SumAgree

\* A new order is in no list.
LEMMA BeginHonest ==
  ASSUME TypeOK, Indexed, Honest, NEW s \in Sides, NEW t \in Types, NEW p \in Prices,
         NEW q \in Quantities, MatchBegin(s, t, p, q)
  PROVE  Honest'
<1>1. used \in Nat /\ used + 1 \in Ids /\ q \in Int
  BY BookAssumption, ConstantTypes DEF MatchBegin, TypeOK, Ids
<1>2. UNCHANGED <<tree, total, resting>> /\ taker' = used + 1 /\ rem' = q
      /\ order'[used + 1].qty = q /\ \A i \in Ids : i # used + 1 => order'[i] = order[i]
  BY <1>1 DEF MatchBegin, TypeOK
<1>3. ASSUME NEW l \in tree
      PROVE  Listed(l)' = Listed(l)
  <2>1. l \in Levels
    BY DEF TypeOK
  <2>2. \A n \in 1 .. Len(resting[l]) : order'[resting[l][n]] = order[resting[l][n]]
    BY <1>1, <1>2, <2>1, ListedOrder
  <2> QED
    BY <1>2, <2>1, <2>2, ListedStays
<1> QED
  BY <1>1, <1>2, <1>3 DEF Honest

\* A level trades what it shows and what its orders came with stays.
LEMMA TradeHonest ==
  ASSUME TypeOK, Indexed, Honest, NEW l \in tree, MatchTrade(l)
  PROVE  Honest'
<1> DEFINE q == Matched(l)
<1>1. l \in Levels /\ total[l] \in Int /\ q \in Nat \ {0} /\ q <= rem /\ q <= total[l]
  BY MatchedType DEF MatchTrade
<1>2. rem' = rem - q /\ UNCHANGED <<order, taker>>
  BY DEF MatchTrade, Left
<1>3. \/ tree' = tree \ {l} /\ total' = [total EXCEPT ![l] = 0]
         /\ resting' = [resting EXCEPT ![l] = <<>>]
      \/ /\ total' = [total EXCEPT ![l] = AfterPartial(total[l] - q, q)]
         /\ tree' = tree /\ resting' = resting
  BY DEF MatchTrade
<1> HIDE DEF q
<1>4. IsFiniteSet(tree')
  BY <1>3, FS_RemoveElement DEF Honest
<1>5. taker' # 0 => rem' <= order'[taker'].qty
  <2>1. taker # 0 => order[taker].qty \in Int /\ rem \in Int
    BY OrderFields, ConstantTypes DEF TypeOK
  <2> QED
    BY <1>1, <1>2, <2>1 DEF Honest
<1>6. ASSUME NEW k \in tree'
      PROVE  total'[k] <= Listed(k)' /\ (resting'[k] = <<>> => total'[k] < 0)
  <2>1. k \in tree /\ k \in Levels
    BY <1>3 DEF TypeOK
  <2>2. resting'[k] = resting[k]
    BY <1>3, <2>1 DEF TypeOK
  <2>3. Listed(k)' = Listed(k) /\ Listed(k) \in Int
    BY <1>2, <2>1, <2>2, ListedStays, ListedType
  <2>4. CASE k # l
    <3>1. total'[k] = total[k]
      BY <1>3, <2>1, <2>4 DEF TypeOK
    <3> QED
      BY <2>1, <2>2, <2>3, <3>1 DEF Honest
  <2>5. CASE k = l
    <3>1. total'[k] = AfterPartial(total[l] - q, q)
      BY <1>1, <1>3, <2>5 DEF TypeOK
    <3>2. total'[k] <= total[l] /\ total'[k] \in Int
      BY <1>1, <3>1 DEF AfterPartial
    <3>3. total[l] <= Listed(l) /\ resting[l] # <<>>
      BY <1>1 DEF Honest
    <3> QED
      BY <1>1, <2>2, <2>3, <2>5, <3>2, <3>3
  <2> QED
    BY <2>4, <2>5
<1> QED
  BY <1>4, <1>5, <1>6 DEF Honest

\* The rest of a taker that comes to rest is no more than it came with.
LEMMA EndHonest ==
  ASSUME TypeOK, Indexed, Honest, MatchEnd
  PROVE  Honest'
<1>1. taker \in Ids /\ order[taker] \in Orders /\ order[taker].qty \in Int
      /\ rem \in Int /\ rem <= order[taker].qty /\ taker' = 0 /\ order' = order
  <2>1. taker # 0 /\ taker \in Ids
    BY BookAssumption DEF MatchEnd, TypeOK, Ids
  <2>2. order[taker] \in Orders /\ order[taker].qty \in Int
    BY <2>1, OrderFields, ConstantTypes DEF TypeOK
  <2> QED
    BY <2>1, <2>2 DEF MatchEnd, TypeOK, Honest
<1>2. PICK l \in Levels : l = LevelOf(order[taker])
  BY <1>1, OrderFields
<1>3. CASE ~Rests
  <2>1. UNCHANGED <<tree, total, resting>>
    BY <1>3 DEF MatchEnd
  <2>2. \A k \in tree : Listed(k)' = Listed(k)
    BY <1>1, <2>1, ListedStays DEF TypeOK
  <2> QED
    BY <1>1, <2>1, <2>2 DEF Honest
<1>4. CASE Rests
  <2>1. /\ tree' = tree \cup {l} /\ total' = [total EXCEPT ![l] = total[l] + rem]
        /\ resting' = [resting EXCEPT ![l] = Append(resting[l], taker)]
    BY <1>2, <1>4 DEF MatchEnd, AddOrderToBook
  <2>2. resting[l] \in Seq(Ids) /\ total[l] \in Int
    BY <1>2 DEF TypeOK
  <2>3. taker \notin Range(resting[l])
    <3>1. \A n \in 1 .. Len(resting[l]) : resting[l][n] # taker
      BY <1>2, ListedOrder DEF Indexed, Fresh
    <3> QED
      BY <2>2, <3>1 DEF Range
  <2>4. total[l] <= Listed(l)
    <3>1. CASE l \in tree
      BY <3>1 DEF Honest
    <3>2. CASE l \notin tree
      <4>1. total[l] = 0 /\ resting[l] = <<>>
        BY <1>2, <3>2 DEF Indexed, RestingIndexed
      <4>2. Range(<<>>) = {}
        BY DEF Range
      <4>3. Listed(l) = 0
        BY <4>1, <4>2, SumEmpty DEF Listed
      <4> QED
        BY <4>1, <4>3
    <3> QED
      BY <3>1, <3>2
  <2>5. Listed(l)' = order[taker].qty + Listed(l) /\ Listed(l) \in Int
    <3>1. resting'[l] = Append(resting[l], taker)
      BY <1>2, <2>1 DEF TypeOK
    <3>2. Listed(l)' = SumFunctionOnSet(Quantity, Range(Append(resting[l], taker)))
      BY <1>1, <3>1 DEF Listed, Quantity
    <3>3. Listed(l) = SumFunctionOnSet(Quantity, Range(resting[l]))
      BY DEF Listed, Quantity
    <3>4. Quantity[taker] = order[taker].qty
      BY <1>1 DEF Quantity
    <3> QED
      BY <1>1, <2>2, <2>3, <3>2, <3>3, <3>4, QuantityType, AppendSum
  <2>6. ASSUME NEW k \in tree'
        PROVE  total'[k] <= Listed(k)' /\ (resting'[k] = <<>> => total'[k] < 0)
    <3>1. CASE k = l
      <4>1. total'[k] = total[l] + rem /\ resting'[k] = Append(resting[l], taker)
        BY <1>2, <2>1, <3>1 DEF TypeOK
      <4>2. resting'[k] # <<>>
        BY <2>2, <4>1
      <4> QED
        BY <1>1, <2>2, <2>4, <2>5, <3>1, <4>1, <4>2
    <3>2. CASE k # l
      <4>1. k \in tree /\ k \in Levels /\ total'[k] = total[k] /\ resting'[k] = resting[k]
        BY <2>1, <3>2 DEF TypeOK
      <4>2. Listed(k)' = Listed(k)
        BY <1>1, <4>1, ListedStays
      <4> QED
        BY <4>1, <4>2 DEF Honest
    <3> QED
      BY <3>1, <3>2
  <2>7. IsFiniteSet(tree')
    BY <2>1, FS_AddElement DEF Honest
  <2> QED
    BY <1>1, <2>6, <2>7 DEF Honest
<1> QED
  BY <1>3, <1>4

\* A cancellation takes what the order came with off both.
LEMMA CancelHonest ==
  ASSUME TypeOK, Indexed, Honest, NEW i \in Ids, NEW n, CancelOrder(i, n)
  PROVE  Honest'
<1>10. PICK l \in Levels : l = LevelOf(order[i])
  BY DEF CancelOrder, TypeOK
<1> DEFINE left == total[l] - order[i].qty
<1>1. l \in Levels /\ l \in tree /\ n \in 1 .. Len(resting[l]) /\ resting[l][n] = i
      /\ taker' = 0
  BY <1>10 DEF CancelOrder, TypeOK, FirstAt
<1>2. /\ total' = [total EXCEPT ![l] = left]
      /\ \/ left = 0 /\ tree' = tree \ {l}
         \/ /\ left # 0 /\ tree' = tree
            /\ resting' = [resting EXCEPT ![l] = Without(resting[l], n)]
  BY <1>1, <1>10 DEF CancelOrder, TotalWithout, TypeOK
<1>3. \A k \in Levels : k # l => resting'[k] = resting[k]
  BY <1>10 DEF CancelOrder, TypeOK
<1>4. \A j \in Ids : j # i => order'[j] = order[j]
  BY DEF CancelOrder, TypeOK
<1>5. total[l] \in Int /\ order[i].qty \in Int /\ resting[l] \in Seq(Ids)
  BY <1>1, QuantityType DEF TypeOK, Quantity
<1>11. Quantity[i] = order[i].qty
  BY DEF Quantity
<1>12. left = total[l] - order[i].qty
  OBVIOUS
<1> HIDE DEF left
<1>6. IsFiniteSet(tree')
  BY <1>2, FS_RemoveElement DEF Honest
<1>7. ASSUME NEW k \in tree', k # l
      PROVE  total'[k] <= Listed(k)' /\ (resting'[k] = <<>> => total'[k] < 0)
  <2>1. k \in tree /\ k \in Levels /\ total'[k] = total[k] /\ resting'[k] = resting[k]
    BY <1>2, <1>3, <1>7 DEF TypeOK
  <2>2. ASSUME NEW m \in 1 .. Len(resting[k])
        PROVE  order'[resting[k][m]] = order[resting[k][m]]
    BY <1>4, <1>7, <1>10, <2>1, ListedOrder
  <2>3. Listed(k)' = Listed(k)
    BY <2>1, <2>2, ListedStays
  <2> QED
    BY <2>1, <2>3 DEF Honest
<1>8. ASSUME l \in tree'
      PROVE  total'[l] <= Listed(l)' /\ (resting'[l] = <<>> => total'[l] < 0)
  <2>1. left # 0 /\ total'[l] = left /\ resting'[l] = Without(resting[l], n)
    BY <1>1, <1>2, <1>8 DEF TypeOK
  <2>2. \A m \in 1 .. Len(resting[l]) : m # n => resting[l][m] # resting[l][n]
    BY <1>1 DEF Indexed, RestingIndexed
  <2> DEFINE W == Range(Without(resting[l], n))
  <2>3. /\ W = Range(resting[l]) \ {i}
        /\ SumFunctionOnSet(Quantity, Range(resting[l])) =
             order[i].qty + SumFunctionOnSet(Quantity, W)
        /\ SumFunctionOnSet(Quantity, W) \in Int
    BY <1>1, <1>5, <1>11, <2>2, QuantityType, WithoutSum
  <2>4. Listed(l) = SumFunctionOnSet(Quantity, Range(resting[l]))
    BY DEF Listed, Quantity
  <2>5. Listed(l)' = SumFunctionOnSet([j \in Ids |-> order'[j].qty], W)
    BY <2>1 DEF Listed
  <2> DEFINE e == [j \in Ids |-> order'[j].qty]
  <2>6. W \in SUBSET Ids /\ IsFiniteSet(W)
    BY <1>1, <1>5, WithoutType, RangeFinite
  <2>7. \A j \in W : Quantity[j] = e[j]
    BY <1>4, <2>3, <2>6 DEF Quantity
  <2> HIDE DEF W, e
  <2>8. SumFunctionOnSet(Quantity, W) = SumFunctionOnSet(e, W)
    BY <2>6, <2>7, SumAgree
  <2>9. Listed(l)' = SumFunctionOnSet(Quantity, W)
    BY <2>5, <2>8 DEF e
  <2>10. total'[l] <= Listed(l)' /\ Listed(l)' \in Int
    BY <1>1, <1>5, <1>12, <2>1, <2>3, <2>4, <2>9 DEF Honest
  <2>11. ASSUME resting'[l] = <<>> PROVE total'[l] < 0
    <3>1. Range(<<>>) = {}
      BY DEF Range
    <3>2. W = {}
      BY <2>1, <2>11, <3>1 DEF W
    <3>3. Listed(l)' = 0
      BY <2>9, <3>2, SumEmpty
    <3> QED
      BY <1>5, <1>12, <2>1, <2>10, <3>3
  <2> QED
    BY <2>10, <2>11
<1> QED
  BY <1>1, <1>6, <1>7, <1>8 DEF Honest

LEMMA StepHonest == TypeOK /\ Indexed /\ Honest /\ [Next]_vars => Honest'
<1> SUFFICES ASSUME TypeOK, Indexed, Honest, [Next]_vars PROVE Honest'
  OBVIOUS
<1>1. CASE UNCHANGED vars
  BY <1>1 DEF vars, Honest, Listed
<1>2. ASSUME NEW i \in orderMap,
             NEW n \in 1 .. Len(resting[LevelOf(order[i])]), CancelOrder(i, n)
      PROVE  Honest'
  BY <1>2, CancelHonest DEF TypeOK
<1> QED
  BY <1>1, <1>2, BeginHonest, TradeHonest, EndHonest DEF Next, MatchStep

LEMMA InitHonest == Init => Honest
  BY FS_EmptySet DEF Init, Honest

-----------------------------------------------------------------------------
(* What the readers show.                                                  *)

Better(s, p, r) == IF s = "buy" THEN p > r ELSE p < r

SideOf(s) == {l \in tree : l.side = s}

\* Every rank up to the number of levels of a side is that of a level.
LEMMA NthLevel ==
  ASSUME TypeOK, IsFiniteSet(tree), NEW s \in Sides, NEW k \in 1 .. Cardinality(SideOf(s))
  PROVE  /\ Nth(s, k) \in SideOf(s)
         /\ k - 1 = Cardinality({m \in tree : m.side = s /\ Better(s, m.price, Nth(s, k).price)})
<1> DEFINE S == SideOf(s)
           R == {e \in S \X S : Better(s, e[1].price, e[2].price)}
<1>1. IsFiniteSet(S)
  BY FS_Subset DEF SideOf
<1>2. \A l \in S : l \in tree /\ l.side = s /\ l \in Levels /\ l.price \in Nat
  BY LevelPrice DEF TypeOK, SideOf
<1>3. \A x, y \in S : x = y \/ x.price # y.price
  BY <1>2, PricesDiffer
<1>4. \A x, y \in S : <<x, y>> \in R <=> Better(s, x.price, y.price)
  OBVIOUS
<1>5. S = {l \in tree : l.side = s}
  BY DEF SideOf
<1> HIDE DEF S, R
<1>6. StrictOrder(R, S)
  BY <1>2, <1>3, <1>4 DEF StrictOrder, Better
<1>7. PICK x \in S : k - 1 = Cardinality(Below(x, R, S))
  BY <1>1, <1>6, RankExists DEF S
<1>8. Below(x, R, S) = {m \in tree : m.side = s /\ Better(s, m.price, x.price)}
  BY <1>4, <1>5 DEF Below
<1> DEFINE Has(l) == /\ l.side = s
                     /\ k - 1 = Cardinality({m \in tree : m.side = s /\
                          IF s = "buy" THEN m.price > l.price ELSE m.price < l.price})
<1>9. x \in tree /\ Has(x)
  BY <1>2, <1>7, <1>8 DEF Better
<1>10. Nth(s, k) = CHOOSE l \in tree : Has(l)
  BY DEF Nth
<1> HIDE DEF Has
<1>11. Nth(s, k) \in tree /\ Has(Nth(s, k))
  BY <1>9, <1>10
<1> QED
  BY <1>11, <1>5 DEF Has, Better, S

\* An answer shows the levels of a side in the order of their ranks.
LEMMA ShownLevels ==
  ASSUME TypeOK, IsFiniteSet(tree), NEW s \in Sides
  PROVE  LET shown == OrderBookResp(s, Cardinality(tree))
         IN  /\ Len(shown) = Cardinality(SideOf(s)) /\ Len(shown) \in Nat
             /\ \A k \in 1 .. Len(shown) :
                  shown[k] = EntryOf(Nth(s, k))
<1> DEFINE n == Cardinality(SideOf(s))
           d == Cardinality(tree)
           top == getTopLevels(s, d)
<1>1. n \in Nat /\ d \in Nat /\ n <= d
  BY FS_CardinalityType, FS_Subset DEF SideOf
<1>2. top = [k \in 1 .. (IF d < n THEN d ELSE n) |-> EntryOf(Nth(s, k))]
  BY DEF getTopLevels, SideOf
<1> HIDE DEF n, d, top
<1>3. (IF d < n THEN d ELSE n) = n
  BY <1>1
<1>4. top = [k \in 1 .. n |-> EntryOf(Nth(s, k))]
  BY <1>2, <1>3
<1> DEFINE mid == OrderBookSnapshot(s, d)
           shown == OrderBookResp(s, d)
<1>5. mid = [k \in 1 .. n |-> [price |-> top[k].price, quantity |-> top[k].quantity,
                               orderCount |-> top[k].count]]
  BY <1>4 DEF OrderBookSnapshot, top
<1> HIDE DEF mid
<1>6. shown = [k \in 1 .. n |-> [price |-> mid[k].price, quantity |-> mid[k].quantity,
                                 count |-> mid[k].orderCount]]
  BY <1>5 DEF OrderBookResp, mid
<1> HIDE DEF shown
<1>7. ASSUME NEW k \in 1 .. n
      PROVE  shown[k] = EntryOf(Nth(s, k))
  <2> DEFINE l == Nth(s, k)
  <2>1. top[k] = [price |-> l.price, quantity |-> total[l], count |-> Len(resting[l])]
    BY <1>4 DEF EntryOf
  <2> HIDE DEF l
  <2>2. shown[k] = [price |-> l.price, quantity |-> total[l], count |-> Len(resting[l])]
    BY <1>5, <1>6, <2>1
  <2> QED
    BY <2>2 DEF EntryOf, l
<1>8. Len(shown) = n
  BY <1>1, <1>6
<1> QED
  BY <1>1, <1>7, <1>8 DEF n, shown, d

LEMMA HonestShown == TypeOK /\ Indexed /\ Honest => SnapshotHonest
<1> SUFFICES ASSUME TypeOK, Indexed, Honest, taker = 0, NEW s \in Sides
             PROVE  LET shown == OrderBookResp(s, Cardinality(tree))
                    IN  /\ \A k \in 1 .. Len(shown) :
                             /\ shown[k].quantity <= Listed([side |-> s, price |-> shown[k].price])
                             /\ shown[k].count = 0 => shown[k].quantity < 0
                        /\ {shown[k] : k \in {1} \cap (1 .. Len(shown))} =
                             IF s = "buy" THEN GetBestBid ELSE GetBestAsk
  BY DEF SnapshotHonest
<1> DEFINE shown == OrderBookResp(s, Cardinality(tree))
           n == Cardinality(SideOf(s))
           best == {l \in SideOf(s) : \A k \in SideOf(s) : ~Better(s, k.price, l.price)}
<1>1. IsFiniteSet(tree) /\ IsFiniteSet(SideOf(s)) /\ n \in Nat
  BY FS_CardinalityType, FS_Subset DEF SideOf, Honest
<1>2. Len(shown) = n /\ \A k \in 1 .. n : shown[k] = EntryOf(Nth(s, k))
  BY <1>1, ShownLevels
<1>3. \A l \in SideOf(s) : l \in tree /\ l \in Levels /\ l.side = s /\ l.price \in Nat
        /\ l = [side |-> s, price |-> l.price]
  BY LevelPrice DEF TypeOK, SideOf, Levels
<1>4. \A k \in 1 .. n :
        /\ Nth(s, k) \in SideOf(s)
        /\ k - 1 = Cardinality({m \in tree : m.side = s /\ Better(s, m.price, Nth(s, k).price)})
  BY <1>1, NthLevel
<1> HIDE DEF shown
<1>5. ASSUME NEW k \in 1 .. n
      PROVE  /\ shown[k].quantity <= Listed([side |-> s, price |-> shown[k].price])
             /\ shown[k].count = 0 => shown[k].quantity < 0
  <2> DEFINE l == Nth(s, k)
  <2>1. l \in SideOf(s) /\ shown[k] = EntryOf(l)
    BY <1>2, <1>4
  <2> HIDE DEF l
  <2>2. shown[k].price = l.price /\ shown[k].quantity = total[l]
        /\ shown[k].count = Len(resting[l])
    BY <2>1 DEF EntryOf
  <2>3. l \in tree /\ l = [side |-> s, price |-> shown[k].price] /\ resting[l] \in Seq(Ids)
    BY <1>3, <2>1, <2>2 DEF TypeOK
  <2>4. total[l] <= Listed(l) /\ (resting[l] = <<>> => total[l] < 0)
    BY <2>3 DEF Honest
  <2>5. Len(resting[l]) = 0 => resting[l] = <<>>
    BY <2>3
  <2> QED
    BY <2>2, <2>3, <2>4, <2>5
<1>6. {EntryOf(l) : l \in best} = IF s = "buy" THEN GetBestBid ELSE GetBestAsk
  <2>1. CASE s = "buy"
    <3>1. best = {b \in tree : b.side = "buy" /\
                    \A k \in tree : k.side = "buy" => k.price <= b.price}
      BY <1>3, <2>1 DEF Better, SideOf
    <3> QED
      BY <2>1, <3>1 DEF GetBestBid
  <2>2. CASE s = "sell"
    <3>1. best = {a \in tree : a.side = "sell" /\
                    \A k \in tree : k.side = "sell" => k.price >= a.price}
      BY <1>3, <2>2 DEF Better, SideOf
    <3> QED
      BY <2>2, <3>1 DEF GetBestAsk
  <2> QED
    BY <2>1, <2>2 DEF Sides
<1>7. {shown[k] : k \in {1} \cap (1 .. n)} = {EntryOf(l) : l \in best}
  <2>1. CASE n = 0
    <3>1. SideOf(s) = {}
      BY <1>1, <2>1, FS_EmptySet
    <3> QED
      BY <2>1, <3>1
  <2>2. CASE n # 0
    <3> DEFINE x == Nth(s, 1)
               m == {j \in tree : j.side = s /\ Better(s, j.price, x.price)}
    <3>1. 1 \in 1 .. n /\ {1} \cap (1 .. n) = {1}
      BY <1>1, <2>2
    <3>2. x \in SideOf(s) /\ Cardinality(m) = 0 /\ shown[1] = EntryOf(x)
      BY <1>2, <1>4, <3>1
    <3>3. IsFiniteSet(m)
      BY <1>1, FS_Subset
    <3>4. m = {}
      BY <3>2, <3>3, FS_EmptySet
    <3>5. \A k \in SideOf(s) : ~Better(s, k.price, x.price)
      BY <3>4 DEF SideOf
    <3> HIDE DEF x, m
    <3>6. ASSUME NEW l \in best
          PROVE  l = x
      <4>1. l.price = x.price
        BY <1>3, <3>2, <3>5 DEF Better
      <4> QED
        BY <1>3, <3>2, <4>1
    <3>7. best = {x}
      BY <3>2, <3>5, <3>6
    <3> QED
      BY <3>1, <3>2, <3>7
  <2> QED
    BY <2>1, <2>2
<1> QED
  BY <1>2, <1>5, <1>6, <1>7 DEF shown

\* What a client is shown of a book between two Matches: no level more than its
\* orders came with, none that is empty but shows something, and the best bid
\* and the best ask first; GetSnapshot, GetBestBid and GetBestAsk agree.
THEOREM BookSnapshotHonest == Spec => []SnapshotHonest
<1>1. Spec => [](TypeOK /\ Indexed)
  BY InitIndexed, StepIndexed, BookTypeCorrect, PTL DEF Spec
<1>2. Spec => []Honest
  BY <1>1, InitHonest, StepHonest, PTL DEF Spec
<1> QED
  BY <1>1, <1>2, HonestShown, PTL
=============================================================================
