------------------------------ MODULE OrderBook ------------------------------
(***************************************************************************)
(* One symbol's order book, HybridOrderBook of                             *)
(* app/matching/internal/orderbook/hybird.go.  Match holds the book's      *)
(* mutex for the whole call; here it is one step per turn of its matching  *)
(* loop, with the mutex held from MatchBegin to MatchEnd, so that no step  *)
(* needs recursion.  The two skip trees are the set "tree" of the price    *)
(* levels they hold (module SkipTree refines their look-ups).              *)
(*                                                                         *)
(* Each submitted order is an object of its own, named by its id.  The     *)
(* reuse of pooled objects by the engine is the subject of module Engine.  *)
(* version and stats are only ever incremented here and are left out.      *)
(***************************************************************************)
EXTENDS Integers, Sequences, FiniteSets, Functions

CONSTANTS
  Prices,      \* the price grid, positive integers
  Quantities,  \* the order quantities tried, positive integers
  MaxOrders,   \* bound on the number of orders submitted
  SeqCap       \* capacity of a level's ring buffer (1024 in the code)

ASSUME BookAssumption ==
  /\ Prices \subseteq Nat \ {0}
  /\ Quantities \subseteq Nat \ {0}
  /\ MaxOrders \in Nat
  /\ SeqCap \in Nat \ {0}

Ids    == 1 .. MaxOrders
Sides  == {"buy", "sell"}
Types  == {"limit", "market"}
Levels == [side : Sides, price : Prices]
Orders == [id : Ids, side : Sides, type : Types, price : Prices, qty : Quantities]

\* An order object after Order.Reset.
Blank == [id |-> 0, side |-> "none", type |-> "none", price |-> 0, qty |-> 0]

\* The id of the stand-in maker of a trade at a level whose queue is empty.
VIRTUAL == -1

VARIABLES
  used,      \* how many orders have been submitted
  order,     \* the order objects
  tree,      \* the price levels in the two skip trees
  total,     \* PriceLevel.TotalQty
  resting,   \* PriceLevel.Orders
  seq,       \* seqMaps: one queue per price, whatever the side
  orderMap,  \* the ids in the order map
  taker,     \* the order being matched, 0 when the mutex is free
  rem,       \* remainingQty of that call
  trades,    \* result.Trades of that call, or of the last one
  rested,    \* history: quantity added to each level
  traded     \* history: quantity traded at each level

history == <<rested, traded>>
vars == <<used, order, tree, total, resting, seq, orderMap, taker, rem, trades,
          rested, traded>>

LevelOf(o) == [side |-> o.side, price |-> o.price]

Opposite(s) == IF s = "buy" THEN "sell" ELSE "buy"

-----------------------------------------------------------------------------
(* Match                                                                   *)

\* Takes the mutex with a new valid order (Order.IsValid; the price of a
\* market order is never read).
MatchBegin(s, t, p, q) ==
  /\ taker = 0 /\ used < MaxOrders
  /\ used' = used + 1
  /\ order' = [order EXCEPT ![used + 1] =
                 [id |-> used + 1, side |-> s, type |-> t, price |-> p, qty |-> q]]
  /\ taker' = used + 1
  /\ rem' = q
  /\ trades' = <<>>
  /\ UNCHANGED <<tree, total, resting, seq, orderMap, history>>

\* A book that offers the worst level first.
IsWorst(l) ==
  /\ l \in tree /\ l.side = Opposite(order[taker].side)
  /\ \A k \in tree : k.side = l.side =>
       IF l.side = "sell" THEN l.price >= k.price ELSE l.price <= k.price

\* sells.MinPriceNode, or buys.MaxPriceNode: the level the taker meets first.
IsBest(l) ==
  /\ l \in tree /\ l.side = Opposite(order[taker].side)
  /\ \A k \in tree : k.side = l.side =>
       IF l.side = "sell" THEN l.price <= k.price ELSE l.price >= k.price

\* A comparison that forgets the equal price.
WithinLimitStrict(l) ==
  \/ order[taker].type = "market"
  \/ IF l.side = "sell" THEN order[taker].price > l.price
                        ELSE order[taker].price < l.price

WithinLimit(l) ==
  \/ order[taker].type = "market"
  \/ IF l.side = "sell" THEN order[taker].price >= l.price
                        ELSE order[taker].price <= l.price

\* A match of everything the taker wants.
MatchedAll(l) == rem

\* A taker's rest computed from its whole quantity again.
LeftOfWhole(q) == order[taker].qty - q

\* What remains of the taker after a match of q.
Left(q) == rem - q

\* matchedQty: a level whose TotalQty is 0 or less stops the loop.
Matched(l) == IF rem <= total[l] THEN rem ELSE total[l]

\* A loop that does not stop at a level that is used up.
CanTradeEmpty(l) == rem > 0 /\ IsBest(l) /\ WithinLimit(l)

CanTrade(l) == rem > 0 /\ IsBest(l) /\ WithinLimit(l) /\ Matched(l) > 0

\* getEarliestOrderFromLevel pops the queue of the price.  The id is read from
\* the object, which a cancellation has reset.
Maker(p) == IF seq[p] = <<>> THEN VIRTUAL ELSE order[Head(seq[p])].id

\* A partial fill is subtracted from TotalQty a second time by
\* updatePriceLevel, which stops at 0.
AfterPartial(left, q) == IF left - q < 0 THEN 0 ELSE left - q

\* One turn of the loop of matchBuyOrder or matchSellOrder.
MatchTrade(l) ==
  LET q    == Matched(l)
      left == total[l] - q
  IN  /\ taker # 0 /\ CanTrade(l)
      /\ trades' = Append(trades,
                     [maker |-> Maker(l.price), price |-> l.price, qty |-> q])
      /\ rem' = Left(q)
      /\ IF left = 0
         THEN /\ tree' = tree \ {l}
              /\ total' = [total EXCEPT ![l] = 0]
              /\ resting' = [resting EXCEPT ![l] = <<>>]
              /\ seq' = [seq EXCEPT ![l.price] = <<>>]
         ELSE /\ total' = [total EXCEPT ![l] = AfterPartial(left, q)]
              /\ seq' = [seq EXCEPT ![l.price] = IF @ = <<>> THEN @ ELSE Tail(@)]
              /\ UNCHANGED <<tree, resting>>
      /\ traded' = [traded EXCEPT ![l] = @ + q]
      /\ UNCHANGED <<used, order, orderMap, taker, rested>>

\* An order book that lets the rest of a market order rest as well.
RestsAny == rem > 0

\* Only the rest of a limit order enters the book.
Rests == rem > 0 /\ order[taker].type = "limit"

\* addOrderToBook; a push to a full queue is silently dropped.
AddOrderToBook(l) ==
  /\ tree' = tree \cup {l}
  /\ total' = [total EXCEPT ![l] = @ + rem]
  /\ resting' = [resting EXCEPT ![l] = Append(@, taker)]
  /\ orderMap' = orderMap \cup {taker}
  /\ seq' = [seq EXCEPT ![l.price] = IF Len(@) < SeqCap THEN Append(@, taker) ELSE @]
  /\ rested' = [rested EXCEPT ![l] = @ + rem]

\* The loop that has no more level to trade at, with and without a price check.
LoopOverAny == rem = 0 \/ ~\E l \in tree : IsBest(l) /\ total[l] > 0

LoopOver == ~\E l \in tree : CanTrade(l)

\* The loop is over: the rest enters the book, the mutex is released.
MatchEnd ==
  /\ taker # 0 /\ LoopOver
  /\ IF Rests THEN AddOrderToBook(LevelOf(order[taker]))
     ELSE UNCHANGED <<tree, total, resting, orderMap, seq, rested>>
  /\ taker' = 0
  /\ rem' = 0
  /\ UNCHANGED <<used, order, trades, traded>>

-----------------------------------------------------------------------------
(* CancelOrder                                                             *)

\* The list without its n-th order.
Without(s, n) == SubSeq(s, 1, n - 1) \o SubSeq(s, n + 1, Len(s))

\* i is the n-th order of the list, and not listed before.
FirstAt(s, i, n) == s[n] = i /\ \A m \in 1 .. n - 1 : s[m] # i

\* A cancellation that forgets the level's total.
TotalKept(l, i) == total[l]

\* The order's original quantity comes off, whatever was filled of it.
TotalWithout(l, i) == total[l] - order[i].qty

\* Succeeds for an order that its level still lists; every other call returns
\* false and changes nothing.  It takes the order's original quantity off the
\* level, removes the level if that leaves exactly 0, and returns the object
\* to the pool; the queue seqMaps keeps pointing to it.
CancelOrder(i, n) ==
  LET l    == LevelOf(order[i])
      left == TotalWithout(l, i)
  IN  /\ taker = 0
      /\ i \in orderMap /\ l \in tree
      /\ n \in 1 .. Len(resting[l]) /\ FirstAt(resting[l], i, n)
      /\ IF left = 0
         THEN /\ tree' = tree \ {l}
              /\ resting' = [resting EXCEPT ![l] = <<>>]
              /\ seq' = [seq EXCEPT ![l.price] = <<>>]
         ELSE /\ resting' = [resting EXCEPT ![l] = Without(@, n)]
              /\ UNCHANGED <<tree, seq>>
      /\ total' = [total EXCEPT ![l] = left]
      /\ orderMap' = orderMap \ {i}
      /\ order' = [order EXCEPT ![i] = Blank]
      /\ UNCHANGED <<used, taker, rem, trades, history>>

-----------------------------------------------------------------------------
(* The readers, each under the read lock, that is when taker = 0           *)

\* What a client sees of a level.
EntryOf(l) == [price |-> l.price, quantity |-> total[l], count |-> Len(resting[l])]

\* The k-th level of a side, best first.
Nth(s, k) ==
  CHOOSE l \in tree :
    /\ l.side = s
    /\ k - 1 = Cardinality({m \in tree : m.side = s /\
                  IF s = "buy" THEN m.price > l.price ELSE m.price < l.price})

\* One side of GetSnapshot, at most depth levels.
getTopLevels(s, depth) ==
  LET n == Cardinality({l \in tree : l.side = s})
  IN  [k \in 1 .. (IF depth < n THEN depth ELSE n) |-> EntryOf(Nth(s, k))]

\* That side in the answer of the matching service, and in the gateway's.
OrderBookSnapshot(s, depth) ==
  LET levels == getTopLevels(s, depth)
  IN  [k \in DOMAIN levels |->
         LET e == levels[k]
         IN  [price |-> e.price, quantity |-> e.quantity, orderCount |-> e.count]]

OrderBookResp(s, depth) ==
  LET levels == OrderBookSnapshot(s, depth)
  IN  [k \in DOMAIN levels |->
         LET e == levels[k]
         IN  [price |-> e.price, quantity |-> e.quantity, count |-> e.orderCount]]

\* GetBestBid and GetBestAsk: none for an empty side.
GetBestBid ==
  {EntryOf(l) : l \in {b \in tree : b.side = "buy" /\
     \A k \in tree : k.side = "buy" => k.price <= b.price}}

GetBestAsk ==
  {EntryOf(l) : l \in {a \in tree : a.side = "sell" /\
     \A k \in tree : k.side = "sell" => k.price >= a.price}}

-----------------------------------------------------------------------------

Init ==
  /\ used = 0
  /\ order = [i \in Ids |-> Blank]
  /\ tree = {}
  /\ total = [l \in Levels |-> 0]
  /\ resting = [l \in Levels |-> <<>>]
  /\ seq = [p \in Prices |-> <<>>]
  /\ orderMap = {}
  /\ taker = 0 /\ rem = 0
  /\ trades = <<>>
  /\ rested = [l \in Levels |-> 0]
  /\ traded = [l \in Levels |-> 0]

MatchStep == (\E l \in tree : MatchTrade(l)) \/ MatchEnd

Next ==
  \/ \E s \in Sides, t \in Types, p \in Prices, q \in Quantities : MatchBegin(s, t, p, q)
  \/ MatchStep
  \/ \E i \in orderMap : \E n \in 1 .. Len(resting[LevelOf(order[i])]) : CancelOrder(i, n)

Spec == Init /\ [][Next]_vars

\* A call of Match keeps running; nobody is obliged to submit or cancel.
FairSpec == Spec /\ WF_vars(MatchStep)

-----------------------------------------------------------------------------
(* Properties                                                              *)

\* The type of every variable.
TypeOK ==
  /\ used \in 0 .. MaxOrders
  /\ order \in [Ids -> Orders \cup {Blank}]
  /\ tree \subseteq Levels
  /\ total \in [Levels -> Int]
  /\ resting \in [Levels -> Seq(Ids)]
  /\ seq \in [Prices -> Seq(Ids)]
  /\ orderMap \subseteq Ids
  /\ taker \in 0 .. used
  /\ taker # 0 => order[taker] \in Orders
  /\ rem \in Nat
  /\ trades \in Seq([maker : {VIRTUAL, 0} \cup Ids, price : Prices,
                     qty : Nat \ {0}])
  /\ rested \in [Levels -> Nat]
  /\ traded \in [Levels -> Nat]

\* A level never sells more than was put into it, whatever orders, partial
\* fills and cancellations come: what it still shows in TotalQty and what it
\* traded are together at most what was rested there.
NoOversell ==
  \A l \in Levels :
    traded[l] <= rested[l] /\ traded[l] + total[l] <= rested[l]

\* MatchResult.TotalFilledQty.
TotalFilledQty(ts) == SumFunction([n \in 1 .. Len(ts) |-> ts[n].qty])

\* Price priority: every trade of a Match is within the taker's limit, and the
\* next one is at a strictly worse price for the taker (a level trades at most
\* once per Match).
PriceWalk ==
  taker # 0 =>
    LET o == order[taker]
    IN  /\ \A n \in 1 .. Len(trades) :
             WithinLimit([side |-> Opposite(o.side), price |-> trades[n].price])
        /\ \A n \in 2 .. Len(trades) :
             IF o.side = "buy" THEN trades[n - 1].price < trades[n].price
                               ELSE trades[n - 1].price > trades[n].price

\* A taker gets what it asked for, in the order of the prices: at every turn of
\* a Match its trades and the rest add up to its quantity, they walk from the
\* best price to worse ones and stay within its limit.
TakerServed ==
  /\ PriceWalk
  /\ taker # 0 => TotalFilledQty(trades) + rem = order[taker].qty

\* The redundant structures agree: what a level lists is in the order map, is
\* a limit order of that side and price, is listed once, and in a level that
\* is in its tree; a level out of the tree is empty.
RestingIndexed ==
  \A l \in Levels :
    /\ \A n \in 1 .. Len(resting[l]) :
         LET i == resting[l][n]
         IN  /\ i \in orderMap /\ order[i].type = "limit" /\ LevelOf(order[i]) = l
             /\ \A m \in 1 .. Len(resting[l]) : m # n => resting[l][m] # i
    /\ l \notin tree => resting[l] = <<>> /\ total[l] = 0

\* When the mutex is free the best bid is below the best ask, unless the level
\* on one side is used up and blocks it (TotalQty 0 or less, which makes every
\* taker stop): Match never rests an order that could have traded.
CrossedOnlyAtSpent ==
  taker = 0 =>
    \A b \in GetBestBid, a \in GetBestAsk :
      b.price >= a.price => b.quantity <= 0 \/ a.quantity <= 0

\* The quantity a level's listed orders came with.
Listed(l) == SumFunctionOnSet([i \in Ids |-> order[i].qty], Range(resting[l]))

\* What the gateway's order book tells a client, between any fills and cancellations: no
\* level shows more than the orders it counts have brought; one that counts no
\* order shows a negative quantity (it blocks its side); and the snapshot
\* begins with the best bid and the best ask.
SnapshotHonest ==
  taker = 0 =>
    \A s \in Sides :
      LET shown == OrderBookResp(s, Cardinality(tree))
      IN  /\ \A k \in 1 .. Len(shown) :
               /\ shown[k].quantity <= Listed([side |-> s, price |-> shown[k].price])
               /\ shown[k].count = 0 => shown[k].quantity < 0
          /\ {shown[k] : k \in {1} \cap (1 .. Len(shown))} =
               IF s = "buy" THEN GetBestBid ELSE GetBestAsk

\* Every Match comes to its end and releases the mutex: its loop cannot turn
\* for ever, on a level that is used up either.
MatchEnds == taker # 0 ~> taker = 0

\* "take the earliest order of the same price from the level" (hybird.go:186):
\* the maker of a trade is the first order listed by the level.
MakerIsEarliest ==
  [][\A l \in tree : MatchTrade(l) =>
       trades'[Len(trades')].maker = order[Head(resting[l])].id]_vars
=============================================================================
