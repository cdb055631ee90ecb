------------------------------ MODULE SkipTree ------------------------------
(***************************************************************************)
(* The skip list behind each side of an order book, skip_tree.go of        *)
(* app/matching/internal/orderbook.  Its mutex makes every operation one   *)
(* step.  A node is named by its key, a level object by the price it was   *)
(* created with; what a level holds is the subject of module OrderBook.    *)
(***************************************************************************)
EXTENDS Integers, Sequences, FiniteSets

CONSTANTS
  Prices,    \* the prices tried, positive integers
  Eps,       \* the difference up to which compare takes two prices for equal
  MaxLevel,  \* maxLevel of NewSkipTree (16 in the order book)
  NIL        \* no node, no level

HEADER == 0   \* the header node: its key is 0

Nodes  == {HEADER} \cup Prices
Floors == 0 .. MaxLevel

\* There are finitely many prices (float64 values).  Prices within Eps of a
\* third one are within Eps of each other: otherwise "equal" is not transitive
\* and the order of the nodes not defined.
ASSUME TreeAssumption ==
  /\ Prices \subseteq Nat \ {0} /\ IsFiniteSet(Prices)
  /\ Eps \in Nat /\ MaxLevel \in Nat
  /\ NIL \notin Nodes
  /\ \A a, b, c \in Prices :
       a - b \in -Eps .. Eps /\ b - c \in -Eps .. Eps => a - c \in -Eps .. Eps

VARIABLES
  reverse,  \* TRUE: highest price first (bids); fixed when the tree is made
  forward,  \* forward pointers of each node; NIL above a node's tower
  height,   \* SkipNode.level: the top of the node's tower
  value,    \* the level object of each node; NIL for a key not in the tree
  level,    \* the highest floor in use
  size

vars == <<reverse, forward, height, value, level, size>>

\* A compare that takes prices within Eps for different.
CompareExact(a, b) ==
  IF a = b THEN 0 ELSE IF (a > b) = reverse THEN -1 ELSE 1

compare(a, b) ==
  IF a - b \in -Eps .. Eps THEN 0 ELSE IF (a > b) = reverse THEN -1 ELSE 1

-----------------------------------------------------------------------------
(* The descent and the updates                                             *)

\* The last node on floor i, from n on, that comes before price p.
Walk(n, i, p) ==
  LET go[m \in Nodes] ==
        IF forward[m][i] # NIL /\ compare(forward[m][i], p) < 0
        THEN go[forward[m][i]] ELSE m
  IN  go[n]

\* "update": the node at which the search for p leaves each floor.
Update(p) ==
  LET at[i \in 0 .. level] == Walk(IF i = level THEN HEADER ELSE at[i + 1], i, p)
  IN  at

\* The node the search for p ends at, if its key equals p.
Found(p) == forward[Update(p)[0]][0]
IsThere(p) == Found(p) # NIL /\ compare(Found(p), p) = 0

\* The new node of price p and tower h is linked in on the floors 0 .. h; on
\* the floors above the current level its predecessor is the header.
InsertNode(p, h) ==
  LET before == [i \in 0 .. h |-> IF i <= level THEN Update(p)[i] ELSE HEADER]
  IN  /\ forward' = [n \in Nodes |-> [i \in Floors |->
           CASE n = p /\ i <= h                 -> forward[before[i]][i]
             [] n # p /\ i <= h /\ n = before[i] -> p
             [] OTHER                           -> forward[n][i]]]
      /\ height' = [height EXCEPT ![p] = h]
      /\ value' = [value EXCEPT ![p] = p]
      /\ level' = IF h > level THEN h ELSE level
      /\ size' = size + 1

\* Insert of a level created with price p; the tower h is random.  A level of
\* the same price is replaced, under the key the node has.
Insert(p, h) ==
  /\ IF IsThere(p)
     THEN /\ value' = [value EXCEPT ![Found(p)] = p]
          /\ UNCHANGED <<forward, height, level, size>>
     ELSE InsertNode(p, h)
  /\ UNCHANGED reverse

\* A removal from the bottom floor only.
SplicedBottom(p) ==
  [forward EXCEPT ![Update(p)[0]][0] = forward[Found(p)][0]]

\* The pointers after the removal of the node found for p.
Spliced(p) ==
  [n \in Nodes |-> [i \in Floors |->
     IF i <= level /\ n = Update(p)[i] /\ forward[n][i] = Found(p)
     THEN forward[Found(p)][i] ELSE forward[n][i]]]

\* A level that never goes down.
LoweredNot(f) == level

\* The highest floor up to the old one that still has a node, or 0.
Lowered(f) ==
  CHOOSE i \in 0 .. level :
    /\ i = 0 \/ f[HEADER][i] # NIL
    /\ \A j \in i + 1 .. level : f[HEADER][j] = NIL

\* Remove; a price that is not there changes nothing.  The removed node is
\* garbage; its name is blank again.
Remove(p) ==
  /\ IsThere(p)
  /\ forward' = [Spliced(p) EXCEPT ![Found(p)] = [i \in Floors |-> NIL]]
  /\ height' = [height EXCEPT ![Found(p)] = 0]
  /\ value' = [value EXCEPT ![Found(p)] = NIL]
  /\ level' = Lowered(Spliced(p))
  /\ size' = size - 1
  /\ UNCHANGED reverse

Empty(f, hs, v, l, s) ==
  /\ f = [n \in Nodes |-> [i \in Floors |-> NIL]]
  /\ hs = [n \in Nodes |-> IF n = HEADER THEN MaxLevel ELSE 0]
  /\ v = [n \in Nodes |-> NIL]
  /\ l = 0 /\ s = 0

Clear == Empty(forward', height', value', level', size') /\ UNCHANGED reverse

\* A randomLevel that may climb one floor above maxLevel.
TowersHigh == 0 .. MaxLevel + 1

\* randomLevel.
Towers == Floors

Init == reverse \in BOOLEAN /\ Empty(forward, height, value, level, size)

Next ==
  \/ \E p \in Prices : Remove(p) \/ \E h \in Towers : Insert(p, h)
  \/ Clear

Spec == Init /\ [][Next]_vars

-----------------------------------------------------------------------------
(* The look-ups                                                            *)

Get(p) == IF IsThere(p) THEN value[Found(p)] ELSE NIL

First == forward[HEADER][0]

\* The end of the walk along every floor, from the highest one down.
Last ==
  LET run[at \in Nodes \X Floors] ==
        LET m == at[1]
            i == at[2]
        IN  IF forward[m][i] # NIL THEN run[<<forward[m][i], i>>]
            ELSE IF i = 0 THEN m ELSE run[<<m, i - 1>>]
  IN  run[<<HEADER, level>>]

LevelAt(n) == IF n = NIL THEN NIL ELSE value[n]

MinPriceNode == IF size = 0 THEN NIL ELSE LevelAt(IF reverse THEN Last ELSE First)
MaxPriceNode == IF size = 0 THEN NIL ELSE LevelAt(IF reverse THEN First ELSE Last)

\* The nodes of floor i in their order: GetAllLevels, and what Range visits.
Chain(i) ==
  LET from[m \in Nodes] ==
        IF forward[m][i] = NIL THEN <<>>
        ELSE <<forward[m][i]>> \o from[forward[m][i]]
  IN  from[HEADER]

\* The first node that does not come before price p.
StartAt(p) == Found(p)

\* The levels RangeFrom visits if the callback lets it.
RangeFrom(p) ==
  LET from[m \in Nodes \cup {NIL}] ==
        IF m = NIL THEN <<>> ELSE <<value[m]>> \o from[forward[m][0]]
  IN  from[StartAt(p)]

\* The levels RangeBetween visits; "min" is the bound that comes first.
RangeBetween(min, max) ==
  LET from[m \in Nodes \cup {NIL}] ==
        IF m = NIL THEN <<>>
        ELSE IF compare(m, max) > 0 THEN <<>>
        ELSE <<value[m]>> \o from[forward[m][0]]
  IN  from[StartAt(min)]

\* GetTopLevels, of both kinds of tree.
GetTopLevels(limit) ==
  LET c == Chain(0)
      n == IF limit < Len(c) THEN limit ELSE Len(c)
  IN  [k \in 1 .. n |-> value[c[k]]]

\* GetPriceRange: the first key and the last one.
GetPriceRange ==
  IF size = 0 THEN [min |-> 0, max |-> 0]
  ELSE [min |-> First, max |-> Last]

\* Validate: every floor is in order, the header's key 0 included.
Validate ==
  \A i \in 0 .. level :
    LET c == <<HEADER>> \o Chain(i)
    IN  \A k \in 2 .. Len(c) : compare(c[k - 1], c[k]) <= 0 /\ height[c[k]] >= i

-----------------------------------------------------------------------------
(* Properties                                                              *)

\* The type of every variable; nodes that are not linked are blank.
TypeOK ==
  /\ reverse \in BOOLEAN
  /\ forward \in [Nodes -> [Floors -> Prices \cup {NIL}]]
  /\ height \in [Nodes -> Floors]
  /\ value \in [Nodes -> Prices \cup {NIL}]
  /\ level \in Floors
  /\ size \in 0 .. Cardinality(Prices)

Present == {n \in Prices : value[n] # NIL}

NodesOf(c) == {c[k] : k \in 1 .. Len(c)}

\* The skip list's structure: floor 0 links all nodes, each higher floor just
\* those whose tower reaches it, every floor strictly in price order, and no
\* floor above "level" has a node, so that no search starts too low.
WellLinked ==
  /\ \A i \in Floors :
       /\ NodesOf(Chain(i)) = {n \in Present : height[n] >= i}
       /\ \A k \in 2 .. Len(Chain(i)) : compare(Chain(i)[k - 1], Chain(i)[k]) < 0
       /\ i > level => Chain(i) = <<>>
  /\ level > 0 => forward[HEADER][level] # NIL
  /\ size = Cardinality(Present)

\* The levels a caller can reach.
Held == {value[n] : n \in NodesOf(Chain(0))}

Abstract == INSTANCE PriceMap WITH levels <- Held

\* Insert, Remove and Clear do to the levels what a map from prices does.
ImplementsPriceMap == Abstract!Spec

\* The look-ups find what is there, by any route over the floors: Get the level
\* of the price, MinPriceNode and MaxPriceNode the levels at the two ends,
\* GetTopLevels the best ones, best first, RangeFrom and RangeBetween every level
\* in the range once and in order, bounds that no level has included.  Validate
\* ("tree should be valid", orderbook_test.go:153) and GetPriceRange are right of
\* an ascending tree (of a descending one neither is: Validate compares its first
\* price with the header's key, and GetPriceRange takes it for the smallest).
LookupsAgree ==
  /\ \A p \in Prices : {Get(p)} \ {NIL} = {q \in Held : Abstract!Same(p, q)}
  /\ {MinPriceNode} \ {NIL} = {q \in Held : \A r \in Held : q <= r}
  /\ {MaxPriceNode} \ {NIL} = {q \in Held : \A r \in Held : q >= r}
  /\ \A n \in 0 .. Cardinality(Prices) :
       LET top == GetTopLevels(n)
       IN  /\ Len(top) = IF n < size THEN n ELSE size
           /\ \A k \in 1 .. Len(top) :
                Cardinality({q \in Held : compare(q, top[k]) < 0}) = k - 1
  /\ \A a, b \in Prices :
       LET met == RangeBetween(a, b)
       IN  /\ NodesOf(met) = {q \in Held : compare(q, a) >= 0 /\ compare(q, b) <= 0}
           /\ NodesOf(RangeFrom(a)) = {q \in Held : compare(q, a) >= 0}
           /\ \A k \in 2 .. Len(met) : compare(met[k - 1], met[k]) < 0
  /\ ~reverse =>
       /\ Validate
       /\ size > 0 =>
            \A n \in Present : n \in GetPriceRange.min .. GetPriceRange.max
=============================================================================
