--------------------------- MODULE SkipTreeProofs ---------------------------
(***************************************************************************)
(* Proofs about SkipTree.  The invariant TreeInv says of every floor what  *)
(* its pointers link: from the header and from each node whose tower       *)
(* reaches the floor to the next such node in price order.  From it the    *)
(* searches are shown to leave each floor at the last node before the      *)
(* price, the updates to keep it, and the chains, the levels held and the  *)
(* look-ups to be what WellLinked, PriceMap and LookupsAgree say.  The     *)
(* recursive functions of the model (Walk, Update, Last, Chain and the     *)
(* ranges) are dealt with by the lemmas on walks of module Recursion.      *)
(***************************************************************************)
EXTENDS SkipTree, Recursion

-----------------------------------------------------------------------------

(* The order of the prices                                                 *)

\* compare(a, b) < 0 and compare(a, b) = 0 in a tree whose "reverse" is r.
Ahead(r, a, b) == a - b \notin -Eps .. Eps /\ (a > b) = r
Equal(a, b) == a - b \in -Eps .. Eps

\* The header comes before every price.
Prior(r, m, n) == m = HEADER \/ Ahead(r, m, n)

LEMMA CompareIs ==
  ASSUME reverse \in BOOLEAN, NEW a \in Nodes, NEW b \in Nodes
  PROVE  /\ compare(a, b) < 0 <=> Ahead(reverse, a, b)
         /\ compare(a, b) = 0 <=> Equal(a, b)
         /\ compare(a, b) > 0 <=> ~Equal(a, b) /\ ~Ahead(reverse, a, b)
  BY TreeAssumption DEF compare, Ahead, Equal, Nodes, HEADER

LEMMA NodeNames ==
  /\ HEADER \in Nodes /\ HEADER \notin Prices /\ NIL \notin Nodes
  /\ NIL \notin Prices /\ NIL # HEADER /\ Prices \subseteq Nodes
  /\ Nodes = Prices \cup {HEADER}
  BY TreeAssumption DEF Nodes, HEADER

LEMMA Irreflexive == \A r, a : a \in Prices => ~Ahead(r, a, a) /\ Equal(a, a)
  BY TreeAssumption DEF Ahead, Equal

LEMMA AheadIs ==
  ASSUME NEW r \in BOOLEAN, NEW a \in Prices, NEW b \in Prices
  PROVE  /\ Ahead(r, a, b) <=> IF r THEN a > b + Eps ELSE b > a + Eps
         /\ Equal(a, b) <=> a <= b + Eps /\ b <= a + Eps
         /\ a \in Nat /\ b \in Nat /\ Eps \in Nat
<1>1. a \in Nat /\ b \in Nat /\ Eps \in Nat
  BY TreeAssumption
<1>2. Equal(a, b) <=> a <= b + Eps /\ b <= a + Eps
  BY <1>1 DEF Equal
<1>3. Ahead(r, a, b) <=> ~Equal(a, b) /\ ((a > b) = r)
  BY DEF Ahead, Equal
<1>4. r => (Ahead(r, a, b) <=> a > b + Eps)
  <2>1. r => (Ahead(r, a, b) <=> ~Equal(a, b) /\ a > b)
    BY <1>3
  <2>2. ~Equal(a, b) /\ a > b <=> a > b + Eps
    BY <1>1, <1>2
  <2> QED
    BY <2>1, <2>2
<1>5. ~r => (Ahead(r, a, b) <=> b > a + Eps)
  <2>1. ~r => (Ahead(r, a, b) <=> ~Equal(a, b) /\ ~(a > b))
    BY <1>3
  <2>2. ~Equal(a, b) /\ ~(a > b) <=> b > a + Eps
    BY <1>1, <1>2
  <2> QED
    BY <2>1, <2>2
<1> QED
  BY <1>1, <1>2, <1>4, <1>5

LEMMA Trichotomy ==
  ASSUME NEW r \in BOOLEAN, NEW a \in Prices, NEW b \in Prices
  PROVE  /\ Equal(a, b) \/ Ahead(r, a, b) \/ Ahead(r, b, a)
         /\ ~(Ahead(r, a, b) /\ Ahead(r, b, a))
         /\ Ahead(r, a, b) => ~Equal(a, b) /\ ~Equal(b, a)
         /\ Equal(a, b) <=> Equal(b, a)
  BY AheadIs

LEMMA Transitive ==
  ASSUME NEW r \in BOOLEAN, NEW a \in Prices, NEW b \in Prices, NEW c \in Prices
  PROVE  /\ Ahead(r, a, b) /\ Ahead(r, b, c) => Ahead(r, a, c)
         /\ Equal(a, b) /\ Equal(b, c) => Equal(a, c)
         /\ Equal(a, b) /\ Ahead(r, b, c) => Ahead(r, a, c)
         /\ Ahead(r, a, b) /\ Equal(b, c) => Ahead(r, a, c)
<1>1. Ahead(r, a, b) /\ Ahead(r, b, c) => Ahead(r, a, c)
  BY AheadIs
<1>2. \A x, y, z \in Prices : Equal(x, y) /\ Equal(y, z) => Equal(x, z)
  BY TreeAssumption DEF Equal
<1>3. Equal(a, b) /\ Ahead(r, b, c) => Ahead(r, a, c)
  <2>1. Equal(a, b) /\ Ahead(r, b, c) => ~Equal(a, c)
    BY <1>2, Trichotomy
  <2> QED
    BY <2>1, AheadIs
<1>4. Ahead(r, a, b) /\ Equal(b, c) => Ahead(r, a, c)
  <2>1. Ahead(r, a, b) /\ Equal(b, c) => ~Equal(a, c)
    BY <1>2, Trichotomy
  <2> QED
    BY <2>1, AheadIs
<1> QED
  BY <1>1, <1>2, <1>3, <1>4

-----------------------------------------------------------------------------
(* One floor                                                               *)

\* x is the node after m in the set S, or NIL if there is none.
Follows(r, m, x, S) ==
  IF x = NIL THEN \A n \in S : ~Prior(r, m, n)
  ELSE /\ x \in S /\ Prior(r, m, x)
       /\ \A n \in S : Prior(r, m, n) => n = x \/ Prior(r, x, n)

\* The pointers f of a floor link the nodes of S in their order; the nodes that
\* do not reach the floor are blank.
Links(r, f, S) ==
  /\ S \subseteq Prices
  /\ \A m, n \in S : m = n \/ Ahead(r, m, n) \/ Ahead(r, n, m)
  /\ f \in [Nodes -> Prices \cup {NIL}]
  /\ \A m \in {HEADER} \cup S : Follows(r, m, f[m], S)
  /\ \A m \in Prices \ S : f[m] = NIL

\* w is where a search for p leaves the floor.
Leaves(r, f, S, w, p) ==
  /\ w \in {HEADER} \cup S /\ Prior(r, w, p)
  /\ f[w] # NIL => ~Ahead(r, f[w], p)

\* Prior is transitive.
LEMMA PriorTrans ==
  ASSUME NEW r \in BOOLEAN, NEW m \in Nodes, NEW a \in Prices, NEW b \in Prices,
         Prior(r, m, a), Ahead(r, a, b)
  PROVE  Prior(r, m, b)
  BY NodeNames, Transitive DEF Prior

\* Whatever comes after the place where the search leaves does not come before p.
LEMMA LeafMeans ==
  ASSUME NEW r \in BOOLEAN, NEW f, NEW S, Links(r, f, S), NEW p \in Prices,
         NEW w, Leaves(r, f, S, w, p), NEW n \in S, Prior(r, w, n)
  PROVE  ~Ahead(r, n, p)
<1>1. f[w] # NIL /\ f[w] \in S /\ ~Ahead(r, f[w], p)
      /\ (n = f[w] \/ Prior(r, f[w], n))
  BY DEF Links, Leaves, Follows
<1>2. S \subseteq Prices
  BY DEF Links
<1> QED
  BY <1>1, <1>2, Transitive, NodeNames DEF Prior

LEMMA LeafUnique ==
  ASSUME NEW r \in BOOLEAN, NEW f, NEW S, Links(r, f, S), NEW p \in Prices,
         NEW w, Leaves(r, f, S, w, p), NEW u, Leaves(r, f, S, u, p)
  PROVE  w = u
<1>1. u \in S => ~Prior(r, w, u)
  <2>1. u \in S => Ahead(r, u, p)
    BY NodeNames DEF Leaves, Prior, Links
  <2> QED
    BY <2>1, LeafMeans
<1>2. w \in S => ~Prior(r, u, w)
  <2>1. w \in S => Ahead(r, w, p)
    BY NodeNames DEF Leaves, Prior, Links
  <2> QED
    BY <2>1, LeafMeans
<1> QED
  BY <1>1, <1>2 DEF Links, Leaves, Prior

\* The pointers after p is linked in behind w, and after the node x that follows
\* w is taken out.
With(f, w, p) == [n \in Nodes |-> IF n = p THEN f[w] ELSE IF n = w THEN p ELSE f[n]]
Without(f, w, x) == [n \in Nodes |-> IF n = x THEN NIL ELSE IF n = w THEN f[x] ELSE f[n]]

LEMMA InsertLinks ==
  ASSUME NEW r \in BOOLEAN, NEW f, NEW S, Links(r, f, S), NEW p \in Prices,
         \A n \in S : ~Equal(n, p), NEW w, Leaves(r, f, S, w, p)
  PROVE  Links(r, With(f, w, p), S \cup {p})
<1> DEFINE g == With(f, w, p)
           R == S \cup {p}
<1>1. S \subseteq Prices /\ R \subseteq Prices /\ f \in [Nodes -> Prices \cup {NIL}]
      /\ p \notin S /\ w \in {HEADER} \cup S /\ w # p /\ w \in Nodes
  BY NodeNames, Irreflexive DEF Links, Leaves
<1>2. \A n \in S : Ahead(r, n, p) \/ Ahead(r, p, n)
  BY <1>1, Trichotomy
<1>3. \A m, n \in R : m = n \/ Ahead(r, m, n) \/ Ahead(r, n, m)
  BY <1>2 DEF Links
<1>4. g \in [Nodes -> Prices \cup {NIL}] /\ \A m \in Prices \ R : g[m] = NIL
  BY <1>1, NodeNames DEF With, Links
<1>5. ASSUME NEW m \in {HEADER} \cup R
      PROVE  Follows(r, m, g[m], R)
  <2>1. CASE m = p
    <3>1. g[m] = f[w] /\ Follows(r, w, f[w], S) /\ Prior(r, w, p)
      BY <2>1, <1>1, NodeNames DEF With, Links, Leaves
    <3>2. ASSUME NEW n \in R, Prior(r, p, n)
          PROVE  n \in S /\ Prior(r, w, n)
      BY <3>2, <3>1, <1>1, PriorTrans, Irreflexive, NodeNames DEF Prior
    <3>3. CASE f[w] = NIL
      BY <2>1, <3>1, <3>2, <3>3 DEF Follows
    <3>4. CASE f[w] # NIL
      <4>1. f[w] \in S /\ Prior(r, p, f[w])
        BY <3>4, <3>1, <1>2 DEF Follows, Leaves, Prior
      <4>2. \A n \in R : Prior(r, p, n) => n = f[w] \/ Prior(r, f[w], n)
        BY <3>1, <3>2, <3>4 DEF Follows
      <4> QED
        BY <2>1, <3>1, <3>4, <4>1, <4>2 DEF Follows
    <3> QED
      BY <3>3, <3>4
  <2>2. CASE m = w
    <3>1. g[m] = p /\ p # NIL /\ Prior(r, w, p)
      BY <2>2, <1>1, NodeNames DEF With, Leaves
    <3>2. ASSUME NEW n \in R, Prior(r, w, n)
          PROVE  n = p \/ Prior(r, p, n)
      BY <3>2, <1>2, LeafMeans DEF Prior
    <3> QED
      BY <2>2, <3>1, <3>2 DEF Follows
  <2>3. CASE m # p /\ m # w
    <3>1. g[m] = f[m] /\ Follows(r, m, f[m], S) /\ m \in {HEADER} \cup S /\ m \in Nodes
      BY <2>3, <1>1, NodeNames DEF With, Links
    <3>2. ASSUME Prior(r, m, p)
          PROVE  w \in S /\ Prior(r, m, w) /\ Ahead(r, w, p)
      <4>1. m \in S => ~Prior(r, w, m)
        BY <3>1, <3>2, <1>1, LeafMeans, NodeNames DEF Prior
      <4>2. w \in S /\ Prior(r, m, w)
        BY <2>3, <3>1, <4>1, <1>1 DEF Links, Prior
      <4> QED
        BY <4>2, <1>1, NodeNames DEF Leaves, Prior
    <3>3. CASE f[m] = NIL
      BY <3>1, <3>2, <3>3 DEF Follows
    <3>4. CASE f[m] # NIL
      <4>1. f[m] \in S /\ f[m] \in R /\ Prior(r, m, f[m])
        BY <3>1, <3>4 DEF Follows
      <4>2. ASSUME Prior(r, m, p)
            PROVE  Prior(r, f[m], p)
        <5>1. w = f[m] \/ Prior(r, f[m], w)
          BY <3>1, <3>2, <3>4, <4>2 DEF Follows
        <5> QED
          BY <5>1, <3>2, <4>1, <4>2, <1>1, PriorTrans, NodeNames DEF Prior
      <4>3. \A n \in R : Prior(r, m, n) => n = f[m] \/ Prior(r, f[m], n)
        BY <3>1, <3>4, <4>2 DEF Follows
      <4> QED
        BY <3>1, <3>4, <4>1, <4>3 DEF Follows
    <3> QED
      BY <3>3, <3>4
  <2> QED
    BY <2>1, <2>2, <2>3
<1> QED
  BY <1>1, <1>3, <1>4, <1>5 DEF Links

LEMMA RemoveLinks ==
  ASSUME NEW r \in BOOLEAN, NEW f, NEW S, Links(r, f, S), NEW w \in {HEADER} \cup S,
         NEW x \in S, f[w] = x
  PROVE  Links(r, Without(f, w, x), S \ {x})
<1> DEFINE g == Without(f, w, x)
           R == S \ {x}
<1>1. S \subseteq Prices /\ R \subseteq Prices /\ f \in [Nodes -> Prices \cup {NIL}]
      /\ x \in Prices /\ x # NIL /\ w \in Nodes
  BY NodeNames DEF Links
<1>2. Follows(r, w, x, S) /\ Prior(r, w, x) /\ Follows(r, x, f[x], S)
  BY <1>1 DEF Links, Follows
<1>3. w # x
  BY <1>1, <1>2, Irreflexive, NodeNames DEF Prior
<1>4. g \in [Nodes -> Prices \cup {NIL}] /\ \A m \in Prices \ R : g[m] = NIL
  BY <1>1, NodeNames DEF Without, Links
<1>5. \A m, n \in R : m = n \/ Ahead(r, m, n) \/ Ahead(r, n, m)
  BY DEF Links
<1>6. ASSUME NEW m \in {HEADER} \cup R
      PROVE  Follows(r, m, g[m], R)
  <2>1. CASE m = w
    <3>1. g[m] = f[x]
      BY <2>1, <1>1, <1>3 DEF Without
    <3>2. ASSUME NEW n \in R, Prior(r, w, n)
          PROVE  Prior(r, x, n)
      BY <3>2, <1>1, <1>2 DEF Follows
    <3>3. CASE f[x] = NIL
      BY <2>1, <3>1, <3>2, <3>3, <1>2 DEF Follows
    <3>4. CASE f[x] # NIL
      <4>1. f[x] \in S /\ Ahead(r, x, f[x])
        BY <3>4, <1>1, <1>2, NodeNames DEF Follows, Prior
      <4>2. f[x] \in R /\ Prior(r, w, f[x])
        BY <4>1, <1>1, <1>2, PriorTrans, Irreflexive
      <4>3. \A n \in R : Prior(r, w, n) => n = f[x] \/ Prior(r, f[x], n)
        BY <3>2, <3>4, <1>2 DEF Follows
      <4> QED
        BY <2>1, <3>1, <3>4, <4>2, <4>3 DEF Follows
    <3> QED
      BY <3>3, <3>4
  <2>2. CASE m # w
    <3>1. m \in {HEADER} \cup S /\ m \in Nodes /\ m # x
      BY <1>1, NodeNames
    <3>2. g[m] = f[m] /\ Follows(r, m, f[m], S)
      BY <2>2, <3>1 DEF Without, Links
    <3>3. f[m] # x
      <4> SUFFICES ASSUME f[m] = x PROVE FALSE
        OBVIOUS
      <4>1. Follows(r, m, x, S) /\ Prior(r, m, x)
        BY <3>2, <1>1 DEF Follows
      <4>2. w \in S => ~Prior(r, m, w)
        BY <4>1, <1>1, <1>2, <1>3, Trichotomy, NodeNames DEF Follows, Prior
      <4>3. m \in S => ~Prior(r, w, m)
        BY <3>1, <4>1, <1>1, <1>2, Trichotomy, NodeNames DEF Follows, Prior
      <4> QED
        BY <2>2, <3>1, <4>2, <4>3 DEF Links, Prior
    <3> QED
      BY <3>2, <3>3 DEF Follows
  <2> QED
    BY <2>1, <2>2
<1> QED
  BY <1>1, <1>4, <1>5, <1>6 DEF Links

-----------------------------------------------------------------------------
(* Walks along a floor                                                     *)

\* Along the pointers f the rank goes down.
Ranks(f, rank, M) ==
  /\ M \in Nat
  /\ \A m \in Nodes : /\ rank[m] \in Nat /\ rank[m] < M
                      /\ f[m] # NIL => f[m] \in Nodes /\ rank[f[m]] < rank[m]

\* A rank that goes down with the order, for the pointers of any floor.
OrderRank(r, rank, M) ==
  /\ M \in Nat
  /\ \A m \in Nodes : rank[m] \in Nat /\ rank[m] < M
  /\ \A m \in Nodes, x \in Prices : Prior(r, m, x) => rank[x] < rank[m]

LEMMA OrderRankExists ==
  ASSUME NEW r \in BOOLEAN
  PROVE  \E rank, M : OrderRank(r, rank, M)
<1>1. PICK B \in Nat : \A p \in Prices : p <= B
  BY Bounded, TreeAssumption DEF HasBound
<1> DEFINE rank == [m \in Nodes |-> IF m = HEADER THEN B + 1 ELSE IF r THEN m ELSE B - m]
<1>2. \A m \in Nodes : rank[m] \in Nat /\ rank[m] < B + 2
  BY <1>1, NodeNames, TreeAssumption
<1>3. ASSUME NEW m \in Nodes, NEW x \in Prices, Prior(r, m, x)
      PROVE  rank[x] < rank[m]
  <2>1. x \in Nodes /\ x # HEADER /\ x \in Nat /\ x <= B /\ Eps \in Nat
    BY <1>1, NodeNames, TreeAssumption
  <2>2. x > 0
    BY TreeAssumption
  <2>3. rank[x] = IF r THEN x ELSE B - x
    BY <2>1
  <2>4. m = HEADER => rank[x] < rank[m]
    BY <2>1, <2>2, <2>3
  <2>5. ASSUME m # HEADER
        PROVE  rank[x] < rank[m]
    <3>1. m \in Prices /\ Ahead(r, m, x) /\ m \in Nat /\ m <= B
      BY <1>1, <1>3, <2>5, NodeNames, TreeAssumption DEF Prior
    <3>2. IF r THEN m > x + Eps ELSE x > m + Eps
      BY <3>1, AheadIs
    <3>3. rank[m] = IF r THEN m ELSE B - m
      BY <2>5
    <3> HIDE DEF rank
    <3> QED
      BY <2>1, <2>3, <3>1, <3>2, <3>3
  <2> QED
    BY <2>4, <2>5
<1> HIDE DEF rank
<1>4. OrderRank(r, rank, B + 2)
  BY <1>2, <1>3 DEF OrderRank
<1> QED
  BY <1>4

LEMMA OrderRanks ==
  ASSUME NEW r, NEW rank, NEW M, OrderRank(r, rank, M), NEW f, NEW S, Links(r, f, S)
  PROVE  Ranks(f, rank, M)
<1>1. ASSUME NEW m \in Nodes, f[m] # NIL
      PROVE  f[m] \in Prices /\ Prior(r, m, f[m])
  BY <1>1, NodeNames DEF Links, Follows
<1> QED
  BY <1>1, NodeNames DEF OrderRank, Ranks

LEMMA LinksRank ==
  ASSUME NEW r \in BOOLEAN, NEW f, NEW S, Links(r, f, S)
  PROVE  \E rank, M : Ranks(f, rank, M)
  BY OrderRankExists, OrderRanks

\* Where a walk that looks for p goes on.
Stops(r, f, p) == {m \in Nodes : f[m] = NIL \/ ~Ahead(r, f[m], p)}

LEMMA WalksExist ==
  ASSUME NEW r \in BOOLEAN, NEW f, NEW S, Links(r, f, S), NEW p
  PROVE  \E go : Ends(go, Nodes, Stops(r, f, p), [m \in Nodes |-> m], f)
<1>1. PICK rank, M : Ranks(f, rank, M)
  BY LinksRank
<1>2. Descends(Nodes, Stops(r, f, p), f, rank)
  BY <1>1 DEF Ranks, Descends, Stops
<1>3. M \in Nat /\ \A m \in Nodes : rank[m] < M
  BY <1>1 DEF Ranks
<1> QED
  BY <1>2, <1>3, EndsExist

\* From a node that comes before p the walk ends where the search leaves.
LEMMA WalksLeave ==
  ASSUME NEW r \in BOOLEAN, NEW f, NEW S, Links(r, f, S), NEW p \in Prices,
         NEW go, Ends(go, Nodes, Stops(r, f, p), [m \in Nodes |-> m], f),
         NEW n \in {HEADER} \cup S, Prior(r, n, p)
  PROVE  Leaves(r, f, S, go[n], p)
<1> DEFINE P == {m \in Nodes : m \in {HEADER} \cup S /\ Prior(r, m, p)
                                => Leaves(r, f, S, go[m], p)}
<1>1. PICK rank, M : Ranks(f, rank, M)
  BY LinksRank
<1>2. Descends(Nodes, Stops(r, f, p), f, rank)
  BY <1>1 DEF Ranks, Descends, Stops
<1>3. \A m \in Nodes : go[m] = IF m \in Stops(r, f, p) THEN m ELSE go[f[m]]
  BY DEF Ends
<1>4. ASSUME NEW m \in Nodes, m \in Stops(r, f, p) \/ f[m] \in P
      PROVE  m \in P
  <2> SUFFICES ASSUME m \in {HEADER} \cup S, Prior(r, m, p)
               PROVE  Leaves(r, f, S, go[m], p)
    OBVIOUS
  <2>1. CASE m \in Stops(r, f, p)
    BY <2>1, <1>3 DEF Leaves, Stops
  <2>2. CASE m \notin Stops(r, f, p)
    <3>1. f[m] # NIL /\ Ahead(r, f[m], p) /\ go[m] = go[f[m]]
      BY <2>2, <1>3 DEF Stops
    <3>2. f[m] \in {HEADER} \cup S /\ Prior(r, f[m], p) /\ f[m] \in P
      BY <2>2, <3>1, <1>4 DEF Links, Follows, Prior
    <3> QED
      BY <3>1, <3>2
  <2> QED
    BY <2>1, <2>2
<1> HIDE DEF P
<1>5. Nodes \subseteq P
  BY <1>2, <1>4, WalkInduction
<1>6. n \in Nodes
  BY NodeNames DEF Links
<1> QED
  BY <1>5, <1>6 DEF P

-----------------------------------------------------------------------------
(* The invariant                                                           *)

\* The pointers of floor i, and the nodes whose tower reaches it.
Column(i) == [n \in Nodes |-> forward[n][i]]
On(i) == {n \in Present : height[n] >= i}

\* Every floor links the nodes it has, no node is higher than "level", and
\* the highest floor is not empty; a node's level has the node's price.
TreeInv ==
  /\ TypeOK
  /\ \A i \in Floors : Links(reverse, Column(i), On(i))
  /\ \A n \in Present : height[n] <= level /\ Equal(value[n], n)
  /\ level > 0 => forward[HEADER][level] # NIL
  /\ size = Cardinality(Present)

LEMMA FloorsAre ==
  ASSUME TreeInv
  PROVE  /\ MaxLevel \in Nat /\ level \in Floors /\ 0 \in Floors
         /\ \A i \in 0 .. level : i \in Floors
         /\ On(0) = Present /\ \A i \in Floors : On(i) \subseteq Present
         /\ Present \subseteq Prices /\ IsFiniteSet(Present)
         /\ reverse \in BOOLEAN
         /\ \A i \in Floors : i > level => On(i) = {}
<1>1. MaxLevel \in Nat /\ level \in Floors /\ 0 \in Floors /\ reverse \in BOOLEAN
      /\ \A i \in 0 .. level : i \in Floors
  BY TreeAssumption DEF TreeInv, TypeOK, Floors
<1>2. Present \subseteq Prices /\ IsFiniteSet(Present)
  BY FS_Subset, TreeAssumption DEF Present
<1>3. \A n \in Prices : height[n] \in Floors
  BY NodeNames DEF TreeInv, TypeOK
<1>4. On(0) = Present /\ \A i \in Floors : On(i) \subseteq Present
  BY <1>2, <1>3 DEF On, Floors
<1>5. \A i \in Floors : i > level => On(i) = {}
  BY <1>1, <1>2, <1>3 DEF On, Floors, TreeInv
<1> QED
  BY <1>1, <1>2, <1>4, <1>5

\* The search leaves floor i at Update(p)[i].
LeafOf(i, w, p) == Leaves(reverse, Column(i), On(i), w, p)

LEMMA WalkLeaves ==
  ASSUME TreeInv, NEW p \in Prices, NEW i \in Floors, NEW n \in {HEADER} \cup On(i),
         Prior(reverse, n, p)
  PROVE  LeafOf(i, Walk(n, i, p), p)
<1> DEFINE f == Column(i)
           st == Stops(reverse, f, p)
           Goes(go) == go = [m \in Nodes |->
              IF forward[m][i] # NIL /\ compare(forward[m][i], p) < 0
              THEN go[forward[m][i]] ELSE m]
<1>1. Links(reverse, f, On(i)) /\ reverse \in BOOLEAN /\ n \in Nodes
  BY FloorsAre, NodeNames DEF TreeInv, Links
<1>2. \A m \in Nodes : f[m] = forward[m][i] /\ f[m] \in Prices \cup {NIL}
  BY <1>1 DEF Column, Links
<1>3. \A m \in Nodes : (forward[m][i] # NIL /\ compare(forward[m][i], p) < 0) <=> m \notin st
  BY <1>1, <1>2, CompareIs, NodeNames DEF Stops
<1>4. \A go : Goes(go) <=> Ends(go, Nodes, st, [m \in Nodes |-> m], f)
  <2> SUFFICES ASSUME NEW go PROVE Goes(go) <=> Ends(go, Nodes, st, [m \in Nodes |-> m], f)
    OBVIOUS
  <2>1. [m \in Nodes |-> IF forward[m][i] # NIL /\ compare(forward[m][i], p) < 0
              THEN go[forward[m][i]] ELSE m]
        = [m \in Nodes |-> IF m \in st THEN m ELSE go[f[m]]]
    <3> HIDE DEF f, st
    <3> QED
      BY <1>2, <1>3
  <2>2. [m \in Nodes |-> IF m \in st THEN m ELSE go[f[m]]]
        = [m \in Nodes |-> IF m \in st THEN [k \in Nodes |-> k][m] ELSE go[f[m]]]
    OBVIOUS
  <2> QED
    BY <2>1, <2>2 DEF Ends
<1>5. \E go : Goes(go)
  BY <1>1, <1>4, WalksExist
<1> DEFINE go == CHOOSE g : Goes(g)
<1>6. Goes(go)
  BY <1>5
<1>7. Walk(n, i, p) = go[n]
  BY DEF Walk
<1> HIDE DEF go, Goes
<1>8. Ends(go, Nodes, st, [m \in Nodes |-> m], f)
  BY <1>4, <1>6
<1>9. Leaves(reverse, f, On(i), go[n], p)
  BY <1>1, <1>8, WalksLeave
<1> QED
  BY <1>7, <1>9 DEF LeafOf

LEMMA LeafFacts ==
  ASSUME TreeInv, NEW p \in Prices, NEW i \in Floors, NEW w, LeafOf(i, w, p)
  PROVE  /\ w \in {HEADER} \cup On(i) /\ w \in Nodes /\ Prior(reverse, w, p)
         /\ Column(i)[w] = forward[w][i]
BY FloorsAre, NodeNames DEF LeafOf, Leaves, Column

LEMMA UpdateLeaves ==
  ASSUME TreeInv, NEW p \in Prices
  PROVE  \A i \in 0 .. level : LeafOf(i, Update(p)[i], p)
<1> DEFINE W(i) == Walk(HEADER, i, p)
           Climbs(a) == a = [i \in 0 .. level |->
                               Walk(IF i = level THEN HEADER ELSE a[i + 1], i, p)]
<1>1. level \in Nat /\ \A i \in 0 .. level : i \in Floors
  BY FloorsAre DEF Floors
<1>2. \A i \in 0 .. level : LeafOf(i, W(i), p)
  BY <1>1, WalkLeaves DEF Prior
<1>3. ASSUME NEW i \in 0 .. level, NEW w, i # level, LeafOf(i + 1, w, p)
      PROVE  LeafOf(i, Walk(w, i, p), p)
  <2>1. i + 1 \in 0 .. level /\ i + 1 \in Floors /\ i \in Floors
    BY <1>1, <1>3
  <2>2. w \in {HEADER} \cup On(i + 1) /\ Prior(reverse, w, p)
    BY <1>3, <2>1, LeafFacts
  <2>3. On(i + 1) \subseteq On(i)
    <3>1. \A n \in Present : height[n] \in Int
      BY FloorsAre, NodeNames DEF TreeInv, TypeOK, Floors
    <3> QED
      BY <3>1 DEF On
  <2> QED
    BY <2>1, <2>2, <2>3, WalkLeaves
<1>4. \A i \in 0 .. level : \A u, w : LeafOf(i, u, p) /\ LeafOf(i, w, p) => u = w
  BY <1>1, LeafUnique, FloorsAre DEF LeafOf, TreeInv
<1>5. \E a : Climbs(a)
  <2> DEFINE g == [i \in 0 .. level |-> W(i)]
  <2>1. ASSUME NEW i \in 0 .. level, i # level
        PROVE  W(i) = Walk(W(i + 1), i, p)
    <3>1. i + 1 \in 0 .. level
      BY <1>1, <2>1
    <3> QED
      BY <3>1, <1>2, <1>3, <1>4, <2>1
  <2> HIDE DEF W
  <2>2. ASSUME NEW i \in 0 .. level
        PROVE  W(i) = Walk(IF i = level THEN HEADER ELSE g[i + 1], i, p)
    <3>1. i # level => i + 1 \in 0 .. level
      BY <1>1
    <3>2. i # level => g[i + 1] = W(i + 1)
      BY <3>1
    <3>3. i = level => W(i) = Walk(HEADER, i, p)
      BY DEF W
    <3> QED
      BY <2>1, <3>2, <3>3
  <2>3. Climbs(g)
    BY <2>2
  <2> QED
    BY <2>3
<1> DEFINE at == CHOOSE a : Climbs(a)
<1>6. Climbs(at)
  BY <1>5
<1>7. Update(p) = at
  BY DEF Update
<1> HIDE DEF at
<1>8. \A i \in 0 .. level : at[i] = Walk(IF i = level THEN HEADER ELSE at[i + 1], i, p)
  BY <1>6
<1> HIDE DEF Climbs
<1> DEFINE T == {k \in 0 .. level : LeafOf(level - k, at[level - k], p)}
<1>9. 0 \in T
  BY <1>1, <1>2, <1>8
<1>10. ASSUME NEW k \in 0 .. level - 1, k \in T
       PROVE  k + 1 \in T
  <2> DEFINE i == level - (k + 1)
  <2>1. i \in 0 .. level /\ i # level /\ i + 1 = level - k
    BY <1>1
  <2>2. LeafOf(i + 1, at[i + 1], p)
    BY <1>10, <2>1
  <2>3. at[i] = Walk(at[i + 1], i, p)
    BY <1>8, <2>1
  <2>4. LeafOf(i, at[i], p)
    BY <1>3, <2>1, <2>2, <2>3
  <2> QED
    BY <1>1, <2>4
<1>11. 0 .. level \subseteq T
  <2> HIDE DEF T
  <2> QED
    BY <1>1, <1>9, <1>10, UpTo
<1> SUFFICES ASSUME NEW i \in 0 .. level PROVE LeafOf(i, at[i], p)
  BY <1>7
<1>12. level - i \in T /\ level - (level - i) = i
  BY <1>1, <1>11
<1> QED
  BY <1>12

\* x is the first node that does not come before p, or NIL.
FirstFrom(x, p) ==
  IF x = NIL THEN \A n \in Present : Ahead(reverse, n, p)
  ELSE /\ x \in Present /\ ~Ahead(reverse, x, p)
       /\ \A n \in Present : Ahead(reverse, n, p) \/ n = x \/ Ahead(reverse, x, n)

LEMMA FoundIs ==
  ASSUME TreeInv, NEW p \in Prices
  PROVE  /\ FirstFrom(Found(p), p)
         /\ IsThere(p) <=> Found(p) # NIL /\ Equal(Found(p), p)
         /\ IsThere(p) => Found(p) \in Present /\ Found(p) \in Prices
         /\ ~IsThere(p) => \A n \in Present : ~Equal(n, p)
<1> DEFINE x == Found(p)
           w == Update(p)[0]
           f == Column(0)
<1>1. LeafOf(0, w, p) /\ 0 \in Floors
  BY UpdateLeaves, FloorsAre DEF Floors
<1>2. x = f[w] /\ Links(reverse, f, Present) /\ Leaves(reverse, f, Present, w, p)
  BY <1>1, LeafFacts, FloorsAre DEF LeafOf, Found, TreeInv
<1>3. Present \subseteq Prices /\ reverse \in BOOLEAN
  BY FloorsAre
<1>4. ASSUME NEW n \in Present, ~Prior(reverse, w, n)
      PROVE  Ahead(reverse, n, p)
  <2>1. w \in Present /\ (n = w \/ Ahead(reverse, n, w)) /\ Ahead(reverse, w, p)
    BY <1>2, <1>3, <1>4, NodeNames DEF Leaves, Prior, Links
  <2> QED
    BY <2>1, <1>3, Transitive
<1>5. Follows(reverse, w, x, Present)
  BY <1>2 DEF Links, Leaves
<1> HIDE DEF w, f
<1>6. FirstFrom(x, p)
  <2>1. CASE x = NIL
    BY <1>4, <1>5, <2>1 DEF Follows, FirstFrom
  <2>2. CASE x # NIL
    <3>1. x \in Present /\ ~Ahead(reverse, x, p)
      BY <1>2, <1>5, <2>2 DEF Follows, Leaves
    <3>2. \A n \in Present : Ahead(reverse, n, p) \/ n = x \/ Ahead(reverse, x, n)
      BY <1>3, <1>4, <1>5, <2>2, <3>1, NodeNames DEF Follows, Prior
    <3> QED
      BY <2>2, <3>1, <3>2 DEF FirstFrom
  <2> QED
    BY <2>1, <2>2
<1>7. IsThere(p) <=> x # NIL /\ Equal(x, p)
  <2>1. x # NIL => x \in Nodes /\ p \in Nodes
    BY <1>3, <1>6, NodeNames DEF FirstFrom
  <2> QED
    BY <2>1, <1>3, CompareIs DEF IsThere
<1>8. ASSUME ~IsThere(p), NEW n \in Present
      PROVE  ~Equal(n, p)
  <2>1. ~Ahead(reverse, n, p) => x # NIL /\ x \in Present /\ ~Ahead(reverse, x, p)
                           /\ ~Equal(x, p) /\ (n = x \/ Ahead(reverse, x, n))
    BY <1>6, <1>7, <1>8 DEF FirstFrom
  <2> HIDE DEF x
  <2>2. ~Ahead(reverse, n, p) => Ahead(reverse, p, x)
    BY <2>1, <1>3, Trichotomy
  <2>3. ~Ahead(reverse, n, p) => Ahead(reverse, p, n)
    BY <2>1, <2>2, <1>3, Transitive
  <2> QED
    BY <2>3, <1>3, Trichotomy
<1> QED
  BY <1>3, <1>6, <1>7, <1>8 DEF FirstFrom

\* On each floor its tower reaches, the node found for p follows the place where
\* the search left the floor.
LEMMA FoundFollows ==
  ASSUME TreeInv, NEW p \in Prices, IsThere(p), NEW i \in 0 .. level
  PROVE  /\ Update(p)[i] \in {HEADER} \cup On(i) /\ Update(p)[i] \in Nodes
         /\ forward[Update(p)[i]][i] = Found(p) <=> Found(p) \in On(i)
<1> DEFINE x == Found(p)
           w == Update(p)[i]
           f == Column(i)
<1>1. LeafOf(i, w, p) /\ i \in Floors
  BY UpdateLeaves, FloorsAre DEF Floors
<1>2. /\ f[w] = forward[w][i] /\ w \in Nodes /\ w \in {HEADER} \cup On(i)
      /\ Links(reverse, f, On(i)) /\ Leaves(reverse, f, On(i), w, p)
  BY <1>1, LeafFacts DEF LeafOf, TreeInv
<1>3. On(i) \subseteq Prices /\ reverse \in BOOLEAN
  BY <1>1, FloorsAre
<1>4. x \in Prices /\ x # NIL /\ Equal(x, p)
  BY FoundIs
<1>5. Follows(reverse, w, f[w], On(i)) /\ Prior(reverse, w, p)
  BY <1>2 DEF Links, Leaves
<1> HIDE DEF w, f, x
<1>6. f[w] = x => x \in On(i)
  BY <1>4, <1>5 DEF Follows
<1>7. ASSUME x \in On(i)
      PROVE  f[w] = x
  <2>1. Equal(p, x) /\ Prior(reverse, w, x)
    BY <1>2, <1>3, <1>4, <1>5, Trichotomy, Transitive, NodeNames DEF Prior
  <2>2. f[w] # NIL /\ f[w] \in Prices /\ (x = f[w] \/ Ahead(reverse, f[w], x))
    BY <1>3, <1>5, <1>7, <2>1, NodeNames DEF Follows, Prior
  <2>3. ~Ahead(reverse, f[w], p)
    BY <1>2, <2>2 DEF Leaves
  <2> QED
    BY <2>2, <2>3, <1>3, <1>4, Transitive
<1> QED
  BY <1>2, <1>6, <1>7 DEF x, w

-----------------------------------------------------------------------------
(* Insert                                                                  *)

\* The size fits its type: only prices are in the tree.
LEMMA SizeType ==
  ASSUME NEW S, S \subseteq Prices
  PROVE  IsFiniteSet(S) /\ Cardinality(S) \in 0 .. Cardinality(Prices)
<1>1. IsFiniteSet(Prices)
  BY TreeAssumption
<1>2. IsFiniteSet(S) /\ Cardinality(S) <= Cardinality(Prices)
  BY <1>1, FS_Subset
<1> QED
  BY <1>1, <1>2, FS_CardinalityType

LEMMA ReplaceStep ==
  ASSUME TreeInv, NEW p \in Prices, IsThere(p), UNCHANGED reverse,
         value' = [value EXCEPT ![Found(p)] = p], UNCHANGED <<forward, height, level, size>>
  PROVE  TreeInv' /\ Present' = Present
<1> DEFINE x == Found(p)
<1>1. x \in Present /\ x \in Prices /\ Equal(p, x)
  BY FoundIs, Trichotomy, FloorsAre
<1> HIDE DEF x
<1>2. \A n \in Nodes : value'[n] = IF n = x THEN p ELSE value[n]
  BY <1>1, NodeNames DEF TreeInv, TypeOK, x
<1>3. Present' = Present
  BY <1>1, <1>2, NodeNames DEF Present
<1>4. \A i : On(i)' = On(i) /\ Column(i)' = Column(i)
  BY <1>3 DEF On, Column
<1>5. TypeOK'
  BY <1>1, NodeNames DEF TypeOK, TreeInv, x
<1>6. \A n \in Present' : height'[n] <= level' /\ Equal(value'[n], n)
  BY <1>1, <1>2, <1>3, FloorsAre, NodeNames DEF TreeInv
<1>7. \A i \in Floors : Links(reverse', Column(i)', On(i)')
  BY <1>4 DEF TreeInv
<1> QED
  BY <1>3, <1>5, <1>6, <1>7 DEF TreeInv

LEMMA InsertStep ==
  ASSUME TreeInv, NEW p \in Prices, NEW h \in Towers, ~IsThere(p), InsertNode(p, h),
         UNCHANGED reverse
  PROVE  /\ TreeInv' /\ p \notin Present /\ Present' = Present \cup {p}
         /\ value' = [value EXCEPT ![p] = p]
<1> DEFINE before == [i \in 0 .. h |-> IF i <= level THEN Update(p)[i] ELSE HEADER]
<1>0. /\ h \in Nat /\ h \in Floors /\ level \in Nat /\ level \in Floors
      /\ \A i \in 0 .. h : i \in Floors
      /\ reverse \in BOOLEAN /\ Present \subseteq Prices
  BY FloorsAre DEF Towers, Floors
<1>1. ASSUME NEW i \in 0 .. h
      PROVE  LeafOf(i, before[i], p)
  <2>1. CASE i <= level
    BY <2>1, <1>0, UpdateLeaves
  <2>2. CASE ~(i <= level)
    <3>0. i \in Floors /\ i > level /\ before[i] = HEADER
      BY <2>2, <1>0
    <3>1. On(i) = {} /\ Links(reverse, Column(i), On(i))
      BY <3>0, FloorsAre DEF TreeInv
    <3>2. Column(i)[HEADER] = NIL
      BY <3>1, NodeNames DEF Links, Follows
    <3> QED
      BY <3>0, <3>1, <3>2 DEF LeafOf, Leaves, Prior
  <2> QED
    BY <2>1, <2>2
<1>2. \A n \in Present : ~Equal(n, p)
  BY FoundIs
<1>3. p \notin Present
  BY <1>2, Irreflexive
<1>4. forward' = [n \in Nodes |-> [i \in Floors |->
           CASE n = p /\ i <= h                 -> forward[before[i]][i]
             [] n # p /\ i <= h /\ n = before[i] -> p
             [] OTHER                           -> forward[n][i]]]
  BY DEF InsertNode
<1>5. \A i \in 0 .. h : /\ before[i] \in Nodes /\ before[i] # p
                        /\ Column(i)[before[i]] = forward[before[i]][i]
  BY <1>0, <1>1, <1>3, LeafFacts, FloorsAre, NodeNames
<1>6. /\ height' = [height EXCEPT ![p] = h] /\ value' = [value EXCEPT ![p] = p]
      /\ level' = (IF h > level THEN h ELSE level) /\ size' = size + 1
  BY DEF InsertNode
<1>7. \A n \in Nodes : /\ height'[n] = IF n = p THEN h ELSE height[n]
                       /\ value'[n] = IF n = p THEN p ELSE value[n]
  BY <1>6, NodeNames DEF TreeInv, TypeOK
<1>8. Present' = Present \cup {p}
  BY <1>7, NodeNames DEF Present
<1>9. \A i \in Floors : On(i)' = IF i <= h THEN On(i) \cup {p} ELSE On(i)
  BY <1>0, <1>3, <1>7, <1>8, NodeNames DEF On, Floors
<1>10. \A i \in Floors : Column(i)' = IF i <= h THEN With(Column(i), before[i], p)
                                      ELSE Column(i)
  <2> SUFFICES ASSUME NEW i \in Floors
               PROVE  Column(i)' = IF i <= h THEN With(Column(i), before[i], p) ELSE Column(i)
    OBVIOUS
  <2>1. Column(i)' = [n \in Nodes |-> forward'[n][i]]
    BY DEF Column
  <2>2. CASE i <= h
    <3>1. i \in 0 .. h
      BY <2>2, <1>0 DEF Floors
    <3> HIDE DEF before
    <3>2. \A n \in Nodes : forward'[n][i] = IF n = p THEN Column(i)[before[i]]
                               ELSE IF n = before[i] THEN p ELSE Column(i)[n]
      BY <3>1, <2>2, <1>4, <1>5 DEF Column
    <3> QED
      BY <2>1, <2>2, <3>2 DEF With
  <2>3. CASE ~(i <= h)
    <3> HIDE DEF before
    <3>1. \A n \in Nodes : forward'[n][i] = forward[n][i]
      BY <2>3, <1>4
    <3> QED
      BY <2>1, <2>3, <3>1 DEF Column
  <2> QED
    BY <2>2, <2>3
<1>11. \A i \in Floors : Links(reverse', Column(i)', On(i)')
  <2> SUFFICES ASSUME NEW i \in Floors PROVE Links(reverse', Column(i)', On(i)')
    OBVIOUS
  <2> HIDE DEF before
  <2>1. Links(reverse, Column(i), On(i)) /\ reverse' = reverse
    BY DEF TreeInv
  <2>2. CASE i <= h
    <3>1. i \in 0 .. h
      BY <2>2, <1>0 DEF Floors
    <3>2. \A n \in On(i) : ~Equal(n, p)
      BY <1>2, FloorsAre
    <3>3. Leaves(reverse, Column(i), On(i), before[i], p)
      BY <1>1, <3>1 DEF LeafOf
    <3>4. Links(reverse, With(Column(i), before[i], p), On(i) \cup {p})
      BY <1>0, <2>1, <3>2, <3>3, InsertLinks
    <3> QED
      BY <2>1, <2>2, <3>4, <1>9, <1>10
  <2>3. CASE ~(i <= h)
    BY <2>1, <2>3, <1>9, <1>10
  <2> QED
    BY <2>2, <2>3
<1> HIDE DEF before
<1>12. \A n \in Present' : height'[n] <= level' /\ Equal(value'[n], n)
  <2> SUFFICES ASSUME NEW n \in Present' PROVE height'[n] <= level' /\ Equal(value'[n], n)
    OBVIOUS
  <2>1. CASE n = p
    BY <2>1, <1>0, <1>6, <1>7, Irreflexive, NodeNames
  <2>2. CASE n # p
    <3>1. n \in Present /\ height'[n] = height[n] /\ value'[n] = value[n]
      BY <2>2, <1>0, <1>7, <1>8, NodeNames
    <3>2. height[n] <= level /\ Equal(value[n], n) /\ height[n] \in Floors
      BY <3>1, <1>0, NodeNames DEF TreeInv, TypeOK
    <3> QED
      BY <3>1, <3>2, <1>0, <1>6 DEF Floors
  <2> QED
    BY <2>1, <2>2
<1>13. level' > 0 => forward'[HEADER][level'] # NIL
  <2> SUFFICES ASSUME level' > 0 PROVE forward'[HEADER][level'] # NIL
    OBVIOUS
  <2>0. HEADER \in Nodes /\ p # HEADER /\ p # NIL
    BY NodeNames
  <2>1. CASE h > level
    <3>1. level' = h /\ before[h] = HEADER
      BY <2>1, <1>0, <1>6 DEF before
    <3> QED
      BY <2>0, <3>1, <1>0, <1>4
  <2>2. CASE ~(h > level)
    <3>1. level' = level /\ forward[HEADER][level] # NIL
      BY <2>2, <1>6 DEF TreeInv
    <3> QED
      BY <2>0, <3>1, <1>0, <1>4
  <2> QED
    BY <2>1, <2>2
<1>14. size' = Cardinality(Present') /\ size' \in 0 .. Cardinality(Prices)
  <2>1. Cardinality(Present \cup {p}) = Cardinality(Present) + 1
    BY <1>3, FloorsAre, FS_AddElement
  <2>2. size' = Cardinality(Present')
    BY <2>1, <1>6, <1>8 DEF TreeInv
  <2> QED
    BY <2>2, <1>0, <1>8, SizeType
<1>15. TypeOK'
  <2>1. forward' \in [Nodes -> [Floors -> Prices \cup {NIL}]]
    <3>1. \A i \in Floors : i <= h => i \in 0 .. h
      BY <1>0 DEF Floors
    <3>2. \A i \in Floors : i <= h => forward[before[i]][i] \in Prices \cup {NIL}
      BY <1>5, <3>1 DEF TreeInv, TypeOK
    <3>3. \A n \in Nodes : \A i \in Floors : forward[n][i] \in Prices \cup {NIL}
      BY DEF TreeInv, TypeOK
    <3> QED
      BY <3>2, <3>3, <1>4
  <2>2. height' \in [Nodes -> Floors] /\ value' \in [Nodes -> Prices \cup {NIL}]
    BY <1>0, <1>6, NodeNames DEF TreeInv, TypeOK
  <2>3. level' \in Floors /\ reverse' \in BOOLEAN
    BY <1>0, <1>6
  <2> QED
    BY <2>1, <2>2, <2>3, <1>14 DEF TypeOK
<1> QED
  BY <1>3, <1>6, <1>8, <1>11, <1>12, <1>13, <1>14, <1>15 DEF TreeInv

-----------------------------------------------------------------------------
(* Remove, Clear and the invariant                                         *)

\* There is a highest floor that has a node, or floor 0.
LEMMA HighestExists ==
  ASSUME NEW l \in Nat, NEW g
  PROVE  \E i \in 0 .. l : (i = 0 \/ g[i] # NIL) /\ \A j \in i + 1 .. l : g[j] = NIL
<1> DEFINE Highest(i, k) == (i = 0 \/ g[i] # NIL) /\ \A j \in i + 1 .. k : g[j] = NIL
           T == {k \in Nat : \E i \in 0 .. k : Highest(i, k)}
<1>1. 0 \in T
  <2>1. Highest(0, 0)
    OBVIOUS
  <2> HIDE DEF Highest
  <2> QED
    BY <2>1
<1>2. ASSUME NEW k \in Nat, k \in T
      PROVE  k + 1 \in T
  <2>1. PICK i \in 0 .. k : Highest(i, k)
    BY <1>2
  <2>2. CASE g[k + 1] = NIL
    <3>1. Highest(i, k + 1) /\ i \in 0 .. k + 1
      BY <2>1, <2>2
    <3> HIDE DEF Highest
    <3> QED
      BY <3>1
  <2>3. CASE g[k + 1] # NIL
    <3>1. Highest(k + 1, k + 1)
      BY <2>3
    <3> HIDE DEF Highest
    <3> QED
      BY <3>1
  <2> QED
    BY <2>2, <2>3
<1> HIDE DEF T
<1>3. l \in T
  BY <1>1, <1>2, AllNumbers
<1> QED
  BY <1>3 DEF T

LEMMA RemoveStep ==
  ASSUME TreeInv, NEW p \in Prices, Remove(p)
  PROVE  /\ TreeInv' /\ Present' = Present \ {Found(p)}
         /\ value' = [value EXCEPT ![Found(p)] = NIL]
<1> DEFINE x == Found(p)
           w == Update(p)
<1>0. /\ level \in Nat /\ level \in Floors /\ reverse \in BOOLEAN /\ 0 \in Floors
      /\ \A i \in 0 .. level : i \in Floors
      /\ Present \subseteq Prices /\ HEADER \in Nodes
  BY FloorsAre, NodeNames DEF Floors
<1>1. x \in Present /\ x \in Prices /\ x \in Nodes /\ x # HEADER /\ x # NIL
  BY FoundIs, NodeNames DEF Remove
<1>2. \A i \in 0 .. level : /\ w[i] \in {HEADER} \cup On(i) /\ w[i] \in Nodes
                            /\ forward[w[i]][i] = x <=> x \in On(i)
  BY FoundFollows DEF Remove
<1>3. /\ forward' = [Spliced(p) EXCEPT ![x] = [i \in Floors |-> NIL]]
      /\ height' = [height EXCEPT ![x] = 0] /\ value' = [value EXCEPT ![x] = NIL]
      /\ level' = Lowered(Spliced(p)) /\ size' = size - 1 /\ reverse' = reverse
  BY DEF Remove
<1>4. \A n \in Nodes : \A i \in Floors :
        Spliced(p)[n][i] = IF i <= level /\ n = w[i] /\ forward[n][i] = x
                           THEN forward[x][i] ELSE forward[n][i]
  BY DEF Spliced
<1>5. Spliced(p) = [n \in Nodes |-> [i \in Floors |-> Spliced(p)[n][i]]]
  BY DEF Spliced
<1> HIDE DEF x, w
<1>6. \A n \in Nodes : \A i \in Floors :
        forward'[n][i] = IF n = x THEN NIL ELSE Spliced(p)[n][i]
  BY <1>1, <1>3, <1>5
<1>7. \A n \in Nodes : /\ height'[n] = IF n = x THEN 0 ELSE height[n]
                       /\ value'[n] = IF n = x THEN NIL ELSE value[n]
  BY <1>1, <1>3 DEF TreeInv, TypeOK
<1>8. Present' = Present \ {x}
  BY <1>7, NodeNames DEF Present
<1>9. \A i \in Floors : On(i)' = On(i) \ {x}
  BY <1>7, <1>8, <1>0, NodeNames DEF On
<1>10. \A i \in Floors : x \in On(i) => i \in 0 .. level
  BY <1>0, <1>1 DEF On, TreeInv, TypeOK, Floors
<1>11. \A i \in Floors : Links(reverse', Column(i)', On(i)')
  <2> SUFFICES ASSUME NEW i \in Floors PROVE Links(reverse', Column(i)', On(i)')
    OBVIOUS
  <2>1. Links(reverse, Column(i), On(i)) /\ reverse' = reverse
    BY <1>3 DEF TreeInv
  <2>2. Column(i)' = [n \in Nodes |-> forward'[n][i]]
    BY DEF Column
  <2>3. CASE x \in On(i)
    <3>1. i \in 0 .. level /\ w[i] \in {HEADER} \cup On(i) /\ Column(i)[w[i]] = x
      BY <2>3, <1>2, <1>10 DEF Column
    <3>2. \A n \in Nodes : forward'[n][i] = IF n = x THEN NIL
              ELSE IF n = w[i] THEN Column(i)[x] ELSE Column(i)[n]
      BY <2>3, <3>1, <1>1, <1>2, <1>4, <1>6 DEF Column
    <3>3. Column(i)' = Without(Column(i), w[i], x)
      BY <2>2, <3>2 DEF Without
    <3> QED
      BY <2>1, <2>3, <3>1, <3>3, <1>0, <1>9, RemoveLinks
  <2>4. CASE x \notin On(i)
    <3>1. Column(i)[x] = NIL
      BY <2>1, <2>4, <1>1 DEF Links
    <3>2. i <= level => i \in 0 .. level
      BY DEF Floors
    <3>3. \A n \in Nodes : forward'[n][i] = forward[n][i]
      BY <2>4, <3>1, <3>2, <1>1, <1>2, <1>4, <1>6 DEF Column
    <3>4. Column(i)' = Column(i) /\ On(i)' = On(i)
      BY <2>2, <2>4, <3>3, <1>9 DEF Column
    <3> QED
      BY <2>1, <3>4
  <2> QED
    BY <2>3, <2>4
<1>12. /\ level' \in 0 .. level /\ (level' = 0 \/ forward'[HEADER][level'] # NIL)
       /\ \A j \in level' + 1 .. level : forward'[HEADER][j] = NIL
  <2> DEFINE f == Spliced(p)
  <2>1. \E i \in 0 .. level : (i = 0 \/ f[HEADER][i] # NIL)
                              /\ \A j \in i + 1 .. level : f[HEADER][j] = NIL
    BY <1>0, HighestExists
  <2>2. /\ level' \in 0 .. level /\ (level' = 0 \/ f[HEADER][level'] # NIL)
        /\ \A j \in level' + 1 .. level : f[HEADER][j] = NIL
    <3> HIDE DEF f
    <3> QED
      BY <1>3, <2>1 DEF Lowered, f
  <2>3. \A j \in 0 .. level : forward'[HEADER][j] = f[HEADER][j]
    BY <1>0, <1>1, <1>6
  <2>4. \A j \in level' + 1 .. level : j \in 0 .. level
    <3>1. \A l \in Nat : \A k \in 0 .. l : \A j \in k + 1 .. l : j \in 0 .. l
      OBVIOUS
    <3>2. level \in Nat /\ level' \in 0 .. level
      BY <1>0, <2>2
    <3> HIDE DEF f
    <3> QED
      BY <3>1, <3>2
  <2> HIDE DEF f
  <2> QED
    BY <2>2, <2>3, <2>4
<1>13. \A n \in Present' : height'[n] <= level' /\ Equal(value'[n], n)
  <2> SUFFICES ASSUME NEW n \in Present' PROVE height'[n] <= level' /\ Equal(value'[n], n)
    OBVIOUS
  <2>1. n \in Present /\ n # x /\ n \in Prices /\ n \in Nodes
    BY <1>0, <1>8, NodeNames
  <2>2. /\ height'[n] = height[n] /\ value'[n] = value[n] /\ height[n] <= level
        /\ Equal(value[n], n)
    BY <2>1, <1>7 DEF TreeInv
  <2>9. height[n] \in Floors
    BY <2>1 DEF TreeInv, TypeOK
  <2>10. PICK i \in Floors : i = height[n]
    BY <2>9
  <2>3. i \in 0 .. level
    BY <2>2, <2>10, <1>0 DEF Floors
  <2>4. n \in On(i)'
    <3>1. n \in On(i)
      BY <2>1, <2>10 DEF On, Floors
    <3> QED
      BY <2>1, <3>1, <1>9
  <2>5. Follows(reverse', HEADER, Column(i)'[HEADER], On(i)')
    BY <2>3, <1>11 DEF Links
  <2>6. Column(i)'[HEADER] = forward'[HEADER][i]
    BY <1>0 DEF Column
  <2>7. forward'[HEADER][i] # NIL
    BY <2>4, <2>5, <2>6 DEF Follows, Prior
  <2>8. i <= level'
    <3>1. level' \in Int /\ i \in Int /\ level \in Int /\ i <= level
      BY <2>3, <1>0, <1>12
    <3>2. \A a, b, c \in Int : a <= b /\ a \notin c + 1 .. b => a <= c
      OBVIOUS
    <3>3. i \notin level' + 1 .. level
      BY <2>7, <1>12
    <3> QED
      BY <3>1, <3>2, <3>3
  <2> QED
    BY <2>2, <2>8, <2>10
<1>14. size' = Cardinality(Present') /\ size' \in 0 .. Cardinality(Prices)
  <2>1. Cardinality(Present \ {x}) = Cardinality(Present) - 1
    BY <1>1, FloorsAre, FS_RemoveElement
  <2>2. size' = Cardinality(Present')
    BY <2>1, <1>3, <1>8 DEF TreeInv
  <2>3. Present \ {x} \subseteq Prices
    BY <1>0
  <2> QED
    BY <2>2, <2>3, <1>8, SizeType
<1>15. TypeOK'
  <2>1. forward' \in [Nodes -> [Floors -> Prices \cup {NIL}]]
    <3>1. \A n \in Nodes : \A i \in Floors : Spliced(p)[n][i] \in Prices \cup {NIL}
      BY <1>1, <1>4 DEF TreeInv, TypeOK
    <3>2. Spliced(p) \in [Nodes -> [Floors -> Prices \cup {NIL}]]
      <4>1. [n \in Nodes |-> [i \in Floors |-> Spliced(p)[n][i]]]
              \in [Nodes -> [Floors -> Prices \cup {NIL}]]
        BY <3>1
      <4> QED
        BY <4>1, <1>5
    <3> QED
      BY <3>2, <1>3
  <2>2. height' \in [Nodes -> Floors] /\ value' \in [Nodes -> Prices \cup {NIL}]
    BY <1>0, <1>3 DEF TreeInv, TypeOK
  <2>3. level' \in Floors /\ reverse' \in BOOLEAN
    BY <1>0, <1>3, <1>12
  <2> QED
    BY <2>1, <2>2, <2>3, <1>14 DEF TypeOK
<1>16. level' > 0 => forward'[HEADER][level'] # NIL
  BY <1>12
<1>17. TreeInv'
  BY <1>11, <1>13, <1>14, <1>15, <1>16 DEF TreeInv
<1> QED
  BY <1>3, <1>8, <1>17 DEF x

LEMMA EmptyLinks ==
  ASSUME NEW r, NEW f, f = [n \in Nodes |-> NIL]
  PROVE  Links(r, f, {})
  BY NodeNames DEF Links, Follows

LEMMA EmptyTree ==
  ASSUME reverse \in BOOLEAN, Empty(forward, height, value, level, size)
  PROVE  TreeInv /\ Present = {}
<1>1. Present = {} /\ \A i \in Floors : On(i) = {}
  BY NodeNames DEF Empty, Present, On
<1>2. \A i \in Floors : Column(i) = [n \in Nodes |-> NIL]
  BY DEF Empty, Column
<1>3. \A i \in Floors : Links(reverse, Column(i), On(i))
  BY <1>1, <1>2, EmptyLinks
<1>4. size = Cardinality(Present) /\ size \in 0 .. Cardinality(Prices)
  BY <1>1, SizeType, FS_EmptySet DEF Empty
<1>5. TypeOK
  BY <1>4, TreeAssumption DEF TypeOK, Empty, Floors
<1> QED
  BY <1>1, <1>3, <1>4, <1>5 DEF TreeInv, Empty

LEMMA ClearStep ==
  ASSUME TreeInv, Clear
  PROVE  TreeInv' /\ Present' = {}
<1>0. reverse' \in BOOLEAN
  BY FloorsAre DEF Clear
<1>1. Present' = {} /\ \A i \in Floors : On(i)' = {}
  BY NodeNames DEF Clear, Empty, Present, On
<1>2. \A i \in Floors : Column(i)' = [n \in Nodes |-> NIL]
  BY DEF Clear, Empty, Column
<1>3. \A i \in Floors : Links(reverse', Column(i)', On(i)')
  BY <1>1, <1>2, EmptyLinks
<1>4. size' = Cardinality(Present') /\ size' \in 0 .. Cardinality(Prices)
  BY <1>1, SizeType, FS_EmptySet DEF Clear, Empty
<1>5. TypeOK'
  BY <1>0, <1>4, TreeAssumption DEF TypeOK, Clear, Empty, Floors
<1> QED
  BY <1>1, <1>3, <1>4, <1>5 DEF TreeInv, Clear, Empty

LEMMA TreeInvInit == Init => TreeInv
  BY EmptyTree DEF Init

LEMMA TreeInvNext == TreeInv /\ [Next]_vars => TreeInv'
<1> SUFFICES ASSUME TreeInv, [Next]_vars PROVE TreeInv'
  OBVIOUS
<1>1. ASSUME NEW p \in Prices, Remove(p)
      PROVE  TreeInv'
  BY <1>1, RemoveStep
<1>2. ASSUME NEW p \in Prices, NEW h \in Towers, Insert(p, h)
      PROVE  TreeInv'
  BY <1>2, ReplaceStep, InsertStep DEF Insert
<1>3. CASE Clear
  BY <1>3, ClearStep
<1>4. CASE UNCHANGED vars
  <2>1. /\ Present' = Present /\ TypeOK' = TypeOK
        /\ \A i : On(i)' = On(i) /\ Column(i)' = Column(i)
    BY <1>4 DEF vars, Present, TypeOK, On, Column
  <2> QED
    BY <1>4, <2>1 DEF TreeInv, vars
<1> QED
  BY <1>1, <1>2, <1>3, <1>4 DEF Next

LEMMA TreeInvariant == Spec => []TreeInv
  BY TreeInvInit, TreeInvNext, PTL DEF Spec

\* Whatever sequence of inserts, replacements, removals and clears: every pointer
\* leads to a price or nowhere, no tower and no search starts above the highest
\* floor, and the size stays between none and all of the prices.
THEOREM TreeTypes == Spec => []TypeOK
  BY TreeInvariant, PTL DEF TreeInv

-----------------------------------------------------------------------------
(* The nodes of a floor in their order                                     *)

\* c lists the nodes of S that come after m, each once, in their order.
InOrder(r, c, S, m) ==
  /\ c \in Seq(Prices)
  /\ NodesOf(c) = {n \in S : Prior(r, m, n)}
  /\ \A j, k \in 1 .. Len(c) : j < k => Ahead(r, c[j], c[k])

LEMMA ConsNodes ==
  ASSUME NEW x \in Prices, NEW s \in Seq(Prices)
  PROVE  /\ <<x>> \o s \in Seq(Prices) /\ NodesOf(<<x>> \o s) = {x} \cup NodesOf(s)
         /\ Len(<<x>> \o s) = Len(s) + 1 /\ (<<x>> \o s)[1] = x
         /\ \A k \in 2 .. Len(s) + 1 : (<<x>> \o s)[k] = s[k - 1] /\ s[k - 1] \in NodesOf(s)
<1> DEFINE c == <<x>> \o s
<1>1. /\ c \in Seq(Prices) /\ Len(c) = Len(s) + 1 /\ c[1] = x /\ Len(s) \in Nat
      /\ \A k \in 2 .. Len(s) + 1 : c[k] = s[k - 1]
  OBVIOUS
<1>2. \A k \in 2 .. Len(s) + 1 : s[k - 1] \in NodesOf(s)
  BY <1>1 DEF NodesOf
<1>3. \A k \in 1 .. Len(s) : s[k] = c[k + 1]
  BY <1>1
<1> HIDE DEF c
<1>4. NodesOf(s) \subseteq NodesOf(c)
  BY <1>1, <1>3 DEF NodesOf
<1>5. NodesOf(c) \subseteq {x} \cup NodesOf(s)
  BY <1>1, <1>2 DEF NodesOf
<1>6. x \in NodesOf(c)
  BY <1>1 DEF NodesOf
<1> QED
  BY <1>1, <1>2, <1>4, <1>5, <1>6 DEF c

Blank(f) == {m \in Nodes : f[m] = NIL}

LEMMA ChainsExist ==
  ASSUME NEW r \in BOOLEAN, NEW f, NEW S, Links(r, f, S)
  PROVE  \E g : Lists(g, Nodes, Blank(f), f, f)
<1>1. PICK rank, M : Ranks(f, rank, M)
  BY LinksRank
<1>2. Descends(Nodes, Blank(f), f, rank)
  BY <1>1 DEF Ranks, Descends, Blank
<1>3. M \in Nat /\ \A m \in Nodes : rank[m] < M
  BY <1>1 DEF Ranks
<1> QED
  BY <1>2, <1>3, ListsExist

LEMMA ChainsOrdered ==
  ASSUME NEW r \in BOOLEAN, NEW f, NEW S, Links(r, f, S),
         NEW g, Lists(g, Nodes, Blank(f), f, f), NEW n \in {HEADER} \cup S
  PROVE  InOrder(r, g[n], S, n)
<1> DEFINE P == {m \in Nodes : m \in {HEADER} \cup S => InOrder(r, g[m], S, m)}
<1>1. PICK rank, M : Ranks(f, rank, M)
  BY LinksRank
<1>2. Descends(Nodes, Blank(f), f, rank)
  BY <1>1 DEF Ranks, Descends, Blank
<1>3. \A m \in Nodes : g[m] = IF m \in Blank(f) THEN <<>> ELSE <<f[m]>> \o g[f[m]]
  BY DEF Lists
<1>4. ASSUME NEW m \in Nodes, m \in Blank(f) \/ f[m] \in P
      PROVE  m \in P
  <2> SUFFICES ASSUME m \in {HEADER} \cup S PROVE InOrder(r, g[m], S, m)
    OBVIOUS
  <2>0. Follows(r, m, f[m], S) /\ S \subseteq Prices
    BY DEF Links
  <2>1. CASE m \in Blank(f)
    <3>1. g[m] = <<>> /\ f[m] = NIL
      BY <2>1, <1>3 DEF Blank
    <3>2. <<>> \in Seq(Prices) /\ Len(<<>>) = 0 /\ NodesOf(<<>>) = {}
      BY DEF NodesOf
    <3> QED
      BY <2>0, <3>1, <3>2 DEF InOrder, Follows
  <2>2. CASE m \notin Blank(f)
    <3> DEFINE x == f[m]
               s == g[x]
    <3>1. /\ x # NIL /\ g[m] = <<x>> \o s /\ x \in S /\ Prior(r, m, x) /\ x \in Prices
          /\ \A k \in S : Prior(r, m, k) => k = x \/ Ahead(r, x, k)
      BY <2>0, <2>2, <1>3, NodeNames DEF Blank, Follows, Prior
    <3>2. InOrder(r, s, S, x)
      BY <3>1, <2>2, <1>4
    <3> HIDE DEF x, s
    <3>3. s \in Seq(Prices) /\ NodesOf(s) = {k \in S : Ahead(r, x, k)}
      BY <3>1, <3>2, NodeNames DEF InOrder, Prior
    <3> DEFINE c == <<x>> \o s
    <3>4. /\ c \in Seq(Prices) /\ NodesOf(c) = {x} \cup NodesOf(s)
          /\ Len(c) = Len(s) + 1 /\ c[1] = x /\ Len(s) \in Nat
          /\ \A k \in 2 .. Len(s) + 1 : c[k] = s[k - 1] /\ s[k - 1] \in NodesOf(s)
      BY <3>1, <3>3, ConsNodes
    <3> HIDE DEF c
    <3>5. NodesOf(c) = {k \in S : Prior(r, m, k)}
      <4>1. \A k \in S : Ahead(r, x, k) => Prior(r, m, k)
        BY <2>0, <3>1, PriorTrans
      <4> QED
        BY <3>1, <3>3, <3>4, <4>1
    <3>6. ASSUME NEW j \in 1 .. Len(c), NEW k \in 1 .. Len(c), j < k
          PROVE  Ahead(r, c[j], c[k])
      <4>1. k \in 2 .. Len(s) + 1
        BY <3>4, <3>6
      <4>2. CASE j = 1
        BY <3>3, <3>4, <4>1, <4>2
      <4>3. CASE j # 1
        <5>1. j \in 2 .. Len(s) + 1 /\ j - 1 \in 1 .. Len(s) /\ k - 1 \in 1 .. Len(s)
              /\ j - 1 < k - 1
          BY <3>4, <3>6, <4>1, <4>3
        <5>2. Ahead(r, s[j - 1], s[k - 1])
          BY <3>2, <5>1 DEF InOrder
        <5> QED
          BY <3>4, <4>1, <5>1, <5>2
      <4> QED
        BY <4>2, <4>3
    <3> QED
      BY <3>1, <3>4, <3>5, <3>6 DEF InOrder, c
  <2> QED
    BY <2>1, <2>2
<1> HIDE DEF P
<1>5. Nodes \subseteq P
  BY <1>2, <1>4, WalkInduction
<1>6. n \in Nodes
  BY NodeNames DEF Links
<1> QED
  BY <1>5, <1>6 DEF P

LEMMA ChainOrdered ==
  ASSUME TreeInv, NEW i \in Floors
  PROVE  InOrder(reverse, Chain(i), On(i), HEADER)
<1> DEFINE f == Column(i)
           Makes(g) == g = [m \in Nodes |->
              IF forward[m][i] = NIL THEN <<>>
              ELSE <<forward[m][i]>> \o g[forward[m][i]]]
<1>1. Links(reverse, f, On(i)) /\ reverse \in BOOLEAN
  BY FloorsAre DEF TreeInv
<1>2. \A m \in Nodes : f[m] = forward[m][i]
  BY DEF Column
<1>3. \A m \in Nodes : m \in Blank(f) <=> forward[m][i] = NIL
  BY <1>2 DEF Blank
<1> HIDE DEF f
<1>4. \A g : Makes(g) <=> Lists(g, Nodes, Blank(f), f, f)
  BY <1>2, <1>3 DEF Lists
<1>5. \E g : Makes(g)
  BY <1>1, <1>4, ChainsExist
<1> DEFINE from == CHOOSE g : Makes(g)
<1>6. Makes(from)
  BY <1>5
<1>7. Chain(i) = from[HEADER]
  BY DEF Chain
<1> HIDE DEF from, Makes
<1>8. Lists(from, Nodes, Blank(f), f, f)
  BY <1>4, <1>6
<1>9. InOrder(reverse, from[HEADER], On(i), HEADER)
  BY <1>1, <1>8, ChainsOrdered
<1> QED
  BY <1>7, <1>9

\* What TreeInv says of the pointers is what WellLinked says of the chains.
LEMMA TreeWellLinked == TreeInv => WellLinked
<1> SUFFICES ASSUME TreeInv PROVE WellLinked
  OBVIOUS
<1>1. ASSUME NEW i \in Floors
      PROVE  /\ NodesOf(Chain(i)) = {n \in Present : height[n] >= i}
             /\ \A k \in 2 .. Len(Chain(i)) : compare(Chain(i)[k - 1], Chain(i)[k]) < 0
             /\ i > level => Chain(i) = <<>>
  <2> DEFINE c == Chain(i)
  <2>1. InOrder(reverse, c, On(i), HEADER)
    BY ChainOrdered
  <2> HIDE DEF c
  <2>2. c \in Seq(Prices) /\ NodesOf(c) = On(i) /\ Len(c) \in Nat
    BY <2>1, FloorsAre DEF InOrder, Prior
  <2>3. ASSUME NEW k \in 2 .. Len(c)
        PROVE  compare(c[k - 1], c[k]) < 0
    <3>1. k \in 1 .. Len(c) /\ k - 1 \in 1 .. Len(c) /\ k - 1 < k
      BY <2>2
    <3>2. c[k] \in Nodes /\ c[k - 1] \in Nodes /\ Ahead(reverse, c[k - 1], c[k])
      BY <2>1, <2>2, <3>1, NodeNames DEF InOrder
    <3> QED
      BY <3>2, CompareIs, FloorsAre
  <2>4. i > level => c = <<>>
    <3>1. i > level => NodesOf(c) = {}
      BY <2>2, FloorsAre
    <3>2. c # <<>> => c[1] \in NodesOf(c)
      BY <2>2 DEF NodesOf
    <3> QED
      BY <3>1, <3>2
  <2> QED
    BY <2>2, <2>3, <2>4 DEF c, On
<1> QED
  BY <1>1 DEF TreeInv, WellLinked

\* After any sequence of operations a traversal of the bottom floor meets every
\* node once and in strict price order, each higher floor links just the nodes
\* whose tower reaches it, no floor above "level" has a node, and size counts the
\* nodes: what Insert and Remove rely on when they search from the top floor down.
THEOREM TreeWellLinkedAlways == Spec => []WellLinked
  BY TreeInvariant, TreeWellLinked, PTL

-----------------------------------------------------------------------------
(* The tree implements the map                                             *)

\* The levels a caller can reach are those of the nodes.
HeldByNodes == Held = {value[n] : n \in Present}

LEMMA HeldIs == TreeInv => HeldByNodes
<1> SUFFICES ASSUME TreeInv PROVE HeldByNodes
  OBVIOUS
<1>1. 0 \in Floors /\ On(0) = Present
  BY FloorsAre
<1>2. NodesOf(Chain(0)) = Present
  BY <1>1, ChainOrdered DEF InOrder, Prior
<1> QED
  BY <1>2 DEF Held, HeldByNodes

LEMMA SameIsEqual ==
  ASSUME NEW a \in Prices, NEW b \in Prices
  PROVE  Abstract!Same(a, b) <=> Equal(a, b)
  BY TreeAssumption DEF Abstract!Same, Equal

\* The level a price has in the tree is that of the one node equal to it.
LEMMA HeldSame ==
  ASSUME TreeInv, NEW p \in Prices, NEW n \in Present
  PROVE  /\ value[n] \in Prices /\ n \in Prices
         /\ Abstract!Same(p, value[n]) <=> Equal(n, p)
         /\ \A m \in Present : value[m] = value[n] => m = n
         /\ \A m \in Present : Equal(m, p) /\ Equal(n, p) => m = n
<1>1. \A m \in Present : m \in Prices /\ value[m] \in Prices /\ Equal(value[m], m)
  BY NodeNames DEF TreeInv, TypeOK, Present
<1>2. reverse \in BOOLEAN /\ On(0) = Present /\ 0 \in Floors
  BY FloorsAre
<1>3. \A m \in Present : m = n \/ ~Equal(m, n)
  <2>1. \A m \in Present : m = n \/ Ahead(reverse, m, n) \/ Ahead(reverse, n, m)
    BY <1>2 DEF TreeInv, Links
  <2> QED
    BY <1>1, <1>2, <2>1, Trichotomy
<1>4. Abstract!Same(p, value[n]) <=> Equal(n, p)
  BY <1>1, <1>2, SameIsEqual, Trichotomy, Transitive
<1>5. \A m \in Present : value[m] = value[n] => m = n
  BY <1>1, <1>2, <1>3, Trichotomy, Transitive
<1>6. \A m \in Present : Equal(m, p) /\ Equal(n, p) => m = n
  BY <1>1, <1>2, <1>3, Trichotomy, Transitive
<1> QED
  BY <1>1, <1>4, <1>5, <1>6

LEMMA TreeMapInit == Init => Abstract!Init
<1> SUFFICES ASSUME Init PROVE Held = {}
  BY DEF Abstract!Init
<1>1. TreeInv /\ Present = {}
  BY EmptyTree DEF Init
<1> QED
  BY <1>1, HeldIs DEF HeldByNodes

LEMMA TreeMapNext ==
  TreeInv /\ HeldByNodes /\ HeldByNodes' /\ [Next]_vars => [Abstract!Next]_Held
<1> SUFFICES ASSUME TreeInv, HeldByNodes, HeldByNodes', [Next]_vars
             PROVE  [Abstract!Next]_Held
  OBVIOUS
<1>1. Held = {value[n] : n \in Present} /\ Held' = {value'[n] : n \in Present'}
  BY DEF HeldByNodes
<1>2. \A n \in Prices : n \in Nodes
  BY NodeNames
<1>3. value \in [Nodes -> Prices \cup {NIL}] /\ Present \subseteq Prices
  BY FloorsAre DEF TreeInv, TypeOK
<1>4. ASSUME NEW p \in Prices, Remove(p)
      PROVE  Abstract!Remove(p)
  <2> DEFINE x == Found(p)
  <2>1. x \in Present /\ Equal(x, p)
    BY <1>4, FoundIs DEF Remove
  <2>2. Present' = Present \ {x} /\ value' = [value EXCEPT ![x] = NIL]
    BY <1>4, RemoveStep
  <2> HIDE DEF x
  <2>3. Held' = {value[n] : n \in Present \ {x}}
    BY <1>1, <1>2, <1>3, <2>2
  <2>4. \A n \in Present : n = x <=> Abstract!Same(p, value[n])
    BY <2>1, HeldSame
  <2>5. Abstract!Others(p) = {value[n] : n \in Present \ {x}}
    BY <1>1, <2>4 DEF Abstract!Others
  <2> QED
    BY <2>3, <2>5 DEF Abstract!Remove
<1>5. ASSUME NEW p \in Prices, NEW h \in Towers, Insert(p, h)
      PROVE  Abstract!Insert(p)
  <2>1. CASE IsThere(p)
    <3> DEFINE x == Found(p)
    <3>1. x \in Present /\ Equal(x, p)
      BY <2>1, FoundIs
    <3>2. Present' = Present /\ value' = [value EXCEPT ![x] = p]
      BY <1>5, <2>1, ReplaceStep DEF Insert
    <3> HIDE DEF x
    <3>3. \A n \in Present : value'[n] = IF n = x THEN p ELSE value[n]
      BY <1>2, <1>3, <3>1, <3>2
    <3>4. Held' = {value[n] : n \in Present \ {x}} \cup {p}
      BY <1>1, <3>1, <3>2, <3>3
    <3>5. \A n \in Present : n = x <=> Abstract!Same(p, value[n])
      BY <3>1, HeldSame
    <3>6. Abstract!Others(p) = {value[n] : n \in Present \ {x}}
      BY <1>1, <3>5 DEF Abstract!Others
    <3> QED
      BY <3>4, <3>6 DEF Abstract!Insert
  <2>2. CASE ~IsThere(p)
    <3>1. /\ p \notin Present /\ Present' = Present \cup {p}
          /\ value' = [value EXCEPT ![p] = p]
      BY <1>5, <2>2, InsertStep DEF Insert
    <3>2. \A n \in Present' : value'[n] = IF n = p THEN p ELSE value[n]
      BY <1>2, <1>3, <3>1
    <3>3. Held' = Held \cup {p}
      BY <1>1, <3>1, <3>2
    <3>4. \A n \in Present : ~Abstract!Same(p, value[n])
      BY <2>2, FoundIs, HeldSame
    <3>5. Abstract!Others(p) = Held
      BY <1>1, <3>4 DEF Abstract!Others
    <3> QED
      BY <3>3, <3>5 DEF Abstract!Insert
  <2> QED
    BY <2>1, <2>2
<1>6. CASE Clear
  <2>1. Held' = {}
    BY <1>1, <1>6, ClearStep
  <2> QED
    BY <2>1 DEF Abstract!Next, Abstract!Clear
<1>7. CASE UNCHANGED vars
  <2>1. Present' = Present /\ value' = value
    BY <1>7 DEF vars, Present
  <2> QED
    BY <1>1, <2>1
<1> QED
  BY <1>4, <1>5, <1>6, <1>7 DEF Next, Abstract!Next

\* Insert, Remove and Clear do to the levels a caller can reach what the same
\* operations do to a map from prices to levels: an insert replaces the level of
\* an equal price and no other, a removal takes out that of the price alone.
THEOREM TreeIsPriceMap == Spec => ImplementsPriceMap
<1>1. Spec => Abstract!Init /\ [][Abstract!Next]_Held
  BY TreeMapInit, TreeMapNext, TreeInvariant, HeldIs, PTL DEF Spec
<1> QED
  BY <1>1, PTL DEF ImplementsPriceMap, Abstract!Spec

-----------------------------------------------------------------------------
(* The look-ups                                                            *)

LEMMA PresentOrdered ==
  ASSUME TreeInv
  PROVE  /\ reverse \in BOOLEAN /\ Present \subseteq Prices /\ IsFiniteSet(Present)
         /\ Links(reverse, Column(0), Present) /\ size = Cardinality(Present)
         /\ \A n \in Present : /\ n \in Nodes /\ n # NIL /\ n # HEADER
                               /\ value[n] \in Prices /\ Equal(value[n], n)
         /\ \A m, n \in Present : m = n \/ Ahead(reverse, m, n) \/ Ahead(reverse, n, m)
<1>1. 0 \in Floors /\ On(0) = Present /\ Present \subseteq Prices /\ IsFiniteSet(Present)
      /\ reverse \in BOOLEAN
  BY FloorsAre
<1>2. Links(reverse, Column(0), Present) /\ size = Cardinality(Present)
  BY <1>1 DEF TreeInv
<1>3. \A m, n \in Present : m = n \/ Ahead(reverse, m, n) \/ Ahead(reverse, n, m)
  BY <1>2 DEF Links
<1>4. \A n \in Present : /\ n \in Nodes /\ n # NIL /\ n # HEADER
                         /\ value[n] \in Prices /\ Equal(value[n], n)
  BY NodeNames DEF TreeInv, TypeOK, Present
<1> QED
  BY <1>1, <1>2, <1>3, <1>4

\* The levels have the order of their nodes.
LEMMA ValuesOrdered ==
  ASSUME TreeInv, NEW m \in Present
  PROVE  /\ \A n \in Present : Ahead(reverse, value[m], value[n]) <=> Ahead(reverse, m, n)
         /\ \A p \in Prices : /\ Ahead(reverse, value[m], p) <=> Ahead(reverse, m, p)
                              /\ Equal(value[m], p) <=> Equal(m, p)
<1>1. \A n \in Present : n \in Prices /\ value[n] \in Prices /\ Equal(value[n], n)
                         /\ Equal(n, value[n])
  BY PresentOrdered, Trichotomy
<1>2. reverse \in BOOLEAN
  BY PresentOrdered
<1>3. ASSUME NEW p \in Prices
      PROVE  /\ Ahead(reverse, value[m], p) <=> Ahead(reverse, m, p)
             /\ Equal(value[m], p) <=> Equal(m, p)
  BY <1>1, <1>2, Transitive
<1>4. ASSUME NEW n \in Present
      PROVE  Ahead(reverse, value[m], value[n]) <=> Ahead(reverse, m, n)
  <2>1. Ahead(reverse, value[m], value[n]) <=> Ahead(reverse, m, value[n])
    BY <1>1, <1>3
  <2>2. Ahead(reverse, m, value[n]) <=> Ahead(reverse, m, n)
    BY <1>1, <1>2, Transitive
  <2> QED
    BY <2>1, <2>2
<1> QED
  BY <1>3, <1>4

\* Get finds the level of the price, and nothing if there is none.
LEMMA GetFinds ==
  ASSUME TreeInv, NEW p \in Prices
  PROVE  {Get(p)} \ {NIL} = {q \in Held : Abstract!Same(p, q)}
<1> DEFINE x == Found(p)
<1>1. Held = {value[n] : n \in Present}
  BY HeldIs DEF HeldByNodes
<1>2. \A n \in Present : value[n] # NIL
  BY DEF Present
<1>3. CASE IsThere(p)
  <2>1. x \in Present /\ Equal(x, p) /\ Get(p) = value[x]
    BY <1>3, FoundIs DEF Get
  <2> HIDE DEF x
  <2>2. \A n \in Present : Abstract!Same(p, value[n]) <=> n = x
    BY <2>1, HeldSame
  <2> QED
    BY <1>1, <1>2, <2>1, <2>2
<1>4. CASE ~IsThere(p)
  <2>1. \A n \in Present : ~Abstract!Same(p, value[n])
    BY <1>4, FoundIs, HeldSame
  <2> QED
    BY <1>1, <1>4, <2>1 DEF Get
<1> QED
  BY <1>3, <1>4

LEMMA FirstIs ==
  ASSUME TreeInv
  PROVE  IF Present = {} THEN First = NIL
         ELSE First \in Present /\ \A n \in Present : n = First \/ Ahead(reverse, First, n)
<1>1. Follows(reverse, HEADER, First, Present)
  BY PresentOrdered, NodeNames DEF Links, First, Column
<1>2. First # NIL => First # HEADER
  BY <1>1, PresentOrdered DEF Follows
<1> QED
  BY <1>1, <1>2 DEF Follows, Prior

\* The run along all floors: where it may be, where it ends and how it goes on.
Places == Nodes \X Floors
RunStop == {at \in Places : forward[at[1]][at[2]] = NIL /\ at[2] = 0}
RunNext ==
  [at \in Places |-> IF forward[at[1]][at[2]] # NIL THEN <<forward[at[1]][at[2]], at[2]>>
                     ELSE <<at[1], at[2] - 1>>]

LEMMA RunPlaces ==
  ASSUME NEW m \in Nodes, NEW i \in Floors
  PROVE  /\ <<m, i>> \in Places /\ <<m, i>>[1] = m /\ <<m, i>>[2] = i
         /\ RunNext[<<m, i>>] = IF forward[m][i] # NIL THEN <<forward[m][i], i>>
                                ELSE <<m, i - 1>>
         /\ <<m, i>> \in RunStop <=> forward[m][i] = NIL /\ i = 0
         /\ \A at \in Places : at = <<at[1], at[2]>> /\ at[1] \in Nodes /\ at[2] \in Floors
<1>1. /\ <<m, i>> \in Places /\ <<m, i>>[1] = m /\ <<m, i>>[2] = i
      /\ \A at \in Places : at = <<at[1], at[2]>> /\ at[1] \in Nodes /\ at[2] \in Floors
  BY DEF Places
<1>2. RunNext[<<m, i>>] = IF forward[m][i] # NIL THEN <<forward[m][i], i>> ELSE <<m, i - 1>>
  BY <1>1 DEF RunNext
<1>3. <<m, i>> \in RunStop <=> forward[m][i] = NIL /\ i = 0
  BY <1>1 DEF RunStop
<1> QED
  BY <1>1, <1>2, <1>3

LEMMA RunDescends ==
  ASSUME TreeInv
  PROVE  \E rank, M : /\ Descends(Places, RunStop, RunNext, rank)
                      /\ M \in Nat /\ \A at \in Places : rank[at] < M
<1>0. reverse \in BOOLEAN /\ Floors = 0 .. MaxLevel /\ MaxLevel \in Nat
      /\ HEADER \in Nodes /\ 0 \in Floors
  BY FloorsAre, NodeNames DEF Floors
<1>1. PICK rk, M : OrderRank(reverse, rk, M)
  BY <1>0, OrderRankExists
<1>2. \A i \in Floors : Ranks(Column(i), rk, M)
  BY <1>1, OrderRanks DEF TreeInv
<1> DEFINE rank == [at \in Places |-> rk[at[1]] + at[2]]
<1> HIDE DEF rank
<1>3. ASSUME NEW m \in Nodes, NEW i \in Floors
      PROVE  /\ rk[m] \in Nat /\ i \in Nat
             /\ forward[m][i] # NIL => forward[m][i] \in Nodes /\ rk[forward[m][i]] < rk[m]
                                       /\ rk[forward[m][i]] \in Nat
  <2>1. Column(i)[m] = forward[m][i] /\ Ranks(Column(i), rk, M) /\ i \in Nat
    BY <1>0, <1>2 DEF Column
  <2> QED
    BY <2>1 DEF Ranks
<1>4. ASSUME NEW m \in Nodes, NEW i \in Floors
      PROVE  rank[<<m, i>>] = rk[m] + i
  <2>1. <<m, i>> \in Places /\ <<m, i>>[1] = m /\ <<m, i>>[2] = i
    BY RunPlaces
  <2> QED
    BY <2>1 DEF rank
<1>5. ASSUME NEW m \in Nodes, NEW i \in Floors
      PROVE  /\ rank[<<m, i>>] \in Nat /\ rank[<<m, i>>] < M + MaxLevel + 1
             /\ <<m, i>> \notin RunStop => /\ RunNext[<<m, i>>] \in Places
                                           /\ rank[RunNext[<<m, i>>]] < rank[<<m, i>>]
  <2>1. rank[<<m, i>>] = rk[m] + i /\ rk[m] \in Nat /\ i \in Nat
    BY <1>3, <1>4
  <2>2. ASSUME forward[m][i] # NIL
        PROVE  RunNext[<<m, i>>] \in Places /\ rank[RunNext[<<m, i>>]] < rank[<<m, i>>]
    <3> DEFINE k == forward[m][i]
    <3>1. k \in Nodes /\ rk[k] < rk[m] /\ rk[k] \in Nat /\ RunNext[<<m, i>>] = <<k, i>>
      BY <2>2, <1>3, RunPlaces
    <3> HIDE DEF k
    <3>2. <<k, i>> \in Places /\ rank[<<k, i>>] = rk[k] + i
      BY <3>1, <1>4, RunPlaces
    <3>3. rk[k] + i < rk[m] + i
      BY <2>1, <3>1
    <3> QED
      BY <2>1, <3>1, <3>2, <3>3
  <2>3. ASSUME forward[m][i] = NIL, i # 0
        PROVE  RunNext[<<m, i>>] \in Places /\ rank[RunNext[<<m, i>>]] < rank[<<m, i>>]
    <3> DEFINE j == i - 1
    <3>1. j \in Floors /\ j \in Nat /\ j < i
      BY <2>1, <2>3, <1>0
    <3>2. RunNext[<<m, i>>] = <<m, j>>
      BY <2>3, RunPlaces
    <3> HIDE DEF j
    <3>3. <<m, j>> \in Places /\ rank[<<m, j>>] = rk[m] + j
      BY <3>1, <1>4, RunPlaces
    <3>4. rk[m] + j < rk[m] + i
      BY <2>1, <3>1
    <3> QED
      BY <2>1, <3>2, <3>3, <3>4
  <2>4. <<m, i>> \notin RunStop => forward[m][i] # NIL \/ i # 0
    BY RunPlaces
  <2>5. rank[<<m, i>>] \in Nat /\ rank[<<m, i>>] < M + MaxLevel + 1
    <3>1. i <= MaxLevel /\ MaxLevel \in Nat /\ rk[m] < M /\ M \in Nat
      BY <1>0, <1>1 DEF OrderRank
    <3>2. rk[m] + i \in Nat /\ rk[m] + i < M + MaxLevel + 1
      BY <2>1, <3>1
    <3> QED
      BY <2>1, <3>2
  <2> QED
    BY <2>2, <2>3, <2>4, <2>5
<1>6. \A at \in Places : at = <<at[1], at[2]>> /\ at[1] \in Nodes /\ at[2] \in Floors
  BY <1>0, RunPlaces
<1>7. Descends(Places, RunStop, RunNext, rank)
  BY <1>5, <1>6 DEF Descends
<1>8. \A at \in Places : rank[at] < M + MaxLevel + 1
  BY <1>5, <1>6
<1>9. M + MaxLevel + 1 \in Nat
  BY <1>0, <1>1 DEF OrderRank
<1> QED
  BY <1>7, <1>8, <1>9

\* From every place the run ends at a node with no node after it.
RunsAll(run) ==
  run = [at \in Places |->
           IF forward[at[1]][at[2]] # NIL THEN run[<<forward[at[1]][at[2]], at[2]>>]
           ELSE IF at[2] = 0 THEN at[1] ELSE run[<<at[1], at[2] - 1>>]]

Final(m) == m \in {HEADER} \cup Present /\ \A n \in Present : ~Prior(reverse, m, n)

LEMMA RunIs ==
  ASSUME NEW run
  PROVE  RunsAll(run) <=> Ends(run, Places, RunStop, [at \in Places |-> at[1]], RunNext)
<1> DEFINE b == [at \in Places |-> at[1]]
           A(at) == IF forward[at[1]][at[2]] # NIL THEN run[<<forward[at[1]][at[2]], at[2]>>]
                    ELSE IF at[2] = 0 THEN at[1] ELSE run[<<at[1], at[2] - 1>>]
           B(at) == IF at \in RunStop THEN b[at] ELSE run[RunNext[at]]
<1>1. \A at \in Places : A(at) = B(at)
  BY DEF RunStop, RunNext
<1>2. [at \in Places |-> A(at)] = [at \in Places |-> B(at)]
  <2> HIDE DEF A, B
  <2> QED
    BY <1>1
<1> QED
  BY <1>2 DEF RunsAll, Ends

LEMMA RunEnds ==
  ASSUME TreeInv, NEW run, RunsAll(run)
  PROVE  Final(run[<<HEADER, level>>])
<1> DEFINE P == {at \in Places : at[1] \in {HEADER} \cup On(at[2]) => Final(run[at])}
<1> HIDE DEF P
<1>0. Floors = 0 .. MaxLevel /\ MaxLevel \in Nat /\ HEADER \in Nodes /\ level \in Floors
  BY FloorsAre, NodeNames DEF Floors
<1>1. ASSUME NEW m \in Nodes, NEW i \in Floors
      PROVE  /\ Column(i)[m] = forward[m][i] /\ Links(reverse, Column(i), On(i))
             /\ i \in Nat /\ <<m, i>> \in Places
             /\ run[<<m, i>>] = IF forward[m][i] # NIL THEN run[<<forward[m][i], i>>]
                                ELSE IF i = 0 THEN m ELSE run[<<m, i - 1>>]
             /\ <<m, i>> \in P <=> (m \in {HEADER} \cup On(i) => Final(run[<<m, i>>]))
  <2>1. <<m, i>> \in Places /\ <<m, i>>[1] = m /\ <<m, i>>[2] = i
    BY RunPlaces
  <2>2. run[<<m, i>>] = IF forward[m][i] # NIL THEN run[<<forward[m][i], i>>]
                        ELSE IF i = 0 THEN m ELSE run[<<m, i - 1>>]
    BY <2>1 DEF RunsAll
  <2>3. <<m, i>> \in P <=> (m \in {HEADER} \cup On(i) => Final(run[<<m, i>>]))
    BY <2>1 DEF P
  <2>4. Column(i)[m] = forward[m][i] /\ Links(reverse, Column(i), On(i)) /\ i \in Nat
    BY <1>0 DEF Column, TreeInv
  <2> QED
    BY <2>1, <2>2, <2>3, <2>4
<1>2. ASSUME NEW m \in Nodes, NEW i \in Floors,
             <<m, i>> \in RunStop \/ RunNext[<<m, i>>] \in P
      PROVE  <<m, i>> \in P
  <2> SUFFICES ASSUME m \in {HEADER} \cup On(i) PROVE Final(run[<<m, i>>])
    BY <1>1
  <2>0. Follows(reverse, m, forward[m][i], On(i)) /\ On(i) \subseteq Prices
    BY <1>1 DEF Links
  <2>4. /\ forward[m][i] # NIL => <<forward[m][i], i>> \in P
        /\ forward[m][i] = NIL /\ i # 0 => <<m, i - 1>> \in P
    <3>1. /\ RunNext[<<m, i>>] = IF forward[m][i] # NIL THEN <<forward[m][i], i>>
                                 ELSE <<m, i - 1>>
          /\ <<m, i>> \in RunStop <=> forward[m][i] = NIL /\ i = 0
      BY RunPlaces
    <3> QED
      BY <3>1, <1>2
  <2>1. CASE forward[m][i] # NIL
    <3>1. /\ forward[m][i] \in On(i) /\ run[<<m, i>>] = run[<<forward[m][i], i>>]
          /\ <<forward[m][i], i>> \in P
      BY <2>0, <2>1, <2>4, <1>1 DEF Follows
    <3>2. forward[m][i] \in Nodes
      BY <2>0, <3>1, NodeNames
    <3> QED
      BY <3>1, <3>2, <1>1
  <2>2. CASE forward[m][i] = NIL /\ i = 0
    <3>1. run[<<m, i>>] = m /\ On(i) = Present
      BY <2>2, <1>1, FloorsAre
    <3> QED
      BY <2>0, <2>2, <3>1 DEF Follows, Final
  <2>3. CASE forward[m][i] = NIL /\ i # 0
    <3>0. i - 1 \in Floors
      BY <2>3, <1>0
    <3>1. run[<<m, i>>] = run[<<m, i - 1>>] /\ <<m, i - 1>> \in P
      BY <2>3, <2>4, <1>1
    <3>2. On(i) \subseteq On(i - 1)
      <4>1. \A n \in Present : height[n] \in Int
        BY <1>0, FloorsAre, NodeNames DEF TreeInv, TypeOK
      <4> QED
        BY <4>1, <1>0 DEF On
    <3> QED
      BY <3>0, <3>1, <3>2, <1>1
  <2> QED
    BY <2>1, <2>2, <2>3
<1>3. \A at \in Places : at \in RunStop \/ RunNext[at] \in P => at \in P
  <2> SUFFICES ASSUME NEW at \in Places, at \in RunStop \/ RunNext[at] \in P
               PROVE  at \in P
    OBVIOUS
  <2>1. at = <<at[1], at[2]>> /\ at[1] \in Nodes /\ at[2] \in Floors
    BY <1>0, RunPlaces
  <2>2. <<at[1], at[2]>> \in P
    BY <2>1, <1>2
  <2> QED
    BY <2>1, <2>2
<1>4. PICK rank, M : Descends(Places, RunStop, RunNext, rank)
  BY RunDescends
<1>5. Places \subseteq P
  BY <1>3, <1>4, WalkInduction
<1> QED
  BY <1>0, <1>1, <1>5

LEMMA LastIs ==
  ASSUME TreeInv, Present # {}
  PROVE  Last \in Present /\ \A n \in Present : n = Last \/ Ahead(reverse, n, Last)
<1>1. \E run : RunsAll(run)
  <2>1. PICK rank, M : /\ Descends(Places, RunStop, RunNext, rank)
                       /\ M \in Nat /\ \A at \in Places : rank[at] < M
    BY RunDescends
  <2> QED
    BY <2>1, EndsExist, RunIs
<1> DEFINE run == CHOOSE r : RunsAll(r)
<1>2. RunsAll(run)
  BY <1>1
<1>3. Last = run[<<HEADER, level>>]
  BY DEF Last, RunsAll, Places
<1> HIDE DEF run
<1>4. Final(Last)
  BY <1>2, <1>3, RunEnds
<1>5. Last \in Present /\ \A n \in Present : ~Ahead(reverse, Last, n)
  BY <1>4 DEF Final, Prior
<1> QED
  BY <1>5, PresentOrdered

\* The levels at the two ends are those of the first node and of the last one.
LEMMA EndsFound ==
  ASSUME TreeInv
  PROVE  /\ {MinPriceNode} \ {NIL} = {q \in Held : \A r \in Held : q <= r}
         /\ {MaxPriceNode} \ {NIL} = {q \in Held : \A r \in Held : q >= r}
<1>1. Held = {value[n] : n \in Present}
  BY HeldIs DEF HeldByNodes
<1>2. size = 0 <=> Present = {}
  BY PresentOrdered, FS_EmptySet
<1>3. CASE Present = {}
  BY <1>1, <1>2, <1>3 DEF MinPriceNode, MaxPriceNode
<1>4. CASE Present # {}
  <2> DEFINE a == value[First]
             b == value[Last]
  <2>1. /\ First \in Present /\ Last \in Present /\ a \in Held /\ b \in Held
        /\ a \in Prices /\ b \in Prices /\ First # NIL /\ Last # NIL
    BY <1>1, <1>4, FirstIs, LastIs, PresentOrdered
  <2>2. ASSUME NEW n \in Present
        PROVE  /\ n = First \/ Ahead(reverse, a, value[n])
               /\ n = Last \/ Ahead(reverse, value[n], b)
    BY <1>4, <2>1, FirstIs, LastIs, ValuesOrdered
  <2>3. ASSUME NEW q \in Held
        PROVE  /\ q \in Prices
               /\ q = a \/ Ahead(reverse, a, q)
               /\ q = b \/ Ahead(reverse, q, b)
    BY <1>1, <2>2, PresentOrdered
  <2>4. MinPriceNode = (IF reverse THEN b ELSE a) /\ MaxPriceNode = (IF reverse THEN a ELSE b)
    BY <1>2, <1>4, <2>1 DEF MinPriceNode, MaxPriceNode, LevelAt
  <2> HIDE DEF a, b
  <2>5. ASSUME NEW q \in Held
        PROVE  /\ q \in Nat /\ a \in Nat /\ b \in Nat
               /\ IF reverse THEN (q = a \/ a > q) /\ (q = b \/ q > b)
                  ELSE (q = a \/ q > a) /\ (q = b \/ b > q)
    <3>1. q \in Prices /\ reverse \in BOOLEAN
      BY <2>3, PresentOrdered
    <3>2. /\ q \in Nat /\ a \in Nat /\ b \in Nat /\ Eps \in Nat
          /\ Ahead(reverse, a, q) <=> IF reverse THEN a > q + Eps ELSE q > a + Eps
          /\ Ahead(reverse, q, b) <=> IF reverse THEN q > b + Eps ELSE b > q + Eps
      BY <2>1, <3>1, AheadIs
    <3>3. /\ reverse => (q = a \/ a > q + Eps) /\ (q = b \/ q > b + Eps)
          /\ ~reverse => (q = a \/ q > a + Eps) /\ (q = b \/ b > q + Eps)
      BY <2>3, <3>2
    <3>4. /\ a > q + Eps => a > q
          /\ q > b + Eps => q > b
          /\ q > a + Eps => q > a
          /\ b > q + Eps => b > q
      BY <3>2
    <3> QED
      BY <3>2, <3>3, <3>4
  <2>6. a # NIL /\ b # NIL
    BY <2>1, NodeNames
  <2>7. CASE reverse
    BY <2>1, <2>4, <2>5, <2>6, <2>7
  <2>8. CASE ~reverse
    BY <2>1, <2>4, <2>5, <2>6, <2>8
  <2> QED
    BY <2>7, <2>8
<1> QED
  BY <1>3, <1>4

LEMMA CountFirst ==
  ASSUME NEW k \in Nat, NEW v, \A i, j \in 1 .. k : v[i] = v[j] => i = j
  PROVE  Cardinality({v[j] : j \in 1 .. k}) = k
<1> DEFINE D == 1 .. k
           T == {v[j] : j \in D}
           f == [j \in D |-> v[j]]
<1>1. IsFiniteSet(D) /\ Cardinality(D) = k
  <2>1. IsFiniteSet(1 .. k) /\ Cardinality(1 .. k) = IF 1 > k THEN 0 ELSE k - 1 + 1
    BY FS_Interval
  <2> QED
    BY <2>1
<1>2. f \in Bijection(D, T)
  <2> HIDE DEF D
  <2> QED
    BY DEF D, Bijection, Injection, Surjection, IsInjective
<1> HIDE DEF f, D, T
<1>3. ExistsBijection(D, T)
  BY <1>2 DEF ExistsBijection
<1>4. Cardinality(T) = Cardinality(D)
  BY <1>1, <1>3, FS_Bijection
<1> QED
  BY <1>1, <1>4 DEF D, T

\* The best n levels, or all of them, the best one first: before the k-th one
\* come k - 1 others.
LEMMA TopFound ==
  ASSUME TreeInv, NEW n \in Nat
  PROVE  LET top == GetTopLevels(n)
         IN  /\ Len(top) = IF n < size THEN n ELSE size
             /\ \A k \in 1 .. Len(top) :
                  Cardinality({q \in Held : compare(q, top[k]) < 0}) = k - 1
<1> DEFINE c == Chain(0)
           m == IF n < Len(c) THEN n ELSE Len(c)
           v == [k \in 1 .. Len(c) |-> value[c[k]]]
<1>1. InOrder(reverse, c, Present, HEADER)
  BY ChainOrdered, FloorsAre
<1> HIDE DEF c
<1>2. /\ c \in Seq(Prices) /\ NodesOf(c) = Present /\ Len(c) \in Nat
      /\ \A j, k \in 1 .. Len(c) : j < k => Ahead(reverse, c[j], c[k])
      /\ \A k \in 1 .. Len(c) : c[k] \in Present
  BY <1>1 DEF InOrder, Prior, NodesOf
<1>3. ASSUME NEW i \in 1 .. Len(c), NEW j \in 1 .. Len(c)
      PROVE  /\ Ahead(reverse, c[i], c[j]) <=> i < j
             /\ c[i] = c[j] => i = j
  <2>1. c[i] \in Prices /\ c[j] \in Prices /\ reverse \in BOOLEAN /\ i \in Int /\ j \in Int
    BY <1>2, PresentOrdered
  <2>2. i < j => Ahead(reverse, c[i], c[j])
    BY <1>2
  <2>3. j < i => Ahead(reverse, c[j], c[i])
    BY <1>2
  <2>4. i = j \/ i < j \/ j < i
    BY <2>1
  <2> QED
    BY <2>1, <2>2, <2>3, <2>4, Trichotomy, Irreflexive
<1>4. Len(c) = size
  <2>1. Cardinality({c[j] : j \in 1 .. Len(c)}) = Len(c)
    BY <1>2, <1>3, CountFirst
  <2> QED
    BY <1>2, <2>1, PresentOrdered DEF NodesOf
<1>5. GetTopLevels(n) = [k \in 1 .. m |-> value[c[k]]]
  BY DEF GetTopLevels, c
<1>6. /\ m \in Nat /\ m = (IF n < size THEN n ELSE size) /\ m <= Len(c)
      /\ \A k \in 1 .. m : k \in 1 .. Len(c)
  BY <1>2, <1>4
<1> HIDE DEF m
<1>7. /\ Len(GetTopLevels(n)) = m
      /\ \A k \in 1 .. m : GetTopLevels(n)[k] = value[c[k]]
  BY <1>5, <1>6
<1>8. ASSUME NEW k \in 1 .. Len(c)
      PROVE  Cardinality({q \in Held : compare(q, value[c[k]]) < 0}) = k - 1
  <2>1. Held = {value[c[j]] : j \in 1 .. Len(c)}
    BY <1>2, HeldIs DEF HeldByNodes, NodesOf
  <2>2. ASSUME NEW j \in 1 .. Len(c)
        PROVE  compare(value[c[j]], value[c[k]]) < 0 <=> j < k
    <3>1. /\ c[j] \in Present /\ c[k] \in Present /\ value[c[j]] \in Nodes
          /\ value[c[k]] \in Nodes /\ reverse \in BOOLEAN
      BY <1>2, PresentOrdered, NodeNames
    <3>2. compare(value[c[j]], value[c[k]]) < 0 <=> Ahead(reverse, value[c[j]], value[c[k]])
      BY <3>1, CompareIs
    <3>3. Ahead(reverse, value[c[j]], value[c[k]]) <=> Ahead(reverse, c[j], c[k])
      BY <3>1, ValuesOrdered
    <3> QED
      BY <3>2, <3>3, <1>3
  <2>3. \A j : j \in 1 .. Len(c) /\ j < k <=> j \in 1 .. k - 1
    BY <1>2
  <2>4. {q \in Held : compare(q, value[c[k]]) < 0} = {v[j] : j \in 1 .. k - 1}
    BY <2>1, <2>2, <2>3
  <2>5. \A i, j \in 1 .. k - 1 : v[i] = v[j] => i = j
    <3>1. \A i \in 1 .. Len(c) : v[i] = value[c[i]] /\ c[i] \in Present
      BY <1>2
    <3> HIDE DEF v
    <3>2. \A i, j \in 1 .. Len(c) : value[c[i]] = value[c[j]] => c[i] = c[j]
      BY <1>2, HeldSame, PresentOrdered
    <3> QED
      BY <3>1, <3>2, <2>3, <1>3
  <2> DEFINE l == k - 1
  <2>6. l \in Nat
    OBVIOUS
  <2>7. /\ {q \in Held : compare(q, value[c[k]]) < 0} = {v[j] : j \in 1 .. l}
        /\ \A i, j \in 1 .. l : v[i] = v[j] => i = j
    BY <2>4, <2>5
  <2> HIDE DEF v, l
  <2>8. Cardinality({q \in Held : compare(q, value[c[k]]) < 0}) = l
    BY <2>6, <2>7, CountFirst
  <2> QED
    BY <2>8 DEF l
<1> QED
  BY <1>6, <1>7, <1>8

\* s shows the levels of the nodes in T, each once, in their order.
Shows(s, T) ==
  /\ s \in Seq(Prices) /\ NodesOf(s) = {value[n] : n \in T}
  /\ \A j, k \in 1 .. Len(s) : j < k => Ahead(reverse, s[j], s[k])

\* A visit of the levels along the bottom floor that ends behind the nodes of K.
Spots == Nodes \cup {NIL}
After == [m \in Spots |-> forward[m][0]]
KeptTo(K, Stop) ==
  /\ K \subseteq Present
  /\ \A m \in Present : m \in Stop <=> m \notin K
  /\ NIL \in Stop
  /\ \A m \in Present, n \in K : Ahead(reverse, m, n) => m \in K

\* The nodes of K from x on.
From(x, K) == IF x = NIL THEN {} ELSE {n \in K : n = x \/ Ahead(reverse, x, n)}

LEMMA SpotsDescend ==
  ASSUME TreeInv, NEW Stop, NIL \in Stop
  PROVE  \E rank, M : /\ Descends(Spots, Stop, After, rank)
                      /\ M \in Nat /\ \A m \in Spots : rank[m] < M
<1>1. PICK rk, M : Ranks(Column(0), rk, M)
  BY PresentOrdered, LinksRank
<1> DEFINE rank == [m \in Spots |-> IF m = NIL THEN 0 ELSE rk[m] + 1]
<1>2. M \in Nat
  BY <1>1 DEF Ranks
<1>3. ASSUME NEW m \in Spots
      PROVE  /\ rank[m] \in Nat /\ rank[m] < M + 1
             /\ m \notin Stop => After[m] \in Spots /\ rank[After[m]] < rank[m]
  <2>1. CASE m = NIL
    BY <2>1, <1>2 
  <2>2. CASE m # NIL
    <3>1. /\ m \in Nodes /\ rk[m] \in Nat /\ rk[m] < M /\ rank[m] = rk[m] + 1
          /\ After[m] = Column(0)[m]
          /\ Column(0)[m] # NIL => Column(0)[m] \in Nodes /\ rk[Column(0)[m]] < rk[m]
                                   /\ rk[Column(0)[m]] \in Nat
      BY <2>2, <1>1 DEF Spots, Ranks, After, Column
    <3> DEFINE x == Column(0)[m]
    <3>2. x \in Spots /\ rank[x] = IF x = NIL THEN 0 ELSE rk[x] + 1
      BY <3>1 DEF Spots
    <3> HIDE DEF rank, x
    <3>3. x # NIL => rk[x] \in Nat /\ rk[x] < rk[m]
      BY <3>1 DEF x
    <3>4. After[m] = x
      BY <3>1 DEF x
    <3>5. rank[x] < rank[m]
      <4>1. x # NIL => rk[x] + 1 < rk[m] + 1
        BY <3>1, <3>3
      <4>2. 0 < rk[m] + 1
        BY <3>1
      <4> QED
        BY <3>1, <3>2, <4>1, <4>2
    <3>6. rank[m] \in Nat /\ rank[m] < M + 1
      <4>1. rk[m] + 1 \in Nat /\ rk[m] + 1 < M + 1
        BY <3>1, <1>2
      <4> QED
        BY <3>1, <4>1
    <3> QED
      BY <3>2, <3>4, <3>5, <3>6
  <2> QED
    BY <2>1, <2>2
<1> HIDE DEF rank
<1>4. Descends(Spots, Stop, After, rank) /\ M + 1 \in Nat /\ \A m \in Spots : rank[m] < M + 1
  BY <1>2, <1>3 DEF Descends
<1> QED
  BY <1>4

LEMMA VisitsShow ==
  ASSUME TreeInv, NEW K, NEW Stop, KeptTo(K, Stop),
         NEW g, Lists(g, Spots, Stop, value, After), NEW y \in Present \cup {NIL}
  PROVE  Shows(g[y], From(y, K))
<1> DEFINE P == {m \in Spots : m \in Present \cup {NIL} => Shows(g[m], From(m, K))}
<1>0. NIL \notin Present /\ reverse \in BOOLEAN /\ Present \subseteq Prices
      /\ Present \cup {NIL} \subseteq Spots /\ K \subseteq Present
  BY PresentOrdered DEF Spots, KeptTo
<1>1. \A m \in Spots : g[m] = IF m \in Stop THEN <<>> ELSE <<value[m]>> \o g[After[m]]
  BY DEF Lists
<1>2. ASSUME NEW m \in Spots, m \in Stop \/ After[m] \in P
      PROVE  m \in P
  <2> SUFFICES ASSUME m \in Present \cup {NIL} PROVE Shows(g[m], From(m, K))
    OBVIOUS
  <2>1. CASE m \in Stop
    <3>1. From(m, K) = {}
      BY <2>1, <1>0, Irreflexive DEF From, KeptTo
    <3>2. g[m] = <<>>
      BY <2>1, <1>1
    <3>3. <<>> \in Seq(Prices) /\ Len(<<>>) = 0 /\ NodesOf(<<>>) = {}
      BY DEF NodesOf
    <3> QED
      BY <3>1, <3>2, <3>3 DEF Shows
  <2>2. CASE m \notin Stop
    <3> DEFINE x == After[m]
               s == g[x]
    <3>1. m \in K /\ m \in Present /\ m # NIL
      BY <2>2, <1>0 DEF KeptTo
    <3>2. x = Column(0)[m]
      BY <3>1, PresentOrdered DEF After, Column, Spots
    <3>3. Follows(reverse, m, x, Present) /\ g[m] = <<value[m]>> \o s
      BY <2>2, <3>1, <3>2, <1>1, PresentOrdered DEF Links
    <3> HIDE DEF x
    <3>4. x \in Present \cup {NIL}
      BY <3>3 DEF Follows
    <3>5. Shows(s, From(x, K))
      BY <2>2, <3>4, <1>2 DEF x
    <3>6. From(x, K) = {n \in K : Ahead(reverse, m, n)}
      <4>1. CASE x = NIL
        BY <3>1, <3>3, <4>1, <1>0, NodeNames DEF From, Follows, Prior
      <4>2. CASE x # NIL
        <5>1. x \in Present /\ Ahead(reverse, m, x)
          BY <3>1, <3>3, <4>2, <1>0, NodeNames DEF Follows, Prior
        <5>2. \A n \in K : Ahead(reverse, m, n) => n = x \/ Ahead(reverse, x, n)
          BY <3>1, <3>3, <4>2, <5>1, <1>0, NodeNames DEF Follows, Prior
        <5>3. \A n \in K : Ahead(reverse, x, n) => Ahead(reverse, m, n)
          BY <3>1, <5>1, <1>0, Transitive
        <5> QED
          BY <4>2, <5>1, <5>2, <5>3 DEF From
      <4> QED
        BY <4>1, <4>2
    <3>7. From(m, K) = {m} \cup From(x, K)
      BY <3>1, <3>6 DEF From
    <3> HIDE DEF s
    <3> DEFINE v == value[m]
               c == <<v>> \o s
    <3>8. v \in Prices /\ s \in Seq(Prices) /\ NodesOf(s) = {value[n] : n \in From(x, K)}
      BY <3>1, <3>5, PresentOrdered DEF Shows
    <3>9. \A q \in NodesOf(s) : Ahead(reverse, v, q)
      BY <3>1, <3>6, <3>8, <1>0, ValuesOrdered
    <3> HIDE DEF v
    <3>10. /\ c \in Seq(Prices) /\ NodesOf(c) = {v} \cup NodesOf(s)
           /\ Len(c) = Len(s) + 1 /\ c[1] = v /\ Len(s) \in Nat
           /\ \A k \in 2 .. Len(s) + 1 : c[k] = s[k - 1] /\ s[k - 1] \in NodesOf(s)
      BY <3>8, ConsNodes
    <3> HIDE DEF c
    <3>11. NodesOf(c) = {value[n] : n \in From(m, K)}
      BY <3>7, <3>8, <3>10 DEF v
    <3>12. ASSUME NEW j \in 1 .. Len(c), NEW k \in 1 .. Len(c), j < k
           PROVE  Ahead(reverse, c[j], c[k])
      <4>1. k \in 2 .. Len(s) + 1
        BY <3>10, <3>12
      <4>2. CASE j = 1
        BY <3>9, <3>10, <4>1, <4>2
      <4>3. CASE j # 1
        <5>1. j \in 2 .. Len(s) + 1 /\ j - 1 \in 1 .. Len(s) /\ k - 1 \in 1 .. Len(s)
              /\ j - 1 < k - 1
          BY <3>10, <3>12, <4>1, <4>3
        <5>2. Ahead(reverse, s[j - 1], s[k - 1])
          BY <3>5, <5>1 DEF Shows
        <5> QED
          BY <3>10, <4>1, <5>1, <5>2
      <4> QED
        BY <4>2, <4>3
    <3>13. g[m] = c
      BY <3>3 DEF c, v
    <3> QED
      BY <3>10, <3>11, <3>12, <3>13 DEF Shows
  <2> QED
    BY <2>1, <2>2
<1> HIDE DEF P
<1>3. PICK rank, M : Descends(Spots, Stop, After, rank)
  BY SpotsDescend DEF KeptTo
<1>4. Spots \subseteq P
  BY <1>2, <1>3, WalkInduction
<1> QED
  BY <1>0, <1>4 DEF P

LEMMA VisitsExist ==
  ASSUME TreeInv, NEW Stop, NIL \in Stop
  PROVE  \E g : Lists(g, Spots, Stop, value, After)
<1>1. PICK rank, M : /\ Descends(Spots, Stop, After, rank)
                     /\ M \in Nat /\ \A m \in Spots : rank[m] < M
  BY SpotsDescend
<1> QED
  BY <1>1, ListsExist

\* From the place found for a the visit starts at the first level not before a.
LEMMA FromFound ==
  ASSUME TreeInv, NEW a \in Prices, NEW K, K \subseteq Present
  PROVE  From(Found(a), K) = {n \in K : ~Ahead(reverse, n, a)}
<1> DEFINE x == Found(a)
<1>1. FirstFrom(x, a)
  BY FoundIs
<1> HIDE DEF x
<1>2. x = NIL => From(x, K) = {n \in K : ~Ahead(reverse, n, a)}
  BY <1>1 DEF FirstFrom, From
<1>3. ASSUME x # NIL
      PROVE  From(x, K) = {n \in K : ~Ahead(reverse, n, a)}
  <2>1. x \in Present /\ ~Ahead(reverse, x, a)
        /\ \A n \in Present : Ahead(reverse, n, a) \/ n = x \/ Ahead(reverse, x, n)
    BY <1>1, <1>3 DEF FirstFrom
  <2>2. \A n \in Present : Ahead(reverse, x, n) => ~Ahead(reverse, n, a)
    BY <2>1, PresentOrdered, Transitive
  <2> QED
    BY <1>3, <2>1, <2>2 DEF From
<1> QED
  BY <1>2, <1>3 DEF x

LEMMA FoundSpot ==
  ASSUME TreeInv, NEW a \in Prices
  PROVE  Found(a) \in Present \cup {NIL}
  BY FoundIs DEF FirstFrom

\* What a level of the tree says of two bounds.
LEMMA BoundsOf ==
  ASSUME TreeInv, NEW p \in Prices, NEW n \in Present
  PROVE  /\ compare(value[n], p) >= 0 <=> ~Ahead(reverse, n, p)
         /\ compare(value[n], p) <= 0 <=> Equal(n, p) \/ Ahead(reverse, n, p)
         /\ compare(n, p) > 0 <=> ~(Equal(n, p) \/ Ahead(reverse, n, p))
<1>1. value[n] \in Nodes /\ p \in Nodes /\ n \in Nodes /\ reverse \in BOOLEAN
  BY PresentOrdered, NodeNames
<1>2. /\ Ahead(reverse, value[n], p) <=> Ahead(reverse, n, p)
      /\ Equal(value[n], p) <=> Equal(n, p)
  BY ValuesOrdered
<1>3. compare(value[n], p) \in {-1, 0, 1}
  BY DEF compare
<1>4. /\ compare(value[n], p) < 0 <=> Ahead(reverse, value[n], p)
      /\ compare(value[n], p) > 0 <=> ~Equal(value[n], p) /\ ~Ahead(reverse, value[n], p)
      /\ compare(n, p) > 0 <=> ~Equal(n, p) /\ ~Ahead(reverse, n, p)
  BY <1>1, CompareIs
<1>5. /\ compare(value[n], p) >= 0 <=> ~(compare(value[n], p) < 0)
      /\ compare(value[n], p) <= 0 <=> ~(compare(value[n], p) > 0)
  BY <1>3
<1> QED
  BY <1>2, <1>4, <1>5

LEMMA RangeFromFound ==
  ASSUME TreeInv, NEW a \in Prices
  PROVE  NodesOf(RangeFrom(a)) = {q \in Held : compare(q, a) >= 0}
<1> DEFINE Visits(g) == g = [m \in Spots |-> IF m = NIL THEN <<>>
                                             ELSE <<value[m]>> \o g[forward[m][0]]]
<1>1. \A g : Visits(g) <=> Lists(g, Spots, {NIL}, value, After)
  BY DEF Lists, After
<1>2. \E g : Visits(g)
  BY <1>1, VisitsExist
<1> DEFINE from == CHOOSE g : Visits(g)
<1>3. Visits(from)
  BY <1>2
<1>4. RangeFrom(a) = from[Found(a)]
  BY DEF RangeFrom, StartAt, Spots
<1> HIDE DEF from, Visits
<1>5. KeptTo(Present, {NIL})
  BY PresentOrdered DEF KeptTo
<1>6. Shows(from[Found(a)], From(Found(a), Present))
  BY <1>1, <1>3, <1>5, FoundSpot, VisitsShow
<1>7. NodesOf(RangeFrom(a)) = {value[n] : n \in {k \in Present : ~Ahead(reverse, k, a)}}
  BY <1>4, <1>6, FromFound DEF Shows
<1>8. Held = {value[n] : n \in Present}
  BY HeldIs DEF HeldByNodes
<1> QED
  BY <1>7, <1>8, BoundsOf

LEMMA RangeBetweenFound ==
  ASSUME TreeInv, NEW a \in Prices, NEW b \in Prices
  PROVE  LET met == RangeBetween(a, b)
         IN  /\ NodesOf(met) = {q \in Held : compare(q, a) >= 0 /\ compare(q, b) <= 0}
             /\ \A k \in 2 .. Len(met) : compare(met[k - 1], met[k]) < 0
<1> DEFINE met == RangeBetween(a, b)
           Stop == {NIL} \cup {m \in Nodes : compare(m, b) > 0}
           K == {n \in Present : Equal(n, b) \/ Ahead(reverse, n, b)}
           Visits(g) == g = [m \in Spots |-> IF m = NIL THEN <<>>
                                             ELSE IF compare(m, b) > 0 THEN <<>>
                                             ELSE <<value[m]>> \o g[forward[m][0]]]
<1>1. \A g : Visits(g) <=> Lists(g, Spots, Stop, value, After)
  <2> SUFFICES ASSUME NEW g
               PROVE  Visits(g) <=> Lists(g, Spots, Stop, value, After)
    OBVIOUS
  <2>1. [m \in Spots |-> IF m = NIL THEN <<>> ELSE IF compare(m, b) > 0 THEN <<>>
                         ELSE <<value[m]>> \o g[forward[m][0]]]
        = [m \in Spots |-> IF m \in Stop THEN <<>> ELSE <<value[m]>> \o g[After[m]]]
    BY NodeNames DEF After, Spots
  <2> QED
    BY <2>1 DEF Lists
<1>2. \E g : Visits(g)
  BY <1>1, VisitsExist
<1> DEFINE from == CHOOSE g : Visits(g)
<1>3. Visits(from)
  BY <1>2
<1>4. met = from[Found(a)]
  BY DEF RangeBetween, StartAt, Spots
<1> HIDE DEF from, Visits
<1>5. KeptTo(K, Stop)
  <2>1. \A m \in Present : m \in Stop <=> m \notin K
    BY PresentOrdered, BoundsOf
  <2>2. \A m \in Present, n \in K : Ahead(reverse, m, n) => m \in K
    BY PresentOrdered, Transitive
  <2> HIDE DEF K, Stop
  <2> QED
    BY <2>1, <2>2 DEF KeptTo, K, Stop
<1>6. K \subseteq Present
  OBVIOUS
<1> HIDE DEF Stop, met, K
<1>7. Shows(met, From(Found(a), K))
  BY <1>1, <1>3, <1>4, <1>5, FoundSpot, VisitsShow
<1>8. NodesOf(met) = {value[n] : n \in {k \in K : ~Ahead(reverse, k, a)}}
  BY <1>6, <1>7, FromFound DEF Shows
<1>9. Held = {value[n] : n \in Present}
  BY HeldIs DEF HeldByNodes
<1>10. NodesOf(met) = {q \in Held : compare(q, a) >= 0 /\ compare(q, b) <= 0}
  BY <1>8, <1>9, BoundsOf DEF K
<1>11. ASSUME NEW k \in 2 .. Len(met)
       PROVE  compare(met[k - 1], met[k]) < 0
  <2>1. met \in Seq(Prices) /\ Len(met) \in Nat
    BY <1>7 DEF Shows
  <2>2. k \in 1 .. Len(met) /\ k - 1 \in 1 .. Len(met) /\ k - 1 < k
    BY <2>1
  <2>3. met[k] \in Nodes /\ met[k - 1] \in Nodes /\ Ahead(reverse, met[k - 1], met[k])
    BY <1>7, <2>1, <2>2, NodeNames DEF Shows
  <2> QED
    BY <2>3, CompareIs, PresentOrdered
<1> QED
  BY <1>10, <1>11 DEF met

\* In an ascending tree the header's key does not come after a price.
LEMMA HeaderAhead ==
  ASSUME NEW r \in BOOLEAN, ~r, NEW p \in Prices
  PROVE  Equal(HEADER, p) \/ Ahead(r, HEADER, p)
<1>1. ~(HEADER > p)
  BY TreeAssumption DEF HEADER
<1>2. Ahead(r, HEADER, p) <=> ~Equal(HEADER, p) /\ ((HEADER > p) = r)
  BY DEF Ahead, Equal
<1> HIDE DEF HEADER
<1> QED
  BY <1>1, <1>2

\* An ascending tree passes Validate, and GetPriceRange spans it.
LEMMA AscendingValid ==
  ASSUME TreeInv, ~reverse
  PROVE  /\ Validate
         /\ size > 0 => \A n \in Present : n \in GetPriceRange.min .. GetPriceRange.max
<1>1. ASSUME NEW i \in 0 .. level
      PROVE  LET c == <<HEADER>> \o Chain(i)
             IN  \A k \in 2 .. Len(c) : compare(c[k - 1], c[k]) <= 0 /\ height[c[k]] >= i
  <2> DEFINE s == Chain(i)
             c == <<HEADER>> \o s
  <2>1. InOrder(reverse, s, On(i), HEADER) /\ On(i) \subseteq Prices
    BY ChainOrdered, FloorsAre
  <2> HIDE DEF s
  <2>2. /\ s \in Seq(Prices) /\ Len(s) \in Nat /\ NodesOf(s) \subseteq On(i)
        /\ \A j \in 1 .. Len(s) : s[j] \in On(i) /\ s[j] \in Prices
        /\ \A j, k \in 1 .. Len(s) : j < k => Ahead(reverse, s[j], s[k])
    BY <2>1 DEF InOrder, NodesOf
  <2>3. /\ Len(c) = Len(s) + 1 /\ c[1] = HEADER
        /\ \A k \in 2 .. Len(s) + 1 : c[k] = s[k - 1] /\ k - 1 \in 1 .. Len(s)
    BY <2>2
  <2> HIDE DEF c
  <2>4. ASSUME NEW k \in 2 .. Len(c)
        PROVE  compare(c[k - 1], c[k]) <= 0 /\ height[c[k]] >= i
    <3>1. c[k] = s[k - 1] /\ k - 1 \in 1 .. Len(s) /\ c[k] \in On(i) /\ c[k] \in Prices
      BY <2>2, <2>3
    <3>2. compare(c[k - 1], c[k]) <= 0
      <4>1. CASE k = 2
        <5>1. c[k - 1] = HEADER
          BY <2>3, <4>1
        <5>2. compare(HEADER, c[k]) <= 0
          <6>1. c[k] \in Nodes /\ HEADER \in Nodes /\ reverse \in BOOLEAN
            BY <3>1, NodeNames, FloorsAre
          <6>2. Equal(HEADER, c[k]) \/ Ahead(reverse, HEADER, c[k])
            BY <3>1, <6>1, HeaderAhead
          <6>3. compare(HEADER, c[k]) \in {-1, 0, 1}
            BY DEF compare
          <6>4. ~(compare(HEADER, c[k]) > 0)
            BY <6>1, <6>2, CompareIs
          <6> QED
            BY <6>3, <6>4
        <5> QED
          BY <5>1, <5>2
      <4>2. CASE k # 2
        <5> DEFINE j == k - 1
        <5>1. j \in 2 .. Len(s) + 1 /\ j \in 1 .. Len(s) /\ j - 1 < j /\ j - 1 \in 1 .. Len(s)
          BY <2>2, <2>3, <4>2
        <5>2. c[j] = s[j - 1] /\ c[k] = s[j] /\ Ahead(reverse, s[j - 1], s[j])
          BY <2>2, <2>3, <3>1, <5>1
        <5>3. c[j] \in Nodes /\ c[k] \in Nodes /\ reverse \in BOOLEAN
          BY <2>2, <3>1, <5>1, <5>2, NodeNames, FloorsAre
        <5>4. compare(c[j], c[k]) < 0
          BY <5>2, <5>3, CompareIs
        <5>5. compare(c[j], c[k]) \in {-1, 0, 1}
          BY DEF compare
        <5> HIDE DEF j
        <5>6. compare(c[j], c[k]) <= 0
          BY <5>4, <5>5
        <5> QED
          BY <5>6 DEF j
      <4> QED
        BY <4>1, <4>2
    <3> QED
      BY <3>1, <3>2 DEF On
  <2> QED
    BY <2>4 DEF c, s
<1>2. ASSUME size > 0, NEW n \in Present
      PROVE  n \in GetPriceRange.min .. GetPriceRange.max
  <2>1. size # 0 /\ Present # {}
    BY <1>2
  <2>2. GetPriceRange.min = First /\ GetPriceRange.max = Last
    BY <2>1 DEF GetPriceRange
  <2>3. /\ First \in Present /\ (n = First \/ Ahead(reverse, First, n))
        /\ Last \in Present /\ (n = Last \/ Ahead(reverse, n, Last))
    BY <2>1, FirstIs, LastIs
  <2>4. /\ First \in Prices /\ Last \in Prices /\ n \in Prices /\ reverse \in BOOLEAN
        /\ First \in Nat /\ Last \in Nat /\ n \in Nat /\ Eps \in Nat
    BY <2>3, PresentOrdered, TreeAssumption
  <2>5. n = First \/ n > First + Eps
    BY <2>3, <2>4, AheadIs
  <2>6. n = Last \/ Last > n + Eps
    BY <2>3, <2>4, AheadIs
  <2> QED
    BY <2>2, <2>4, <2>5, <2>6
<1> QED
  BY <1>1, <1>2 DEF Validate

LEMMA TreeLookupsAgree == TreeInv => LookupsAgree
<1> SUFFICES ASSUME TreeInv PROVE LookupsAgree
  OBVIOUS
<1>1. Cardinality(Prices) \in Nat
  BY TreeAssumption, FS_CardinalityType
<1>2. \A n \in 0 .. Cardinality(Prices) :
        LET top == GetTopLevels(n)
        IN  /\ Len(top) = IF n < size THEN n ELSE size
            /\ \A k \in 1 .. Len(top) :
                 Cardinality({q \in Held : compare(q, top[k]) < 0}) = k - 1
  BY TopFound
<1>3. \A a, b \in Prices :
        LET met == RangeBetween(a, b)
        IN  /\ NodesOf(met) = {q \in Held : compare(q, a) >= 0 /\ compare(q, b) <= 0}
            /\ NodesOf(RangeFrom(a)) = {q \in Held : compare(q, a) >= 0}
            /\ \A k \in 2 .. Len(met) : compare(met[k - 1], met[k]) < 0
  BY RangeBetweenFound, RangeFromFound
<1>4. \A p \in Prices : {Get(p)} \ {NIL} = {q \in Held : Abstract!Same(p, q)}
  BY GetFinds
<1> QED
  BY <1>2, <1>3, <1>4, EndsFound, AscendingValid DEF LookupsAgree

\* Whatever the towers: Get finds the level of a price if there is one, the two ends
\* are the lowest and the highest level, GetTopLevels returns the best ones in
\* their order, the ranges visit every level between their bounds once and in
\* order, and an ascending tree passes its own Validate.
THEOREM TreeLookups == Spec => []LookupsAgree
  BY TreeInvariant, TreeLookupsAgree, PTL
=============================================================================
