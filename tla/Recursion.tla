----------------------------- MODULE Recursion -----------------------------
(***************************************************************************)
(* Lemmas on what the model defines by recursion, for the proof modules:   *)
(* induction over a set of numbers, the sum of a function over a finite    *)
(* set, the rank of an element in an order, and walks along pointers.  A   *)
(* recursive function is a CHOOSE of one that satisfies its equation: such *)
(* a lemma shows that one exists, and what every one of them returns.      *)
(***************************************************************************)
EXTENDS Sequences, FiniteSetTheorems, TLAPS

(* Induction over a set of numbers. *)

\* A set of numbers that holds 0, and the next number of each it holds, up to
\* N, holds all of them up to N.
LEMMA UpTo ==
  ASSUME NEW S, NEW N \in Nat, 0 \in S, \A n \in 0 .. N - 1 : n \in S => n + 1 \in S
  PROVE  0 .. N \subseteq S
<1> DEFINE T == {n \in 0 .. N : n \notin S}
<1> SUFFICES ASSUME T # {} PROVE FALSE
  OBVIOUS
<1>1. T \subseteq Nat
  OBVIOUS
<1>2. PICK x \in T : \A y \in T : <<y, x>> \notin OpToRel(<, Nat)
  <2> HIDE DEF T
  <2> QED
    BY <1>1, WFMin, NatLessThanWellFounded
<1>3. x # 0 /\ x - 1 \in 0 .. N - 1
  OBVIOUS
<1>4. x - 1 \in S
  <2> SUFFICES ASSUME x - 1 \notin S PROVE FALSE
    OBVIOUS
  <2>1. x - 1 \in T
    BY <1>3
  <2>2. <<x - 1, x>> \in OpToRel(<, Nat)
    BY <1>1, <2>1, <1>3 DEF OpToRel
  <2> QED
    BY <1>2, <2>1, <2>2
<1> QED
  BY <1>3, <1>4

\* Without the bound.
LEMMA AllNumbers ==
  ASSUME NEW S, 0 \in S, \A n \in Nat : n \in S => n + 1 \in S
  PROVE  Nat \subseteq S
<1> SUFFICES ASSUME NEW n \in Nat PROVE n \in S
  OBVIOUS
<1>1. 0 .. n \subseteq S
  BY UpTo
<1> QED
  BY <1>1

-----------------------------------------------------------------------------
(* Sums                                                                    *)

\* The element a sum over s takes off first.
FirstOf(s) == CHOOSE x \in s : TRUE

\* There is one.
LEMMA FirstOfIn == ASSUME NEW s, s # {} PROVE FirstOf(s) \in s
  BY DEF FirstOf

\* What SumFunctionOnSet computes with.
IsSum(g, f, D) ==
  g = [s \in D |-> IF s = {} THEN 0 ELSE f[FirstOf(s)] + g[s \ {FirstOf(s)}]]

Computes(g, f, S) == IsSum(g, f, SUBSET S)

\* The subsets of S of at most n elements.
Small(S, n) == {s \in SUBSET S : Cardinality(s) <= n}

\* What is left of a finite set is a smaller one.
LEMMA SmallRest ==
  ASSUME NEW S, IsFiniteSet(S), NEW s \in SUBSET S, s # {}
  PROVE  /\ IsFiniteSet(s) /\ s \ {FirstOf(s)} \in SUBSET S
         /\ Cardinality(s) \in Nat \ {0}
         /\ Cardinality(s \ {FirstOf(s)}) = Cardinality(s) - 1
<1>1. IsFiniteSet(s)
  BY FS_Subset
<1>2. Cardinality(s) \in Nat /\ Cardinality(s) # 0
  BY <1>1, FS_CardinalityType, FS_EmptySet
<1>3. Cardinality(s \ {FirstOf(s)}) = Cardinality(s) - 1
  BY <1>1, FirstOfIn, FS_RemoveElement
<1> QED
  BY <1>1, <1>2, <1>3

\* The recursion of the sum ends: the function it speaks of exists.
LEMMA SumExists ==
  ASSUME NEW S, IsFiniteSet(S), NEW f
  PROVE  \E g : Computes(g, f, S)
<1> DEFINE T == {n \in Nat : \E g : IsSum(g, f, Small(S, n))}
           N == Cardinality(S)
<1>0. N \in Nat
  BY FS_CardinalityType
<1>1. 0 \in T
  <2> DEFINE g == [s \in Small(S, 0) |-> 0]
  <2>1. \A s \in Small(S, 0) : s = {}
    BY FS_Subset, FS_CardinalityType, FS_EmptySet DEF Small
  <2>2. g = [s \in Small(S, 0) |-> IF s = {} THEN 0 ELSE f[FirstOf(s)] + g[s \ {FirstOf(s)}]]
    BY <2>1
  <2>3. IsSum(g, f, Small(S, 0))
    BY <2>2 DEF IsSum
  <2> QED
    BY <2>3
<1>2. ASSUME NEW n \in Nat, n \in T
      PROVE  n + 1 \in T
  <2>1. PICK g : IsSum(g, f, Small(S, n))
    BY <1>2
  <2> DEFINE h == [s \in Small(S, n + 1) |->
                     IF s = {} THEN 0 ELSE f[FirstOf(s)] + g[s \ {FirstOf(s)}]]
  <2>2. ASSUME NEW s \in Small(S, n + 1), s # {}
        PROVE  s \ {FirstOf(s)} \in Small(S, n)
    BY <2>2, SmallRest DEF Small
  <2>3. ASSUME NEW s \in Small(S, n)
        PROVE  g[s] = h[s]
    <3>1. s \in Small(S, n + 1)
      BY FS_Subset, FS_CardinalityType DEF Small
    <3>2. g[s] = IF s = {} THEN 0 ELSE f[FirstOf(s)] + g[s \ {FirstOf(s)}]
      BY <2>1, Zenon DEF IsSum
    <3> QED
      BY <3>1, <3>2
  <2>4. \A s \in Small(S, n + 1) : s # {} => g[s \ {FirstOf(s)}] = h[s \ {FirstOf(s)}]
    BY <2>2, <2>3
  <2>5. IsSum(h, f, Small(S, n + 1))
    BY <2>4 DEF IsSum
  <2> QED
    BY <2>5
<1> HIDE DEF T
<1>3. N \in T
  BY <1>0, <1>1, <1>2, AllNumbers
<1>4. PICK g : IsSum(g, f, Small(S, N))
  BY <1>3 DEF T
<1>5. Small(S, N) = SUBSET S
  BY FS_Subset DEF Small
<1> QED
  BY <1>4, <1>5 DEF Computes

\* Two computations agree where the numbers they add agree.
Agree(f, e, s) == \A x \in s : f[x] = e[x]

LEMMA SumUnique ==
  ASSUME NEW S, IsFiniteSet(S), NEW f, NEW g, Computes(g, f, S),
         NEW R, R \subseteq S, NEW e, NEW h, Computes(h, e, R), Agree(f, e, R)
  PROVE  g[R] = h[R]
<1> DEFINE s == R
<1> DEFINE T == {n \in Nat : \A u \in SUBSET s : Cardinality(u) = n => g[u] = h[u]}
<1>0. IsFiniteSet(s) /\ Cardinality(s) \in Nat
  BY FS_Subset, FS_CardinalityType
<1>1. \A u \in SUBSET s :
        /\ g[u] = IF u = {} THEN 0 ELSE f[FirstOf(u)] + g[u \ {FirstOf(u)}]
        /\ h[u] = IF u = {} THEN 0 ELSE e[FirstOf(u)] + h[u \ {FirstOf(u)}]
  <2> SUFFICES ASSUME NEW u \in SUBSET s
               PROVE  /\ g[u] = IF u = {} THEN 0 ELSE f[FirstOf(u)] + g[u \ {FirstOf(u)}]
                      /\ h[u] = IF u = {} THEN 0 ELSE e[FirstOf(u)] + h[u \ {FirstOf(u)}]
    OBVIOUS
  <2>1. u \in SUBSET S /\ u \in SUBSET R
    OBVIOUS
  <2> QED
    BY <2>1, Zenon DEF IsSum, Computes
<1>2. 0 \in T
  <2>1. \A u \in SUBSET s : Cardinality(u) = 0 => u = {}
    BY <1>0, FS_Subset, FS_EmptySet
  <2> QED
    BY <1>1, <2>1
<1>3. ASSUME NEW n \in Nat, n \in T
      PROVE  n + 1 \in T
  <2> SUFFICES ASSUME NEW u \in SUBSET s, Cardinality(u) = n + 1
               PROVE  g[u] = h[u]
    OBVIOUS
  <2>1. u # {}
    BY FS_EmptySet
  <2>2. Cardinality(u \ {FirstOf(u)}) = n /\ u \ {FirstOf(u)} \in SUBSET s
    BY <1>0, <2>1, SmallRest
  <2>3. g[u \ {FirstOf(u)}] = h[u \ {FirstOf(u)}]
    BY <1>3, <2>2
  <2>4. f[FirstOf(u)] = e[FirstOf(u)]
    BY <2>1, FirstOfIn DEF Agree
  <2> QED
    BY <1>1, <2>1, <2>3, <2>4
<1> HIDE DEF T
<1>4. Cardinality(s) \in T
  BY <1>0, <1>2, <1>3, AllNumbers
<1> QED
  BY <1>4 DEF T

\* The sum over a finite set computes as its equation says.
LEMMA SumUses ==
  ASSUME NEW f, NEW S, IsFiniteSet(S)
  PROVE  \E g : Computes(g, f, S) /\ SumFunctionOnSet(f, S) = g[S]
<1>1. \E g : Computes(g, f, S)
  BY SumExists
<1> QED
  BY <1>1 DEF SumFunctionOnSet, FoldFunctionOnSet, MapThenFoldSet, Computes, IsSum, FirstOf

\* The sum depends on the numbers added only.
LEMMA SumAgree ==
  ASSUME NEW S, IsFiniteSet(S), NEW f, NEW e, \A x \in S : f[x] = e[x]
  PROVE  SumFunctionOnSet(f, S) = SumFunctionOnSet(e, S)
<1>1. PICK g : Computes(g, f, S) /\ SumFunctionOnSet(f, S) = g[S]
  BY SumUses
<1>2. PICK h : Computes(h, e, S) /\ SumFunctionOnSet(e, S) = h[S]
  BY SumUses
<1>3. g[S] = h[S]
  <2>1. S \subseteq S /\ Agree(f, e, S)
    BY DEF Agree
  <2> QED
    BY <1>1, <1>2, <2>1, SumUnique
<1> QED
  BY <1>1, <1>2, <1>3

\* The sum of nothing is 0.
LEMMA SumEmpty == \A f : SumFunctionOnSet(f, {}) = 0
<1> SUFFICES ASSUME NEW f PROVE SumFunctionOnSet(f, {}) = 0
  OBVIOUS
<1>1. PICK g : Computes(g, f, {}) /\ SumFunctionOnSet(f, {}) = g[{}]
  BY SumUses, FS_EmptySet
<1> QED
  BY <1>1 DEF Computes, IsSum

\* The sum and its first element.
LEMMA SumFirst ==
  ASSUME NEW S, IsFiniteSet(S), NEW f, S # {}
  PROVE  SumFunctionOnSet(f, S) = f[FirstOf(S)] + SumFunctionOnSet(f, S \ {FirstOf(S)})
<1> DEFINE R == S \ {FirstOf(S)}
<1>1. PICK g : Computes(g, f, S) /\ SumFunctionOnSet(f, S) = g[S]
  BY SumUses
<1>2. IsFiniteSet(R)
  BY FS_RemoveElement
<1>3. PICK h : Computes(h, f, R) /\ SumFunctionOnSet(f, R) = h[R]
  BY <1>2, SumUses
<1>4. g[R] = h[R]
  <2>1. R \subseteq S /\ Agree(f, f, R)
    BY DEF Agree
  <2> HIDE DEF R
  <2> QED
    BY <1>1, <1>3, <2>1, SumUnique
<1>5. g[S] = f[FirstOf(S)] + g[R]
  <2>1. S \in SUBSET S
    OBVIOUS
  <2> QED
    BY <1>1, <2>1 DEF Computes, IsSum
<1> QED
  BY <1>1, <1>3, <1>4, <1>5

\* A sum of integers is one.
LEMMA SumType ==
  ASSUME NEW S, IsFiniteSet(S), NEW f, \A x \in S : f[x] \in Int
  PROVE  SumFunctionOnSet(f, S) \in Int
<1> DEFINE T == {n \in Nat : \A u \in SUBSET S :
                   Cardinality(u) = n => SumFunctionOnSet(f, u) \in Int}
<1>0. Cardinality(S) \in Nat
  BY FS_CardinalityType
<1>1. 0 \in T
  <2>1. \A u \in SUBSET S : Cardinality(u) = 0 => u = {}
    BY FS_Subset, FS_EmptySet
  <2> QED
    BY <2>1, SumEmpty
<1>2. ASSUME NEW n \in Nat, n \in T
      PROVE  n + 1 \in T
  <2> SUFFICES ASSUME NEW u \in SUBSET S, Cardinality(u) = n + 1
               PROVE  SumFunctionOnSet(f, u) \in Int
    OBVIOUS
  <2>1. u # {} /\ IsFiniteSet(u)
    BY FS_EmptySet, FS_Subset
  <2>2. Cardinality(u \ {FirstOf(u)}) = n /\ u \ {FirstOf(u)} \in SUBSET S
    BY <2>1, SmallRest
  <2>3. SumFunctionOnSet(f, u \ {FirstOf(u)}) \in Int /\ f[FirstOf(u)] \in Int
    BY <1>2, <2>1, <2>2, FirstOfIn
  <2> QED
    BY <2>1, <2>3, SumFirst
<1> HIDE DEF T
<1>3. Cardinality(S) \in T
  BY <1>0, <1>1, <1>2, AllNumbers
<1> QED
  BY <1>3 DEF T

\* A sum of natural numbers is one.
LEMMA SumNat ==
  ASSUME NEW S, IsFiniteSet(S), NEW f, \A x \in S : f[x] \in Nat
  PROVE  SumFunctionOnSet(f, S) \in Nat
<1> DEFINE T == {n \in Nat : \A u \in SUBSET S :
                   Cardinality(u) = n => SumFunctionOnSet(f, u) \in Nat}
<1>0. Cardinality(S) \in Nat
  BY FS_CardinalityType
<1>1. 0 \in T
  <2>1. \A u \in SUBSET S : Cardinality(u) = 0 => u = {}
    BY FS_Subset, FS_EmptySet
  <2> QED
    BY <2>1, SumEmpty
<1>2. ASSUME NEW n \in Nat, n \in T
      PROVE  n + 1 \in T
  <2> SUFFICES ASSUME NEW u \in SUBSET S, Cardinality(u) = n + 1
               PROVE  SumFunctionOnSet(f, u) \in Nat
    OBVIOUS
  <2>1. u # {} /\ IsFiniteSet(u)
    BY FS_Subset, FS_EmptySet
  <2>2. Cardinality(u \ {FirstOf(u)}) = n /\ u \ {FirstOf(u)} \in SUBSET S
    BY <2>1, SmallRest
  <2>3. SumFunctionOnSet(f, u \ {FirstOf(u)}) \in Nat /\ f[FirstOf(u)] \in Nat
    BY <1>2, <2>1, <2>2, FirstOfIn
  <2>4. SumFunctionOnSet(f, u) = f[FirstOf(u)] + SumFunctionOnSet(f, u \ {FirstOf(u)})
    BY <2>1, SumFirst
  <2> QED
    BY <2>3, <2>4
<1> HIDE DEF T
<1>3. Cardinality(S) \in T
  BY <1>0, <1>1, <1>2, AllNumbers
<1> QED
  BY <1>3 DEF T

\* Any element can be taken off.
LEMMA SumElement ==
  ASSUME NEW S, IsFiniteSet(S), NEW f, \A x \in S : f[x] \in Int, NEW x \in S
  PROVE  SumFunctionOnSet(f, S) = f[x] + SumFunctionOnSet(f, S \ {x})
<1> DEFINE Sum(u) == SumFunctionOnSet(f, u)
           T == {n \in Nat : \A u \in SUBSET S : Cardinality(u) = n =>
                   \A y \in u : Sum(u) = f[y] + Sum(u \ {y})}
<1>0. Cardinality(S) \in Nat
  BY FS_CardinalityType
<1>t. \A u \in SUBSET S : IsFiniteSet(u) /\ Sum(u) \in Int
  BY SumType, FS_Subset
<1>f. \A u \in SUBSET S : u # {} => Sum(u) = f[FirstOf(u)] + Sum(u \ {FirstOf(u)})
  BY <1>t, SumFirst
<1> HIDE DEF Sum
<1>1. 0 \in T
  <2>1. \A u \in SUBSET S : Cardinality(u) = 0 => u = {}
    BY FS_Subset, FS_EmptySet
  <2> QED
    BY <2>1
<1>2. ASSUME NEW n \in Nat, n \in T
      PROVE  n + 1 \in T
  <2> SUFFICES ASSUME NEW u \in SUBSET S, Cardinality(u) = n + 1, NEW y \in u
               PROVE  Sum(u) = f[y] + Sum(u \ {y})
    OBVIOUS
  <2> DEFINE c == FirstOf(u)
  <2>1. c \in u
    BY FirstOfIn
  <2>2. Sum(u) = f[c] + Sum(u \ {c})
    BY <1>f
  <2> HIDE DEF c
  <2>3. CASE c = y
    BY <2>2, <2>3
  <2>4. CASE c # y
    <3>0. IsFiniteSet(u)
      BY <1>t
    <3>8. Cardinality(u \ {c}) = n /\ Cardinality(u \ {y}) = n
      <4>1. Cardinality(u \ {c}) = Cardinality(u) - 1
        BY <2>1, <3>0, FS_RemoveElement
      <4>2. Cardinality(u \ {y}) = Cardinality(u) - 1
        BY <3>0, FS_RemoveElement
      <4> QED
        BY <4>1, <4>2
    <3>1. u \ {c} \in SUBSET S /\ y \in u \ {c}
      BY <2>4
    <3>2. u \ {y} \in SUBSET S /\ c \in u \ {y}
      BY <2>1, <2>4
    <3>3. Sum(u \ {c}) = f[y] + Sum((u \ {c}) \ {y})
      BY <1>2, <3>1, <3>8
    <3>4. Sum(u \ {y}) = f[c] + Sum((u \ {y}) \ {c})
      BY <1>2, <3>2, <3>8
    <3>5. (u \ {c}) \ {y} = (u \ {y}) \ {c}
      OBVIOUS
    <3>6. (u \ {y}) \ {c} \in SUBSET S /\ f[c] \in Int /\ f[y] \in Int
      BY <2>1
    <3>7. Sum((u \ {y}) \ {c}) \in Int
      BY <1>t, <3>6
    <3> DEFINE X == Sum((u \ {y}) \ {c})
    <3>9. Sum(u) = f[c] + (f[y] + X) /\ Sum(u \ {y}) = f[c] + X
      BY <2>2, <3>3, <3>4, <3>5
    <3>10. X \in Int
      BY <3>7
    <3> HIDE DEF X
    <3> QED
      BY <3>6, <3>9, <3>10
  <2> QED
    BY <2>3, <2>4
<1> HIDE DEF T
<1>3. Cardinality(S) \in T
  BY <1>0, <1>1, <1>2, AllNumbers
<1> QED
  BY <1>3 DEF T, Sum

\* A sum of positive numbers is positive.
LEMMA SumPositive ==
  ASSUME NEW S, IsFiniteSet(S), NEW f, \A x \in S : f[x] \in Nat \ {0}, S # {}
  PROVE  SumFunctionOnSet(f, S) \in Nat \ {0}
<1>1. PICK x \in S : TRUE
  OBVIOUS
<1>2. \A y \in S : f[y] \in Int
  OBVIOUS
<1>3. IsFiniteSet(S \ {x}) /\ \A y \in S \ {x} : f[y] \in Nat
  BY FS_RemoveElement
<1>4. SumFunctionOnSet(f, S) = f[x] + SumFunctionOnSet(f, S \ {x})
  BY <1>2, SumElement
<1>5. SumFunctionOnSet(f, S \ {x}) \in Nat
  BY <1>3, SumNat
<1> QED
  BY <1>4, <1>5

-----------------------------------------------------------------------------
(* Ranks                                                                   *)

\* R orders S strictly and totally; what comes before x.
StrictOrder(R, S) ==
  /\ \A x \in S : <<x, x>> \notin R
  /\ \A x, y \in S : x = y \/ <<x, y>> \in R \/ <<y, x>> \in R
  /\ \A x, y, z \in S : <<x, y>> \in R /\ <<y, z>> \in R => <<x, z>> \in R

Below(x, R, S) == {y \in S : <<y, x>> \in R}

\* Of two elements the later one has more before it.
LEMMA RankGrows ==
  ASSUME NEW S, IsFiniteSet(S), NEW R, StrictOrder(R, S), NEW x \in S, NEW y \in S,
         <<x, y>> \in R
  PROVE  Cardinality(Below(x, R, S)) < Cardinality(Below(y, R, S))
<1>1. Below(x, R, S) \subseteq Below(y, R, S)
  BY DEF Below, StrictOrder
<1>2. x \in Below(y, R, S) /\ x \notin Below(x, R, S)
  BY DEF Below, StrictOrder
<1>3. IsFiniteSet(Below(y, R, S)) /\ IsFiniteSet(Below(x, R, S))
  BY FS_Subset DEF Below
<1>4. Cardinality(Below(x, R, S)) <= Cardinality(Below(y, R, S))
      /\ Cardinality(Below(x, R, S)) # Cardinality(Below(y, R, S))
  BY <1>1, <1>2, <1>3, FS_Subset
<1> QED
  BY <1>3, <1>4, FS_CardinalityType

\* Every rank up to the number of elements is taken.
LEMMA RankExists ==
  ASSUME NEW S, IsFiniteSet(S), NEW R, StrictOrder(R, S), NEW k \in 1 .. Cardinality(S)
  PROVE  \E x \in S : k - 1 = Cardinality(Below(x, R, S))
<1> DEFINE n == Cardinality(S)
           T == 0 .. n - 1
           f == [x \in S |-> Cardinality(Below(x, R, S))]
<1>1. n \in Nat
  BY FS_CardinalityType
<1>2. IsFiniteSet(T) /\ Cardinality(T) = n
  <2>1. 0 \in Int /\ n - 1 \in Int /\ (IF 0 > n - 1 THEN 0 ELSE (n - 1) - 0 + 1) = n
    BY <1>1
  <2> HIDE DEF n
  <2>2. IsFiniteSet(0 .. n - 1) /\ Cardinality(0 .. n - 1) =
          IF 0 > n - 1 THEN 0 ELSE (n - 1) - 0 + 1
    BY <2>1, FS_Interval
  <2> QED
    BY <2>1, <2>2
<1>3. ASSUME NEW x \in S
      PROVE  Cardinality(Below(x, R, S)) \in T
  <2>1. IsFiniteSet(Below(x, R, S)) /\ Below(x, R, S) \subseteq S
    BY FS_Subset DEF Below
  <2>2. x \notin Below(x, R, S)
    BY DEF Below, StrictOrder
  <2>3. Cardinality(Below(x, R, S)) <= n /\ Cardinality(Below(x, R, S)) # n
    BY <2>1, <2>2, FS_Subset
  <2>4. Cardinality(Below(x, R, S)) \in Nat
    BY <2>1, FS_CardinalityType
  <2> QED
    BY <1>1, <2>3, <2>4
<1>4. f \in [S -> T]
  BY <1>3
<1>5. ASSUME NEW x \in S, NEW y \in S, f[x] = f[y]
      PROVE  x = y
  <2>1. Cardinality(Below(x, R, S)) = Cardinality(Below(y, R, S))
    BY <1>5
  <2>2. Cardinality(Below(x, R, S)) \in Int /\ Cardinality(Below(y, R, S)) \in Int
    BY <1>1, <1>3
  <2>3. <<x, y>> \notin R /\ <<y, x>> \notin R
    BY <2>1, <2>2, RankGrows
  <2> QED
    BY <2>3 DEF StrictOrder
<1>6. f \in Injection(S, T)
  BY <1>4, <1>5 DEF Injection, IsInjective
<1> HIDE DEF f
<1>7. f \in Surjection(S, T)
  BY <1>2, <1>6, FS_Injection
<1>8. k - 1 \in T
  BY <1>1
<1>9. \E x \in S : f[x] = k - 1
  BY <1>7, <1>8 DEF Surjection
<1> QED
  BY <1>9 DEF f

-----------------------------------------------------------------------------
(* Walks                                                                   *)

\* A walk over D goes from each element to the next one until it meets an
\* element of Stop; the rank shows that it does.
Descends(D, Stop, nxt, rank) ==
  \A m \in D : /\ rank[m] \in Nat
               /\ m \notin Stop => nxt[m] \in D /\ rank[nxt[m]] < rank[m]

\* What holds of an element if the walk stops there or if it holds of the next
\* one holds of all.
LEMMA WalkInduction ==
  ASSUME NEW D, NEW Stop, NEW nxt, NEW rank, Descends(D, Stop, nxt, rank),
         NEW P, \A m \in D : m \in Stop \/ nxt[m] \in P => m \in P
  PROVE  D \subseteq P
<1> DEFINE T == {n \in Nat : \A m \in D : rank[m] < n => m \in P}
<1>1. 0 \in T
  BY DEF Descends
<1>2. ASSUME NEW n \in Nat, n \in T
      PROVE  n + 1 \in T
  <2> SUFFICES ASSUME NEW m \in D, rank[m] < n + 1, m \notin Stop PROVE m \in P
    OBVIOUS
  <2>1. nxt[m] \in D /\ rank[nxt[m]] \in Nat /\ rank[m] \in Nat /\ rank[nxt[m]] < rank[m]
    BY DEF Descends
  <2> QED
    BY <1>2, <2>1
<1> HIDE DEF T
<1>3. Nat \subseteq T
  BY <1>1, <1>2, AllNumbers
<1> SUFFICES ASSUME NEW m \in D PROVE m \in P
  OBVIOUS
<1>4. rank[m] + 1 \in T /\ rank[m] \in Nat
  BY <1>3 DEF Descends
<1> QED
  BY <1>4 DEF T

\* The end of the walk, or what b says of it.
Ends(g, D, Stop, b, nxt) == g = [m \in D |-> IF m \in Stop THEN b[m] ELSE g[nxt[m]]]

\* What the walk passes.
Lists(g, D, Stop, v, nxt) ==
  g = [m \in D |-> IF m \in Stop THEN <<>> ELSE <<v[m]>> \o g[nxt[m]]]

\* The elements of rank less than n.
Lower(D, rank, n) == {m \in D : rank[m] < n}

\* A walk that descends ends somewhere: by induction on the rank.
LEMMA EndsExist ==
  ASSUME NEW D, NEW Stop, NEW nxt, NEW rank, Descends(D, Stop, nxt, rank),
         NEW M \in Nat, \A m \in D : rank[m] < M, NEW b
  PROVE  \E g : Ends(g, D, Stop, b, nxt)
<1> DEFINE T == {n \in Nat : \E g : Ends(g, Lower(D, rank, n), Stop, b, nxt)}
<1>1. 0 \in T
  <2> DEFINE g == [m \in Lower(D, rank, 0) |-> 0]
  <2>1. Lower(D, rank, 0) = {}
    BY DEF Lower, Descends
  <2>2. Ends(g, Lower(D, rank, 0), Stop, b, nxt)
    BY <2>1 DEF Ends
  <2> QED
    BY <2>2
<1>2. ASSUME NEW n \in Nat, n \in T
      PROVE  n + 1 \in T
  <2>1. PICK g : Ends(g, Lower(D, rank, n), Stop, b, nxt)
    BY <1>2
  <2> DEFINE h == [m \in Lower(D, rank, n + 1) |-> IF m \in Stop THEN b[m] ELSE g[nxt[m]]]
  <2>2. ASSUME NEW m \in Lower(D, rank, n + 1), m \notin Stop
        PROVE  nxt[m] \in Lower(D, rank, n)
    BY <2>2 DEF Lower, Descends
  <2>3. ASSUME NEW m \in Lower(D, rank, n)
        PROVE  g[m] = h[m]
    <3>1. m \in Lower(D, rank, n + 1)
      BY DEF Lower, Descends
    <3>2. g[m] = IF m \in Stop THEN b[m] ELSE g[nxt[m]]
      BY <2>1, Zenon DEF Ends
    <3> QED
      BY <3>1, <3>2
  <2>4. \A m \in Lower(D, rank, n + 1) : m \notin Stop => g[nxt[m]] = h[nxt[m]]
    BY <2>2, <2>3
  <2>5. Ends(h, Lower(D, rank, n + 1), Stop, b, nxt)
    BY <2>4 DEF Ends
  <2> QED
    BY <2>5
<1> HIDE DEF T
<1>3. M \in T
  BY <1>1, <1>2, AllNumbers
<1>4. Lower(D, rank, M) = D
  BY DEF Lower
<1> QED
  BY <1>3, <1>4 DEF T

\* And what it passes is a list, likewise.
LEMMA ListsExist ==
  ASSUME NEW D, NEW Stop, NEW nxt, NEW rank, Descends(D, Stop, nxt, rank),
         NEW M \in Nat, \A m \in D : rank[m] < M, NEW v
  PROVE  \E g : Lists(g, D, Stop, v, nxt)
<1> DEFINE T == {n \in Nat : \E g : Lists(g, Lower(D, rank, n), Stop, v, nxt)}
<1>1. 0 \in T
  <2> DEFINE g == [m \in Lower(D, rank, 0) |-> 0]
  <2>1. Lower(D, rank, 0) = {}
    BY DEF Lower, Descends
  <2>2. Lists(g, Lower(D, rank, 0), Stop, v, nxt)
    BY <2>1 DEF Lists
  <2> QED
    BY <2>2
<1>2. ASSUME NEW n \in Nat, n \in T
      PROVE  n + 1 \in T
  <2>1. PICK g : Lists(g, Lower(D, rank, n), Stop, v, nxt)
    BY <1>2
  <2> DEFINE h == [m \in Lower(D, rank, n + 1) |->
                     IF m \in Stop THEN <<>> ELSE <<v[m]>> \o g[nxt[m]]]
  <2>2. ASSUME NEW m \in Lower(D, rank, n + 1), m \notin Stop
        PROVE  nxt[m] \in Lower(D, rank, n)
    BY <2>2 DEF Lower, Descends
  <2>3. ASSUME NEW m \in Lower(D, rank, n)
        PROVE  g[m] = h[m]
    <3>1. m \in Lower(D, rank, n + 1)
      BY DEF Lower, Descends
    <3>2. g[m] = IF m \in Stop THEN <<>> ELSE <<v[m]>> \o g[nxt[m]]
      BY <2>1, Zenon DEF Lists
    <3> QED
      BY <3>1, <3>2
  <2>4. \A m \in Lower(D, rank, n + 1) : m \notin Stop => g[nxt[m]] = h[nxt[m]]
    BY <2>2, <2>3
  <2>5. Lists(h, Lower(D, rank, n + 1), Stop, v, nxt)
    <3>1. ASSUME NEW m \in Lower(D, rank, n + 1)
          PROVE  h[m] = IF m \in Stop THEN <<>> ELSE <<v[m]>> \o h[nxt[m]]
      BY <2>4
    <3>2. h = [m \in Lower(D, rank, n + 1) |-> h[m]]
      OBVIOUS
    <3> HIDE DEF h
    <3> QED
      BY <3>1, <3>2, Zenon DEF Lists
  <2> QED
    BY <2>5
<1> HIDE DEF T
<1>3. M \in T
  BY <1>1, <1>2, AllNumbers
<1>4. Lower(D, rank, M) = D
  BY DEF Lower
<1> QED
  BY <1>3, <1>4 DEF T

\* A finite set of numbers has a bound.
HasBound(u) == \E M \in Nat : \A n \in u : n <= M

LEMMA Bounded == ASSUME NEW S, IsFiniteSet(S), S \subseteq Nat PROVE HasBound(S)
<1> DEFINE T == {k \in Nat : \A u \in SUBSET S : Cardinality(u) = k => HasBound(u)}
<1>0. Cardinality(S) \in Nat
  BY FS_CardinalityType
<1>1. 0 \in T
  <2>1. \A u \in SUBSET S : Cardinality(u) = 0 => u = {}
    BY FS_Subset, FS_EmptySet
  <2>2. HasBound({})
    BY DEF HasBound
  <2> QED
    BY <2>1, <2>2
<1>2. ASSUME NEW k \in Nat, k \in T
      PROVE  k + 1 \in T
  <2> SUFFICES ASSUME NEW u \in SUBSET S, Cardinality(u) = k + 1
               PROVE  HasBound(u)
    OBVIOUS
  <2>1. u # {}
    BY FS_EmptySet
  <2>2. PICK x \in u : TRUE
    BY <2>1
  <2>3. Cardinality(u \ {x}) = k /\ u \ {x} \in SUBSET S
    <3>1. IsFiniteSet(u)
      BY FS_Subset
    <3>2. Cardinality(u \ {x}) = Cardinality(u) - 1
      BY <3>1, FS_RemoveElement
    <3> QED
      BY <3>2
  <2>4. PICK M \in Nat : \A n \in u \ {x} : n <= M
    BY <1>2, <2>3 DEF HasBound
  <2>5. \A n \in u : n <= (IF x > M THEN x ELSE M)
    BY <2>4
  <2>6. x \in Nat
    OBVIOUS
  <2> QED
    BY <2>5, <2>6 DEF HasBound
<1> HIDE DEF T
<1>3. Cardinality(S) \in T
  BY <1>0, <1>1, <1>2, AllNumbers
<1> QED
  BY <1>3 DEF T
=============================================================================
