---------------------------- MODULE EngineProofs ----------------------------
(***************************************************************************)
(* Proofs about Engine, for any number of callers, workers, ids, symbols   *)
(* and objects, any capacities, with or without CancelOrder, Stop and      *)
(* Start: the idempotency marks, who owns an order object, and what        *)
(* becomes of an accepted order.  With several callers the input rings may *)
(* reorder, overwrite and refuse orders.                                   *)
(*                                                                         *)
(* The argument about ownership is about ids, not about objects: the ids   *)
(* in the queues and in the batches are pairwise different, they were      *)
(* accepted, and those not yet at Match were not matched; what a call      *)
(* holds carries an id that was not accepted; what the pool holds carries  *)
(* none. Hence no object is at two places. CancelOrder breaks this (raced) *)
(* when it returns the object of an order whose worker is about to return  *)
(* it as well.                                                             *)
(*                                                                         *)
(* The last section proves the order of matching for one caller, one       *)
(* worker and one symbol.                                                  *)
(***************************************************************************)
EXTENDS Engine, FiniteSetTheorems, TLAPS

\* The part of the type invariant that the idempotency marks rest on.
CallType ==
  /\ cpc \in [Callers -> CallPcs]
  /\ cid \in [Callers -> Ids \cup {NONE}]
  /\ accepted \in Seq(Ids)
  /\ \A c \in Callers : Marks(c) => cid[c] \in Ids

\* What appending does to the set of elements of a history.
LEMMA AppendElems ==
  ASSUME NEW S, NEW s \in Seq(S), NEW x \in S
  PROVE  /\ Append(s, x) \in Seq(S)
         /\ Elems(Append(s, x)) = Elems(s) \cup {x}
         /\ Len(Append(s, x)) = Len(s) + 1
         /\ Append(s, x)[Len(s) + 1] = x
         /\ \A n \in 1 .. Len(s) : Append(s, x)[n] = s[n]
<1>1. /\ Append(s, x) \in Seq(S) /\ Len(s) \in Nat
      /\ Len(Append(s, x)) = Len(s) + 1
      /\ Append(s, x)[Len(s) + 1] = x
      /\ \A n \in 1 .. Len(s) : Append(s, x)[n] = s[n]
  OBVIOUS
<1>2. Elems(Append(s, x)) = Elems(s) \cup {x}
  BY <1>1 DEF Elems
<1> QED
  BY <1>1, <1>2

\* No call is in progress and nothing is accepted at first.
LEMMA CallInit == Init => CallType /\ OneMark
  BY DEF Init, CallType, OneMark, AcceptedOnce, Elems, Marks, CallPcs

\* A call's step that changes neither marks nor acceptances.
LEMMA QuietCall ==
  ASSUME CallType, OneMark, NEW c \in Callers, NEW l \in CallPcs,
         cpc' = [cpc EXCEPT ![c] = l], l \in {"idle"} \/ Marks(c),
         UNCHANGED <<processed, cid, accepted>>
  PROVE  CallType' /\ OneMark'
<1>1. \A d \in Callers : Marks(d)' => Marks(d)
  BY DEF CallType, Marks
<1>2. CallType'
  BY <1>1 DEF CallType
<1>3. AcceptedOnce' /\ Elems(accepted)' = Elems(accepted)
  BY DEF OneMark, AcceptedOnce
<1> QED
  BY <1>1, <1>2, <1>3 DEF OneMark

\* LoadOrStore gives the mark to one call only.
LEMMA BeginMarks ==
  ASSUME CallType, OneMark, NEW c \in Callers, NEW id \in Ids, NEW sym,
         Begin(c, id, sym)
  PROVE  CallType' /\ OneMark'
<1>1. /\ id \notin processed /\ ~Marks(c)
      /\ processed' = processed \cup {id} /\ accepted' = accepted
      /\ cid' = [cid EXCEPT ![c] = id]
  BY DEF Begin, Fresh, Marks, histories
<1>2. PICK l \in {"state", "unmark"} : cpc' = [cpc EXCEPT ![c] = l]
  BY DEF Begin, Step
<1>3. /\ cid'[c] = id /\ \A d \in Callers \ {c} : cid'[d] = cid[d]
      /\ \A d \in Callers \ {c} : Marks(d)' = Marks(d)
  BY <1>1, <1>2 DEF CallType, Marks
<1>4. CallType'
  BY <1>1, <1>2, <1>3 DEF CallType, CallPcs
<1>5. AcceptedOnce' /\ Elems(accepted)' = Elems(accepted)
  BY <1>1 DEF OneMark, AcceptedOnce
<1>6. ASSUME NEW d \in Callers, Marks(d)'
      PROVE  /\ cid'[d] \in processed' /\ cid'[d] \notin Elems(accepted)'
             /\ \A e \in Callers \ {d} : Marks(e)' => cid'[e] # cid'[d]
  <2>1. \A e \in Callers : Marks(e) => cid[e] # id
    BY <1>1 DEF OneMark
  <2>2. CASE d = c
    BY <1>1, <1>3, <1>5, <2>1, <2>2 DEF OneMark
  <2>3. CASE d # c
    BY <1>1, <1>3, <1>5, <1>6, <2>1, <2>3 DEF OneMark
  <2> QED
    BY <2>2, <2>3
<1>7. Elems(accepted)' \subseteq processed'
  BY <1>1, <1>5 DEF OneMark
<1> QED
  BY <1>4, <1>5, <1>6, <1>7 DEF OneMark

\* A push passes the mark from the call to the accepted order, or keeps it.
LEMMA PushMarks ==
  ASSUME CallType, OneMark, NEW c \in Callers, Push(c)
  PROVE  CallType' /\ OneMark'
<1>1. Marks(c) /\ UNCHANGED <<processed, cid>>
  BY DEF Push, Marks
<1>2. CASE PushReturnsTrue(c)
  <2>1. accepted' = Append(accepted, cid[c]) /\ cpc' = [cpc EXCEPT ![c] = "idle"]
    BY <1>2 DEF PushReturnsTrue, Step
  <2>2. accepted \in Seq(Ids) /\ cid[c] \in Ids
    BY <1>1 DEF CallType
  <2>3. /\ accepted' \in Seq(Ids)
        /\ Elems(accepted)' = Elems(accepted) \cup {cid[c]}
        /\ Len(accepted') = Len(accepted) + 1 /\ Len(accepted) \in Nat
        /\ accepted'[Len(accepted) + 1] = cid[c]
        /\ \A n \in 1 .. Len(accepted) : accepted'[n] = accepted[n]
    BY <2>1, <2>2, AppendElems
  <2>4. \A d \in Callers : Marks(d)' => Marks(d) /\ d # c
    BY <2>1 DEF CallType, Marks
  <2>5. CallType'
    BY <1>1, <2>1, <2>3, <2>4 DEF CallType, CallPcs
  <2>6. \A n \in 1 .. Len(accepted) : accepted[n] # cid[c]
    BY <1>1 DEF OneMark, Elems
  <2>7. AcceptedOnce'
    BY <2>3, <2>6 DEF OneMark, AcceptedOnce
  <2>8. Elems(accepted)' \subseteq processed'
    BY <1>1, <2>3 DEF OneMark
  <2>9. ASSUME NEW d \in Callers, Marks(d)'
        PROVE  /\ cid'[d] \in processed' /\ cid'[d] \notin Elems(accepted)'
               /\ \A e \in Callers \ {d} : Marks(e)' => cid'[e] # cid'[d]
    BY <1>1, <2>3, <2>4, <2>9 DEF OneMark
  <2> QED
    BY <2>5, <2>7, <2>8, <2>9 DEF OneMark
<1>3. CASE Refuse(c)
  <2>1. cpc' = [cpc EXCEPT ![c] = "putBack"] /\ accepted' = accepted
    BY <1>3 DEF Refuse, Step
  <2> QED
    BY <1>1, <2>1, QuietCall DEF CallPcs
<1> QED
  BY <1>2, <1>3 DEF Push, Enter, Overwrite

\* A rollback gives up the mark of an order that was not accepted.
LEMMA UnmarkMarks ==
  ASSUME CallType, OneMark, NEW c \in Callers, Unmark(c)
  PROVE  CallType' /\ OneMark'
<1>1. Marks(c) /\ processed' = processed \ {cid[c]} /\ UNCHANGED <<cid, accepted>>
  BY DEF Unmark, Marks, histories
<1>2. PICK l \in {"unstate", "idle"} : cpc' = [cpc EXCEPT ![c] = l]
  BY DEF Unmark, Step
<1>3. \A d \in Callers : Marks(d)' => Marks(d) /\ d # c
  BY <1>2 DEF CallType, Marks
<1>4. CallType'
  BY <1>1, <1>2, <1>3 DEF CallType, CallPcs
<1>5. AcceptedOnce' /\ Elems(accepted)' = Elems(accepted)
  BY <1>1 DEF OneMark, AcceptedOnce
<1> QED
  BY <1>1, <1>3, <1>4, <1>5 DEF OneMark

\* Steps that touch neither marks, nor calls, nor acceptances.
LEMMA OtherSteps ==
  ASSUME CallType, OneMark, UNCHANGED <<processed, cpc, cid, accepted>>
  PROVE  CallType' /\ OneMark'
<1>1. \A c \in Callers : Marks(c)' = Marks(c)
  BY DEF Marks
<1> QED
  BY <1>1 DEF CallType, OneMark, AcceptedOnce, Elems

\* Every step of ProcessOrder keeps the marks apart.
LEMMA CallMarks ==
  ASSUME CallType, OneMark, NEW c \in Callers, CallStep(c)
  PROVE  CallType' /\ OneMark'
<1>1. CASE StoreState(c)
  BY <1>1, QuietCall DEF StoreState, Step, Marks, CallPcs, histories
<1>2. ASSUME NEW p \in Ptrs, GetOrder(c, p) PROVE CallType' /\ OneMark'
  BY <1>2, QuietCall DEF GetOrder, Step, Marks, CallPcs, histories
<1>3. CASE PutBack(c)
  BY <1>3, QuietCall DEF PutBack, Step, Marks, CallPcs, histories
<1>4. CASE DeleteState(c)
  BY <1>4, QuietCall DEF DeleteState, Step, CallPcs, histories
<1> QED
  BY <1>1, <1>2, <1>3, <1>4, PushMarks, UnmarkMarks DEF CallStep

\* The marks and the acceptances under every step of the engine.
LEMMA MarksInvariant == Spec => [](CallType /\ OneMark)
<1>1. Init => CallType /\ OneMark
  BY CallInit
<1>2. CallType /\ OneMark /\ [Next]_vars => (CallType /\ OneMark)'
  <2> SUFFICES ASSUME CallType, OneMark, [Next]_vars PROVE (CallType /\ OneMark)'
    OBVIOUS
  <2>1. CASE UNCHANGED vars
    BY <2>1, OtherSteps DEF vars, callVars, histories
  <2>2. ASSUME NEW w \in Workers, WorkerStep(w)
        PROVE  UNCHANGED <<processed, cpc, cid, accepted>>
    BY <2>2 DEF WorkerStep, Poll, Match, Send, Release, WorkerExit, callVars,
                histories
  <2>3. CASE ResultStep
    <3>1. UNCHANGED <<processed, cpc, cid, accepted>>
      BY <2>3 DEF ResultStep, TakeResults, HandleResult, ResultsExit, callVars,
                  histories
    <3> QED
      BY <3>1, OtherSteps
  <2>4. CASE Start \/ StopBegin \/ StopEnd \/ MarkCancelled
             \/ \E id \in Ids : CancelOrder(id)
    <3>1. UNCHANGED <<processed, cpc, cid, accepted>>
      BY <2>4 DEF Start, StopBegin, StopEnd, MarkCancelled, CancelOrder, callVars,
                  histories
    <3> QED
      BY <3>1, OtherSteps
  <2> QED
    BY <2>1, <2>2, <2>3, <2>4, CallMarks, BeginMarks, OtherSteps DEF Next
<1> QED
  BY <1>1, <1>2, PTL DEF Spec

\* No order id is accepted twice, for any interleaving of ProcessOrder calls,
\* their rollbacks and everything else the engine does.
THEOREM EngineIdempotent == Spec => []AcceptedOnce
<1>1. OneMark => AcceptedOnce
  BY DEF OneMark
<1> QED
  BY <1>1, MarksInvariant, PTL

-----------------------------------------------------------------------------

\* Control and the objects at hand agree.
Agrees ==
  /\ \A c \in Callers : cptr[c] # NONE <=> cpc[c] \in {"push", "putBack"}
  /\ \A c \in Callers : cpc[c] \in {"state", "get", "push"} => csym[c] \in Symbols
  /\ \A w \in Workers :
       /\ batch[w] = <<>> <=> wpc[w] \in {"poll", "exited"}
       /\ Len(batch[w]) <= BatchSize
       /\ wpc[w] \in {"send", "release"} => result[w] \in Results
  /\ rpc = "handle" => rbatch # <<>>
  /\ run \in {"new", "stopped"} => \A w \in Workers : wpc[w] = "exited"

TypeInv == TypeOK /\ Agrees

\* The id in the object at a place of an input queue, and of a batch.
Queued(s, i) == obj[inq[s][i]]
Popped(w, i) == obj[batch[w][i]]

\* The order a worker has matched and whose object it has not yet returned.
Behind(w, i) == i = 1 /\ wpc[w] \in {"send", "release"}

\* What is in the pool is Reset; what a call holds has its id; what waits in a
\* queue or a batch was accepted and not yet matched.
PoolClean ==
  \A p \in Ptrs : pool[p] \in {0, 1} /\ (pool[p] = 1 => obj[p] = 0)
CallsHold ==
  \A c \in Callers : cptr[c] # NONE => obj[cptr[c]] = cid[c]
QueuesHold ==
  \A s \in Symbols : \A i \in 1 .. Len(inq[s]) :
    Queued(s, i) \in Elems(accepted) \ Elems(matched)
BatchesHold ==
  \A w \in Workers : \A i \in 1 .. Len(batch[w]) :
    /\ Popped(w, i) \in Elems(accepted)
    /\ Popped(w, i) \in Elems(matched) <=> Behind(w, i)

\* No id is at two places.
QueuesApart ==
  \A s, t \in Symbols : \A i \in 1 .. Len(inq[s]), j \in 1 .. Len(inq[t]) :
    Queued(s, i) = Queued(t, j) => s = t /\ i = j
BatchesApart ==
  \A v, w \in Workers : \A i \in 1 .. Len(batch[v]), j \in 1 .. Len(batch[w]) :
    Popped(v, i) = Popped(w, j) => v = w /\ i = j
PlacesApart ==
  \A s \in Symbols, w \in Workers :
    \A i \in 1 .. Len(inq[s]), j \in 1 .. Len(batch[w]) : Queued(s, i) # Popped(w, j)

\* Matched once, after being accepted; only what was matched rests.
MatchesApart ==
  /\ \A m, n \in 1 .. Len(matched) : matched[m] = matched[n] => m = n
  /\ Elems(matched) \subseteq Elems(accepted)
RestingMatched ==
  \A id \in Ids : resting[id] # NONE => id \in Elems(matched)

\* Where an accepted order is.
Kept ==
  \A id \in Elems(accepted) :
    \/ id \in Elems(matched) \cup dropped \cup overwritten
    \/ \E s \in Symbols : \E i \in 1 .. Len(inq[s]) : Queued(s, i) = id
    \/ \E w \in Workers : \E i \in 1 .. Len(batch[w]) : Popped(w, i) = id

Waiting ==
  /\ QueuesHold /\ BatchesHold
  /\ QueuesApart /\ BatchesApart /\ PlacesApart
  /\ MatchesApart /\ RestingMatched /\ Kept

Owners == PoolClean /\ CallsHold /\ Waiting

OwnerInv == ~raced => Owners

-----------------------------------------------------------------------------
(* Sequences                                                               *)

LEMMA EmptyLength ==
  ASSUME NEW S, NEW s \in Seq(S)
  PROVE  s = <<>> <=> Len(s) = 0
  OBVIOUS

\* BatchPop divides a queue into what it takes and what it leaves.
LEMMA CutSequence ==
  ASSUME NEW S, NEW s \in Seq(S), NEW n \in 1 .. Len(s)
  PROVE  /\ SubSeq(s, 1, n) \in Seq(S) /\ Len(SubSeq(s, 1, n)) = n
         /\ SubSeq(s, 1, n) # <<>>
         /\ \A i \in 1 .. n : SubSeq(s, 1, n)[i] = s[i]
         /\ SubSeq(s, n + 1, Len(s)) \in Seq(S)
         /\ Len(SubSeq(s, n + 1, Len(s))) = Len(s) - n
         /\ \A i \in 1 .. Len(s) - n : SubSeq(s, n + 1, Len(s))[i] = s[i + n]
  OBVIOUS

LEMMA TailSequence ==
  ASSUME NEW S, NEW s \in Seq(S), s # <<>>
  PROVE  /\ Len(s) \in Nat \ {0} /\ s[1] \in S
         /\ Tail(s) \in Seq(S) /\ Len(Tail(s)) = Len(s) - 1
         /\ Tail(s) = <<>> <=> Len(s) = 1
         /\ \A i \in 1 .. Len(s) - 1 : Tail(s)[i] = s[i + 1]
<1>1. /\ Len(s) \in Nat \ {0} /\ s[1] \in S
      /\ Tail(s) \in Seq(S) /\ Len(Tail(s)) = Len(s) - 1
      /\ \A i \in 1 .. Len(s) - 1 : Tail(s)[i] = s[i + 1]
  OBVIOUS
<1> DEFINE t == Tail(s)
<1>2. t \in Seq(S) /\ Len(t) = Len(s) - 1
  BY <1>1
<1> HIDE DEF t
<1>3. t = <<>> <=> Len(t) = 0
  BY <1>2, EmptyLength
<1>4. t = <<>> <=> Len(s) = 1
  BY <1>1, <1>2, <1>3
<1> QED
  BY <1>1, <1>4 DEF t

\* A Push that puts its item at place i moves the items from there on.
LEMMA InsertSequence ==
  ASSUME NEW S, NEW q \in Seq(S), NEW x \in S, NEW i \in 1 .. Len(q) + 1
  PROVE  /\ InsertAt(q, i, x) \in Seq(S)
         /\ Len(InsertAt(q, i, x)) = Len(q) + 1
         /\ InsertAt(q, i, x)[i] = x
         /\ \A j \in 1 .. i - 1 : InsertAt(q, i, x)[j] = q[j]
         /\ \A j \in i + 1 .. Len(q) + 1 : InsertAt(q, i, x)[j] = q[j - 1]
<1> DEFINE a == SubSeq(q, 1, i - 1)
           b == SubSeq(q, i, Len(q))
<1>1. /\ a \in Seq(S) /\ Len(a) = i - 1 /\ \A j \in 1 .. i - 1 : a[j] = q[j]
      /\ b \in Seq(S) /\ Len(b) = Len(q) - i + 1
      /\ \A j \in 1 .. Len(q) - i + 1 : b[j] = q[j + i - 1]
      /\ Len(q) \in Nat
  OBVIOUS
<1>2. InsertAt(q, i, x) = a \o <<x>> \o b
  BY DEF InsertAt
<1> HIDE DEF a, b
<1>3. /\ a \o <<x>> \in Seq(S) /\ Len(a \o <<x>>) = i /\ (a \o <<x>>)[i] = x
      /\ \A j \in 1 .. i - 1 : (a \o <<x>>)[j] = a[j]
  BY <1>1
<1> DEFINE c == a \o <<x>>
<1>4. c \in Seq(S) /\ Len(c) = i /\ c[i] = x /\ \A j \in 1 .. i - 1 : c[j] = q[j]
  BY <1>1, <1>3
<1> HIDE DEF c
<1>5. /\ c \o b \in Seq(S) /\ Len(c \o b) = Len(q) + 1
      /\ \A j \in 1 .. i : (c \o b)[j] = c[j]
      /\ \A j \in i + 1 .. Len(q) + 1 : (c \o b)[j] = b[j - i]
  BY <1>1, <1>4
<1>6. \A j \in i + 1 .. Len(q) + 1 : b[j - i] = q[j - 1]
  <2> SUFFICES ASSUME NEW j \in i + 1 .. Len(q) + 1 PROVE b[j - i] = q[j - 1]
    OBVIOUS
  <2>1. j - i \in 1 .. Len(q) - i + 1 /\ (j - i) + i - 1 = j - 1
    BY <1>1
  <2> QED
    BY <1>1, <2>1
<1>7. InsertAt(q, i, x) = c \o b
  BY <1>2 DEF c
<1> QED
  BY <1>4, <1>5, <1>6, <1>7

-----------------------------------------------------------------------------
(* Types                                                                   *)

\* What the queues may hold is a number.
LEMMA Capacities == InCap \in Nat /\ OutSum \in Nat
<1>1. Cardinality(Workers) \in Nat /\ BatchSize - 1 \in Nat
  BY FS_CardinalityType, EngineAssumption
<1>2. Cardinality(Workers) * (BatchSize - 1) \in Nat
  BY <1>1
<1> QED
  BY <1>1, <1>2, EngineAssumption DEF InCap, OutSum

\* What a Push may make of a queue.
LEMMA PushedQueue ==
  ASSUME NEW X, NEW q \in Seq(X), NEW x \in X, NEW cap \in Nat, NEW S,
         NEW r \in Entered(q, x, cap, S)
  PROVE  \E i \in 1 .. Len(q) + 1 :
           r = InsertAt(q, i, x) /\ Len(q) < cap /\ (Several(S) \/ i = Len(q) + 1)
  BY DEF Entered, HasRoom

LEMMA PushedTyped ==
  ASSUME NEW X, NEW q \in Seq(X), NEW x \in X, NEW cap \in Nat, NEW S, NEW r,
         Len(q) <= cap,
         r \in Entered(q, x, cap, S) \/ \E i \in 1 .. Len(q) : r = Lapped(q, i, x)
  PROVE  r \in Seq(X) /\ Len(r) <= cap
<1>1. ASSUME r \in Entered(q, x, cap, S) PROVE r \in Seq(X) /\ Len(r) <= cap
  <2>1. PICK i \in 1 .. Len(q) + 1 : r = InsertAt(q, i, x) /\ Len(q) < cap
    BY <1>1, PushedQueue
  <2>2. r \in Seq(X) /\ Len(r) = Len(q) + 1
    BY <2>1, InsertSequence
  <2> QED
    BY <2>1, <2>2
<1>2. ASSUME NEW i \in 1 .. Len(q), r = Lapped(q, i, x)
      PROVE  r \in Seq(X) /\ Len(r) <= cap
  BY <1>2 DEF Lapped
<1> QED
  BY <1>1, <1>2

LEMMA TypeInit == Init => TypeInv
<1> SUFFICES ASSUME Init PROVE TypeInv
  OBVIOUS
<1>1. /\ outq \in Seq(Results) /\ rbatch \in Seq(Results) /\ accepted \in Seq(Ids)
      /\ matched \in Seq(Ids \cup {0})
      /\ inq \in [Symbols -> Seq(Ptrs)] /\ batch \in [Workers -> Seq(Ptrs)]
      /\ Len(outq) = 0 /\ \A s \in Symbols : Len(inq[s]) = 0
  BY DEF Init
<1>2. TypeOK
  <2>1. /\ processed \subseteq Ids /\ dropped \subseteq Ids \cup {0}
        /\ overwritten \subseteq Ids \cup {0}
        /\ states \in [Ids -> {"none", "pending", "cancelled"}]
        /\ obj \in [Ptrs -> Ids \cup {0}] /\ pool \in [Ptrs -> Nat]
        /\ resting \in [Ids -> Ptrs \cup {NONE}]
        /\ cpc \in [Callers -> CallPcs] /\ cid \in [Callers -> Ids \cup {NONE}]
        /\ csym \in [Callers -> Symbols \cup {UNKNOWN}]
        /\ cptr \in [Callers -> Ptrs \cup {NONE}]
    BY DEF Init, CallPcs
  <2>2. /\ wpc \in [Workers -> {"poll", "match", "send", "release", "exited"}]
        /\ result \in [Workers -> Results \cup {NONE}]
        /\ rpc = "exited" /\ run = "new" /\ cancelling = NONE /\ raced = FALSE
    BY DEF Init
  <2>3. \A s \in Symbols : Len(inq[s]) <= InCap
    BY <1>1, Capacities
  <2>4. Len(outq) <= OutSum
    BY <1>1, Capacities
  <2> QED
    BY <1>1, <2>1, <2>2, <2>3, <2>4 DEF TypeOK
<1>3. Agrees
  BY EngineAssumption DEF Init, Agrees
<1> QED
  BY <1>2, <1>3 DEF TypeInv

LEMMA PutBackTyped ==
  ASSUME TypeInv, NEW p \in Ptrs, PutOrderToPool(p)
  PROVE  obj' \in [Ptrs -> Ids \cup {0}] /\ pool' \in [Ptrs -> Nat]
  BY DEF TypeInv, TypeOK, PutOrderToPool

LEMMA TypeBegin ==
  ASSUME TypeInv, NEW c \in Callers, NEW id \in Ids, NEW s \in Symbols \cup {UNKNOWN},
         Begin(c, id, s)
  PROVE  TypeInv'
<1>1. TypeOK'
  BY DEF TypeInv, TypeOK, Begin, Step, CallPcs, workVars, histories
<1>2. Agrees'
  BY DEF TypeInv, TypeOK, Agrees, Begin, Step, workVars, histories
<1> QED
  BY <1>1, <1>2 DEF TypeInv

\* Push has an object and an id; it leaves a typed queue within its capacity.
LEMMA TypePush ==
  ASSUME TypeInv, CallType, NEW c \in Callers, Push(c)
  PROVE  TypeInv'
<1> DEFINE z == csym[c]
<1>1. cptr[c] \in Ptrs /\ cid[c] \in Ids /\ z \in Symbols
  BY DEF TypeInv, TypeOK, Agrees, CallType, Marks, Push
<1>2. /\ cpc[c] = "push"
      /\ UNCHANGED <<processed, states, obj, pool, outq, resting, cid, csym, workVars,
                     run, cancelling, matched, dropped, raced>>
  BY DEF Push
<1>3. CASE PushReturnsTrue(c)
  <2>1. /\ accepted' = Append(accepted, cid[c])
        /\ cptr' = [cptr EXCEPT ![c] = NONE] /\ cpc' = [cpc EXCEPT ![c] = "idle"]
    BY <1>3 DEF PushReturnsTrue, Step
  <2>2. PICK r : /\ inq' = [inq EXCEPT ![z] = r]
                 /\ \/ r \in Entered(inq[z], cptr[c], InCap, Callers)
                    \/ \E i \in 1 .. Len(inq[z]) : r = Lapped(inq[z], i, cptr[c])
    <3>1. CASE Enter(c)
      BY <3>1 DEF Enter
    <3>2. CASE Overwrite(c)
      BY <3>2 DEF Overwrite
    <3>3. CASE Refuse(c)
      <4>1. cpc'[c] = "putBack" /\ cpc'[c] = "idle"
        BY <2>1, <3>3 DEF Refuse, Step, TypeInv, TypeOK
      <4> QED
        BY <4>1
    <3> QED
      BY <3>1, <3>2, <3>3 DEF Push
  <2>3. overwritten' \subseteq Ids \cup {0}
    <3>1. CASE Overwrite(c)
      <4>1. PICK i \in 1 .. Len(inq[z]) :
               overwritten' = overwritten \cup {obj[inq[z][i]]}
        BY <3>1 DEF Overwrite
      <4>2. inq[z][i] \in Ptrs
        BY <1>1 DEF TypeInv, TypeOK
      <4> QED
        BY <4>1, <4>2 DEF TypeInv, TypeOK
    <3>2. CASE ~Overwrite(c)
      BY <3>2 DEF Push, Enter, Refuse, TypeInv, TypeOK
    <3> QED
      BY <3>1, <3>2
  <2>4. r \in Seq(Ptrs) /\ Len(r) <= InCap
    <3>1. inq[z] \in Seq(Ptrs) /\ Len(inq[z]) <= InCap
      BY <1>1 DEF TypeInv, TypeOK
    <3> QED
      BY <1>1, <2>2, <3>1, Capacities, PushedTyped
  <2>5. /\ inq' \in [Symbols -> Seq(Ptrs)]
        /\ \A s \in Symbols : Len(inq'[s]) <= InCap
    BY <1>1, <2>2, <2>4 DEF TypeInv, TypeOK
  <2>6. accepted' \in Seq(Ids)
    BY <1>1, <2>1 DEF TypeInv, TypeOK
  <2> HIDE DEF z
  <2>7. TypeOK'
    BY <1>2, <2>1, <2>3, <2>5, <2>6 DEF TypeInv, TypeOK, CallPcs, workVars
  <2>8. \A d \in Callers : cptr'[d] # NONE <=> cpc'[d] \in {"push", "putBack"}
    <3>1. cptr \in [Callers -> Ptrs \cup {NONE}] /\ cpc \in [Callers -> CallPcs]
      BY DEF TypeInv, TypeOK
    <3> QED
      BY <2>1, <3>1 DEF TypeInv, Agrees
  <2>9. \A d \in Callers : cpc'[d] \in {"state", "get", "push"} => csym'[d] \in Symbols
    BY <1>2, <2>1 DEF TypeInv, TypeOK, Agrees
  <2>10. Agrees'
    BY <1>2, <2>8, <2>9 DEF TypeInv, Agrees, workVars
  <2> QED
    BY <2>7, <2>10 DEF TypeInv
<1>4. CASE Refuse(c)
  <2>1. cpc' = [cpc EXCEPT ![c] = "putBack"] /\ UNCHANGED <<inq, accepted, cptr,
                                                            overwritten>>
    BY <1>4 DEF Refuse, Step
  <2> HIDE DEF z
  <2>2. TypeOK'
    BY <1>2, <2>1 DEF TypeInv, TypeOK, CallPcs, workVars
  <2>3. Agrees'
    <3>1. cptr[c] # NONE
      BY <1>1, EngineAssumption
    <3>2. cpc \in [Callers -> CallPcs]
      BY DEF TypeInv, TypeOK
    <3> QED
      BY <1>2, <2>1, <3>1, <3>2 DEF TypeInv, Agrees, workVars
  <2> QED
    BY <2>2, <2>3 DEF TypeInv
<1> QED
  BY <1>3, <1>4 DEF Push, Enter, Overwrite

LEMMA TypeCall ==
  ASSUME TypeInv, CallType, NEW c \in Callers, CallStep(c)
  PROVE  TypeInv'
<1>1. CASE StoreState(c)
  <2>1. TypeOK'
    BY <1>1 DEF TypeInv, TypeOK, StoreState, Step, CallPcs, workVars, histories
  <2>2. Agrees'
    BY <1>1 DEF TypeInv, TypeOK, Agrees, StoreState, Step, workVars, histories
  <2> QED
    BY <2>1, <2>2 DEF TypeInv
<1>2. ASSUME NEW p \in Ptrs, GetOrder(c, p) PROVE TypeInv'
  <2>1. cid[c] \in Ids
    BY <1>2 DEF CallType, Marks, GetOrder
  <2>2. pool' \in [Ptrs -> Nat] /\ obj' \in [Ptrs -> Ids \cup {0}]
    BY <1>2, <2>1 DEF TypeInv, TypeOK, GetOrder, PoolWithout
  <2>3. TypeOK'
    BY <1>2, <2>2 DEF TypeInv, TypeOK, GetOrder, Step, CallPcs, workVars, histories
  <2>4. Agrees'
    BY <1>2, EngineAssumption
       DEF TypeInv, TypeOK, Agrees, GetOrder, Step, workVars, histories
  <2> QED
    BY <2>3, <2>4 DEF TypeInv
<1>3. CASE PutBack(c)
  <2>1. pool' \in [Ptrs -> Nat] /\ obj' \in [Ptrs -> Ids \cup {0}]
    BY <1>3, PutBackTyped DEF TypeInv, TypeOK, Agrees, PutBack
  <2>2. TypeOK'
    BY <1>3, <2>1 DEF TypeInv, TypeOK, PutBack, Step, CallPcs, workVars, histories
  <2>3. Agrees'
    BY <1>3 DEF TypeInv, TypeOK, Agrees, PutBack, Step, workVars, histories
  <2> QED
    BY <2>2, <2>3 DEF TypeInv
<1>4. CASE Unmark(c) \/ DeleteState(c)
  <2>1. TypeOK'
    BY <1>4 DEF TypeInv, TypeOK, Unmark, DeleteState, Step, CallPcs, workVars, histories
  <2>2. /\ cpc[c] \in {"unmark", "unstate"}
        /\ UNCHANGED <<csym, cptr, workVars, run>>
    BY <1>4 DEF Unmark, DeleteState, histories
  <2>3. PICK l \in {"idle", "unstate"} : cpc' = [cpc EXCEPT ![c] = l]
    BY <1>4 DEF Unmark, DeleteState, Step
  <2>4. /\ \A d \in Callers : cptr'[d] # NONE <=> cpc'[d] \in {"push", "putBack"}
        /\ \A d \in Callers : cpc'[d] \in {"state", "get", "push"} => csym'[d] \in Symbols
    BY <2>2, <2>3 DEF TypeInv, TypeOK, Agrees
  <2>5. Agrees'
    BY <2>2, <2>4 DEF TypeInv, Agrees, workVars
  <2> QED
    BY <2>1, <2>5 DEF TypeInv
<1> QED
  BY <1>1, <1>2, <1>3, <1>4, TypePush DEF CallStep

\* A worker's sequence of one batch.
LEMMA TypeWorker ==
  ASSUME TypeInv, NEW w \in Workers, WorkerStep(w)
  PROVE  TypeInv'
<1> USE DEF TypeInv
<1>1. ASSUME NEW s \in Symbols, NEW n \in 1 .. BatchSize, Poll(w, s, n) PROVE TypeInv'
  <2>1. inq[s] \in Seq(Ptrs) /\ n \in 1 .. Len(inq[s])
    BY <1>1 DEF TypeOK, Poll
  <2>2. /\ batch' = [batch EXCEPT ![w] = SubSeq(inq[s], 1, n)]
        /\ inq' = [inq EXCEPT ![s] = SubSeq(inq[s], n + 1, Len(inq[s]))]
        /\ wpc' = [wpc EXCEPT ![w] = "match"]
    BY <1>1 DEF Poll, QueueAfter, Goto, TypeOK
  <2>3. /\ SubSeq(inq[s], 1, n) \in Seq(Ptrs) /\ Len(SubSeq(inq[s], 1, n)) = n
        /\ SubSeq(inq[s], 1, n) # <<>>
        /\ SubSeq(inq[s], n + 1, Len(inq[s])) \in Seq(Ptrs)
        /\ Len(SubSeq(inq[s], n + 1, Len(inq[s]))) = Len(inq[s]) - n
    <3> DEFINE q == inq[s]
    <3>1. q \in Seq(Ptrs) /\ n \in 1 .. Len(q)
      BY <2>1
    <3> HIDE DEF q
    <3>2. /\ SubSeq(q, 1, n) \in Seq(Ptrs) /\ Len(SubSeq(q, 1, n)) = n
          /\ SubSeq(q, 1, n) # <<>>
          /\ SubSeq(q, n + 1, Len(q)) \in Seq(Ptrs)
          /\ Len(SubSeq(q, n + 1, Len(q))) = Len(q) - n
      BY <3>1, CutSequence
    <3> QED
      BY <3>2 DEF q
  <2>4. /\ inq' \in [Symbols -> Seq(Ptrs)] /\ batch' \in [Workers -> Seq(Ptrs)]
        /\ \A t \in Symbols : Len(inq'[t]) <= InCap
    <3>1. inq' \in [Symbols -> Seq(Ptrs)] /\ batch' \in [Workers -> Seq(Ptrs)]
      BY <2>2, <2>3 DEF TypeOK
    <3>2. inq'[s] = SubSeq(inq[s], n + 1, Len(inq[s]))
          /\ \A t \in Symbols \ {s} : inq'[t] = inq[t]
      BY <2>2 DEF TypeOK
    <3>3. \A t \in Symbols : Len(inq[t]) <= InCap /\ Len(inq[t]) \in Nat
      BY DEF TypeOK
    <3>4. Len(inq'[s]) \in Nat
      BY <2>3, <3>2
    <3>5. Len(inq'[s]) <= InCap
      BY <2>1, <2>3, <3>2, <3>3, <3>4, Capacities
    <3> QED
      BY <3>1, <3>2, <3>3, <3>5
  <2>5. /\ wpc' \in [Workers -> {"poll", "match", "send", "release", "exited"}]
        /\ UNCHANGED <<processed, states, obj, pool, outq, resting, callVars, result,
                       rpc, rbatch, run, cancelling, histories>>
    BY <1>1, <2>2 DEF TypeOK, Poll
  <2>6. TypeOK'
    BY <2>4, <2>5 DEF TypeOK, callVars, histories
  <2>7. /\ batch'[w] # <<>> /\ Len(batch'[w]) <= BatchSize
        /\ \A v \in Workers \ {w} : batch'[v] = batch[v]
    <3>1. batch'[w] = SubSeq(inq[s], 1, n) /\ \A v \in Workers \ {w} : batch'[v] = batch[v]
      BY <2>2 DEF TypeOK
    <3> QED
      BY <2>1, <2>3, <3>1
  <2>8. \A v \in Workers : wpc'[v] = IF v = w THEN "match" ELSE wpc[v]
    BY <2>2 DEF TypeOK
  <2>9. run = "live"
    BY <1>1 DEF Poll
  <2>10. Agrees'
    BY <2>5, <2>7, <2>8, <2>9 DEF Agrees, callVars
  <2> QED
    BY <2>6, <2>10
<1>2. ASSUME NEW trades \in BOOLEAN, NEW rests \in BOOLEAN, Match(w, trades, rests)
      PROVE  TypeInv'
  <2>1. batch[w] \in Seq(Ptrs) /\ batch[w] # <<>>
    BY <1>2 DEF TypeOK, Agrees, Match
  <2>2. Current(w) \in Ptrs /\ obj[Current(w)] \in Ids \cup {0}
    BY <2>1, TailSequence DEF TypeOK, Current
  <2>3. matched' \in Seq(Ids \cup {0})
    BY <1>2, <2>2 DEF TypeOK, Match
  <2>4. resting' \in [Ids -> Ptrs \cup {NONE}]
    BY <1>2, <2>2 DEF TypeOK, Match
  <2>5. [ptr |-> Current(w), trades |-> trades] \in Results
    BY <2>2 DEF Results
  <2>6. /\ result' = [result EXCEPT ![w] = [ptr |-> Current(w), trades |-> trades]]
        /\ wpc' = [wpc EXCEPT ![w] = "send"]
        /\ UNCHANGED <<processed, states, obj, pool, inq, outq, callVars, batch, rpc,
                       rbatch, run, cancelling, accepted, dropped, overwritten, raced>>
    BY <1>2 DEF Match, Goto
  <2>7. TypeOK'
    BY <2>3, <2>4, <2>5, <2>6 DEF TypeOK, callVars
  <2>8. Agrees'
    BY <1>2, <2>1, <2>5, <2>6 DEF TypeOK, Agrees, callVars, Match
  <2> QED
    BY <2>7, <2>8
<1>3. CASE Send(w)
  <2>1. result[w] \in Results
    BY <1>3 DEF Agrees, Send
  <2>2. outq' \in Seq(Results) /\ Len(outq') <= OutSum
    <3>1. outq \in Seq(Results) /\ Len(outq) <= OutSum
      BY DEF TypeOK
    <3>2. \/ outq' = outq
          \/ outq' \in Entered(outq, result[w], OutSum, Workers)
          \/ \E i \in 1 .. Len(outq) : outq' = Lapped(outq, i, result[w])
      BY <1>3 DEF Send
    <3> QED
      BY <2>1, <3>1, <3>2, Capacities, PushedTyped
  <2>3. /\ wpc[w] = "send" /\ wpc' = [wpc EXCEPT ![w] = "release"]
        /\ UNCHANGED <<processed, states, obj, pool, inq, resting, callVars, batch,
                       result, rpc, rbatch, run, cancelling, histories>>
    BY <1>3 DEF Send, Goto
  <2>4. TypeOK'
    BY <2>2, <2>3 DEF TypeOK, callVars, histories
  <2>5. Agrees'
    BY <2>3 DEF TypeOK, Agrees, callVars
  <2> QED
    BY <2>4, <2>5
<1>4. CASE Release(w)
  <2>1. batch[w] \in Seq(Ptrs) /\ batch[w] # <<>>
    BY <1>4 DEF TypeOK, Agrees, Release
  <2>2. /\ Len(batch[w]) \in Nat \ {0} /\ Current(w) \in Ptrs
        /\ Tail(batch[w]) \in Seq(Ptrs) /\ Len(Tail(batch[w])) = Len(batch[w]) - 1
    BY <2>1, TailSequence DEF Current
  <2>3. obj' \in [Ptrs -> Ids \cup {0}] /\ pool' \in [Ptrs -> Nat]
    BY <1>4, <2>2, PutBackTyped DEF Release
  <2>4. /\ wpc[w] = "release" /\ batch' = [batch EXCEPT ![w] = Tail(@)]
        /\ result' = [result EXCEPT ![w] = NONE]
        /\ wpc' = [wpc EXCEPT ![w] = IF Len(batch[w]) = 1 THEN "poll" ELSE "match"]
        /\ UNCHANGED <<processed, states, inq, outq, resting, callVars, rpc, rbatch,
                       run, cancelling, histories>>
    BY <1>4 DEF Release, Goto
  <2>5. TypeOK'
    BY <2>2, <2>3, <2>4 DEF TypeOK, callVars, histories
  <2>6. Tail(batch[w]) = <<>> <=> Len(batch[w]) = 1
    BY <2>1, TailSequence
  <2>7. Len(batch'[w]) <= BatchSize
    BY <2>2, <2>4, EngineAssumption DEF TypeOK, Agrees
  <2>8. Agrees'
    BY <2>4, <2>6, <2>7 DEF TypeOK, Agrees, callVars
  <2> QED
    BY <2>5, <2>8
<1>5. CASE WorkerExit(w)
  <2>1. \A p \in Elems(batch[w]) : obj[p] \in Ids \cup {0}
    BY DEF TypeOK, Elems
  <2>2. dropped' \subseteq Ids \cup {0}
    BY <1>5, <2>1 DEF WorkerExit, TypeOK
  <2>3. /\ run = "stopping" /\ batch' = [batch EXCEPT ![w] = <<>>]
        /\ wpc' = [wpc EXCEPT ![w] = "exited"]
        /\ UNCHANGED <<processed, states, obj, pool, inq, outq, resting, callVars,
                       result, rpc, rbatch, run, cancelling, accepted, overwritten, matched,
                       raced>>
    BY <1>5 DEF WorkerExit, Goto
  <2>4. TypeOK'
    BY <2>2, <2>3 DEF TypeOK, callVars
  <2>5. Agrees'
    BY <2>3, EngineAssumption DEF TypeOK, Agrees, callVars
  <2> QED
    BY <2>4, <2>5
<1> QED
  BY <1>1, <1>2, <1>3, <1>4, <1>5 DEF WorkerStep

LEMMA TypeResult ==
  ASSUME TypeInv, ResultStep
  PROVE  TypeInv'
<1>1. UNCHANGED <<processed, states, obj, pool, inq, resting, callVars, wpc, batch,
                  result, run, cancelling, histories>>
  BY DEF ResultStep, TakeResults, HandleResult, ResultsExit, MayExit
<1>2. /\ outq' \in Seq(Results) /\ Len(outq') <= OutSum
      /\ rpc' \in {"poll", "handle", "exited"} /\ rbatch' \in Seq(Results)
      /\ rpc' = "handle" => rbatch' # <<>>
  <2>1. /\ outq \in Seq(Results) /\ Len(outq) <= OutSum /\ rbatch \in Seq(Results)
        /\ rpc = "handle" => rbatch # <<>>
    BY DEF TypeInv, TypeOK, Agrees
  <2>2. ASSUME NEW n \in 1 .. BatchSize, TakeResults(n)
        PROVE  /\ outq' \in Seq(Results) /\ Len(outq') <= OutSum
               /\ rpc' = "handle" /\ rbatch' \in Seq(Results) /\ rbatch' # <<>>
    <3>1. /\ n \in 1 .. Len(outq) /\ rbatch' = SubSeq(outq, 1, n)
          /\ outq' = SubSeq(outq, n + 1, Len(outq)) /\ rpc' = "handle"
      BY <2>1, <2>2 DEF TakeResults
    <3>2. /\ outq' \in Seq(Results) /\ Len(outq') = Len(outq) - n
          /\ rbatch' \in Seq(Results) /\ rbatch' # <<>>
      BY <2>1, <3>1, CutSequence
    <3>3. Len(outq) \in Nat
      BY <2>1
    <3> QED
      BY <2>1, <3>1, <3>2, <3>3, Capacities
  <2>3. ASSUME HandleResult
        PROVE  /\ outq' = outq /\ rpc' \in {"poll", "handle"} /\ rbatch' \in Seq(Results)
               /\ rpc' = "handle" => rbatch' # <<>>
    <3>1. /\ rbatch # <<>> /\ rbatch' = Tail(rbatch) /\ outq' = outq
          /\ rpc' = IF Len(rbatch) = 1 THEN "poll" ELSE "handle"
      BY <2>1, <2>3 DEF HandleResult
    <3>2. rbatch' \in Seq(Results) /\ (rbatch' = <<>> <=> Len(rbatch) = 1)
      BY <2>1, <3>1, TailSequence
    <3> QED
      BY <3>1, <3>2
  <2>4. CASE ResultsExit
    BY <2>1, <2>4 DEF ResultsExit
  <2> QED
    BY <2>1, <2>2, <2>3, <2>4 DEF ResultStep
<1>3. TypeOK'
  BY <1>1, <1>2 DEF TypeInv, TypeOK, callVars, histories
<1>4. Agrees'
  BY <1>1, <1>2 DEF TypeInv, Agrees, callVars
<1> QED
  BY <1>3, <1>4 DEF TypeInv

\* Start, Stop and CancelOrder.
Control ==
  \/ Start \/ StopBegin \/ StopEnd
  \/ (\E id \in Ids : CancelOrder(id)) \/ MarkCancelled

LEMMA TypeControl ==
  ASSUME TypeInv, Control
  PROVE  TypeInv'
<1>1. CASE Start
  <2>1. /\ wpc' = [w \in Workers |-> "poll"] /\ rpc' = "poll" /\ run' = "live"
        /\ \A w \in Workers : wpc[w] = "exited"
        /\ UNCHANGED <<processed, states, obj, pool, inq, outq, resting, callVars, batch,
                       result, rbatch, cancelling, histories>>
    BY <1>1 DEF Start, TypeInv, Agrees
  <2>2. TypeOK'
    BY <2>1 DEF TypeInv, TypeOK, callVars, histories
  <2>3. Agrees'
    BY <2>1 DEF TypeInv, Agrees, callVars
  <2> QED
    BY <2>2, <2>3 DEF TypeInv
<1>2. CASE StopBegin \/ StopEnd
  <2>1. /\ run' \in {"stopping", "stopped"}
        /\ run' = "stopped" => \A w \in Workers : wpc[w] = "exited"
        /\ UNCHANGED <<processed, states, obj, pool, inq, outq, resting, callVars,
                       workVars, cancelling, histories>>
    BY <1>2 DEF StopBegin, StopEnd
  <2>2. TypeOK'
    BY <2>1 DEF TypeInv, TypeOK, callVars, workVars, histories
  <2>3. Agrees'
    BY <2>1 DEF TypeInv, Agrees, callVars, workVars
  <2> QED
    BY <2>2, <2>3 DEF TypeInv
<1>3. ASSUME NEW id \in Ids, CancelOrder(id) PROVE TypeInv'
  <2>1. resting[id] \in Ptrs
    BY <1>3 DEF CancelOrder, TypeInv, TypeOK
  <2>2. obj' \in [Ptrs -> Ids \cup {0}] /\ pool' \in [Ptrs -> Nat]
    BY <1>3, <2>1, PutBackTyped DEF CancelOrder
  <2>3. raced' \in BOOLEAN
    BY <1>3 DEF CancelOrder
  <2>4. /\ resting' = [resting EXCEPT ![id] = NONE] /\ cancelling' = id
        /\ UNCHANGED <<processed, states, inq, outq, callVars, workVars, run, accepted,
                       matched, dropped, overwritten>>
    BY <1>3 DEF CancelOrder
  <2>5. TypeOK'
    BY <2>2, <2>3, <2>4 DEF TypeInv, TypeOK, callVars, workVars
  <2>6. Agrees'
    BY <2>4 DEF TypeInv, Agrees, callVars, workVars
  <2> QED
    BY <2>5, <2>6 DEF TypeInv
<1>4. CASE MarkCancelled
  <2>1. /\ states' \in [Ids -> {"none", "pending", "cancelled"}] /\ cancelling' = NONE
        /\ UNCHANGED <<processed, obj, pool, inq, outq, resting, callVars, workVars, run,
                       histories>>
    BY <1>4 DEF MarkCancelled, TypeInv, TypeOK
  <2>2. TypeOK'
    BY <2>1 DEF TypeInv, TypeOK, callVars, workVars, histories
  <2>3. Agrees'
    BY <2>1 DEF TypeInv, Agrees, callVars, workVars
  <2> QED
    BY <2>2, <2>3 DEF TypeInv
<1> QED
  BY <1>1, <1>2, <1>3, <1>4 DEF Control

LEMMA TypeNext == TypeInv /\ CallType /\ [Next]_vars => TypeInv'
<1> SUFFICES ASSUME TypeInv, CallType, [Next]_vars PROVE TypeInv'
  OBVIOUS
<1>1. CASE UNCHANGED vars
  BY <1>1 DEF vars, callVars, workVars, histories, TypeInv, TypeOK, Agrees
<1> QED
  BY <1>1, TypeBegin, TypeCall, TypeWorker, TypeResult, TypeControl DEF Next, Control

LEMMA TypeInvariant == Spec => []TypeInv
<1>1. CallType /\ OneMark => CallType
  OBVIOUS
<1> QED
  BY <1>1, TypeInit, TypeNext, MarksInvariant, PTL DEF Spec

-----------------------------------------------------------------------------
(* Owners                                                                  *)

\* A place of a queue or of a batch holds an object, and that object an id.
LEMMA WaitingObjects ==
  ASSUME TypeInv
  PROVE  /\ \A s \in Symbols : \A i \in 1 .. Len(inq[s]) : inq[s][i] \in Ptrs
         /\ \A w \in Workers : \A i \in 1 .. Len(batch[w]) : batch[w][i] \in Ptrs
         /\ Elems(accepted) \subseteq Ids /\ 0 \notin Ids
         /\ \A c \in Callers : cptr[c] # NONE => cptr[c] \in Ptrs
<1>1. /\ \A s \in Symbols : inq[s] \in Seq(Ptrs)
      /\ \A w \in Workers : batch[w] \in Seq(Ptrs)
      /\ accepted \in Seq(Ids) /\ cptr \in [Callers -> Ptrs \cup {NONE}]
  BY DEF TypeInv, TypeOK
<1> QED
  BY <1>1, EngineAssumption DEF Elems

\* What a call holds carries an id that was not accepted.
LEMMA HeldIds ==
  ASSUME TypeInv, CallType, OneMark, Owners, NEW c \in Callers, cptr[c] # NONE
  PROVE  /\ cptr[c] \in Ptrs /\ obj[cptr[c]] = cid[c]
         /\ cid[c] \in Ids \ Elems(accepted)
         /\ \A d \in Callers \ {c} : cptr[d] # NONE => cptr[d] # cptr[c]
<1>1. \A d \in Callers : cptr[d] # NONE => Marks(d)
  BY DEF TypeInv, Agrees, Marks
<1>2. \A d \in Callers \ {c} : cptr[d] # NONE => cid[d] # cid[c]
  BY <1>1 DEF OneMark
<1> QED
  BY <1>1, <1>2, WaitingObjects DEF Owners, CallsHold, CallType, OneMark

\* A step that moves no order and changes no object that waits.
LEMMA WaitingStays ==
  ASSUME Waiting, UNCHANGED <<inq, batch, accepted, matched, dropped, overwritten>>,
         \A s \in Symbols : \A i \in 1 .. Len(inq[s]) :
           obj'[inq[s][i]] = obj[inq[s][i]],
         \A w \in Workers : \A i \in 1 .. Len(batch[w]) :
           obj'[batch[w][i]] = obj[batch[w][i]] /\ Behind(w, i)' = Behind(w, i),
         \A id \in Ids : resting'[id] # NONE => resting[id] # NONE
  PROVE  Waiting'
<1>1. Elems(accepted)' = Elems(accepted) /\ Elems(matched)' = Elems(matched)
  BY DEF Elems
<1>2. QueuesHold'
  BY <1>1 DEF Waiting, QueuesHold, Queued
<1>3. BatchesHold'
  BY <1>1 DEF Waiting, BatchesHold, Popped
<1>4. QueuesApart' /\ BatchesApart' /\ PlacesApart'
  BY DEF Waiting, QueuesApart, BatchesApart, PlacesApart, Queued, Popped
<1>5. MatchesApart' /\ RestingMatched'
  BY <1>1 DEF Waiting, MatchesApart, RestingMatched
<1>6. Kept'
  BY <1>1 DEF Waiting, Kept, Queued, Popped
<1> QED
  BY <1>2, <1>3, <1>4, <1>5, <1>6 DEF Waiting

\* A step that changes no object at all.
LEMMA QuietOwners ==
  ASSUME Owners,
         UNCHANGED <<pool, obj, inq, batch, cptr, accepted, matched, resting,
                     dropped, overwritten>>,
         \A c \in Callers : cptr[c] # NONE => cid'[c] = cid[c],
         \A w \in Workers : batch[w] # <<>> =>
           (wpc'[w] \in {"send", "release"} <=> wpc[w] \in {"send", "release"})
  PROVE  Owners'
<1>1. \A w \in Workers : \A i \in 1 .. Len(batch[w]) : Behind(w, i)' = Behind(w, i)
  BY DEF Behind
<1>2. Waiting'
  BY <1>1, WaitingStays DEF Owners
<1>3. PoolClean' /\ CallsHold'
  BY DEF Owners, PoolClean, CallsHold
<1> QED
  BY <1>2, <1>3 DEF Owners

\* PutOrderToPool of an object that is at no place and in no other call's hands.
LEMMA PutBackOwners ==
  ASSUME TypeInv, Owners, NEW p \in Ptrs, obj[p] # 0, PutOrderToPool(p),
         UNCHANGED <<inq, batch, wpc, accepted, matched, dropped, overwritten, cid>>,
         \A s \in Symbols : \A i \in 1 .. Len(inq[s]) : inq[s][i] # p,
         \A w \in Workers : \A i \in 1 .. Len(batch[w]) : batch[w][i] # p,
         \A c \in Callers : cptr'[c] # NONE => cptr'[c] = cptr[c] /\ cptr[c] # p,
         \A id \in Ids : resting'[id] # NONE => resting[id] # NONE
  PROVE  Owners'
<1>1. /\ obj'[p] = 0 /\ pool'[p] = pool[p] + 1
      /\ \A q \in Ptrs \ {p} : obj'[q] = obj[q] /\ pool'[q] = pool[q]
  BY DEF PutOrderToPool, TypeInv, TypeOK
<1>2. PoolClean'
  BY <1>1 DEF Owners, PoolClean
<1>3. CallsHold'
  BY <1>1, WaitingObjects DEF Owners, CallsHold
<1>4. \A w \in Workers : \A i \in 1 .. Len(batch[w]) : Behind(w, i)' = Behind(w, i)
  BY DEF Behind
<1>5. Waiting'
  BY <1>1, <1>4, WaitingObjects, WaitingStays DEF Owners
<1> QED
  BY <1>2, <1>3, <1>5 DEF Owners

\* ProcessOrder takes an object from the pool: it was nowhere else.
LEMMA GetOwners ==
  ASSUME TypeInv, CallType, OneMark, Owners, NEW c \in Callers, NEW p \in Ptrs,
         GetOrder(c, p)
  PROVE  Owners'
<1>1. /\ pool' = [pool EXCEPT ![p] = @ - 1] /\ obj' = [obj EXCEPT ![p] = cid[c]]
      /\ cptr' = [cptr EXCEPT ![c] = p]
      /\ UNCHANGED <<inq, batch, wpc, accepted, matched, dropped, overwritten, cid,
                     resting>>
  BY DEF GetOrder, PoolWithout, workVars, histories
<1>2. pool[p] = 1 /\ obj[p] = 0
  BY DEF GetOrder, Owners, PoolClean
<1>3. /\ pool'[p] = 0 /\ obj'[p] = cid[c] /\ cptr'[c] = p
      /\ \A q \in Ptrs \ {p} : obj'[q] = obj[q] /\ pool'[q] = pool[q]
      /\ \A d \in Callers \ {c} : cptr'[d] = cptr[d]
  BY <1>1, <1>2 DEF TypeInv, TypeOK
<1>4. /\ \A s \in Symbols : \A i \in 1 .. Len(inq[s]) : inq[s][i] # p
      /\ \A w \in Workers : \A i \in 1 .. Len(batch[w]) : batch[w][i] # p
  BY <1>2, WaitingObjects
     DEF Owners, Waiting, QueuesHold, BatchesHold, Queued, Popped
<1>5. \A d \in Callers : cptr[d] # NONE => cptr[d] # p /\ cptr[d] \in Ptrs
  BY <1>2, HeldIds, WaitingObjects
<1>6. PoolClean'
  BY <1>3 DEF Owners, PoolClean
<1>7. CallsHold'
  BY <1>1, <1>3, <1>5 DEF Owners, CallsHold
<1>8. Waiting'
  BY <1>1, <1>3, <1>4, WaitingObjects, WaitingStays DEF Owners, Behind
<1> QED
  BY <1>6, <1>7, <1>8 DEF Owners

\* The object of a rejected order is in the hands of its call only.
LEMMA RejectOwners ==
  ASSUME TypeInv, CallType, OneMark, Owners, NEW c \in Callers, PutBack(c)
  PROVE  Owners'
<1>1. /\ cpc[c] = "putBack" /\ PutOrderToPool(cptr[c])
      /\ cptr' = [cptr EXCEPT ![c] = NONE]
      /\ UNCHANGED <<inq, batch, wpc, accepted, matched, dropped, overwritten, cid,
                     resting>>
  BY DEF PutBack, workVars, histories
<1> DEFINE p == cptr[c]
<1>2. /\ p \in Ptrs /\ obj[p] \in Ids \ Elems(accepted) /\ cptr[c] # NONE
      /\ \A d \in Callers \ {c} : cptr[d] # NONE => cptr[d] # p
  BY <1>1, HeldIds DEF TypeInv, Agrees
<1>3. /\ \A s \in Symbols : \A i \in 1 .. Len(inq[s]) : inq[s][i] # p
      /\ \A w \in Workers : \A i \in 1 .. Len(batch[w]) : batch[w][i] # p
  BY <1>2 DEF Owners, Waiting, QueuesHold, BatchesHold, Queued, Popped
<1>4. \A d \in Callers : cptr'[d] # NONE => cptr'[d] = cptr[d] /\ cptr[d] # p
  BY <1>1, <1>2 DEF TypeInv, TypeOK
<1>5. obj[p] # 0
  BY <1>2, EngineAssumption
<1> HIDE DEF p
<1>6. PutOrderToPool(p)
  BY <1>1 DEF p
<1> QED
  BY <1>1, <1>2, <1>3, <1>4, <1>5, <1>6, PutBackOwners

\* A push puts an order whose id is at no place yet at place k of a queue. The
\* other places j of the queue r have what was at place f[j] before; what has no
\* place any more was overwritten.
Placed(c, z, r, k, f) ==
  /\ inq' = [inq EXCEPT ![z] = r] /\ k \in 1 .. Len(r) /\ r[k] = cptr[c]
  /\ \A j \in 1 .. Len(r) :
       j # k => f[j] \in 1 .. Len(inq[z]) /\ r[j] = inq[z][f[j]]
  /\ \A i, j \in 1 .. Len(r) : i # k /\ j # k /\ f[i] = f[j] => i = j
  /\ \A j \in 1 .. Len(inq[z]) :
       Queued(z, j) \in overwritten' \/ \E i \in 1 .. Len(r) : r[i] = inq[z][j]

LEMMA PlacedOwners ==
  ASSUME TypeInv, CallType, OneMark, Owners, NEW c \in Callers, cpc[c] = "push",
         PushReturnsTrue(c), overwritten \subseteq overwritten',
         UNCHANGED <<pool, obj, batch, wpc, cid, matched, resting, dropped>>,
         NEW z \in Symbols, NEW r, NEW k, NEW f, Placed(c, z, r, k, f)
  PROVE  Owners'
<1>0. /\ inq' = [inq EXCEPT ![z] = r] /\ k \in 1 .. Len(r) /\ r[k] = cptr[c]
      /\ \A j \in 1 .. Len(r) :
           j # k => f[j] \in 1 .. Len(inq[z]) /\ r[j] = inq[z][f[j]]
      /\ \A i, j \in 1 .. Len(r) : i # k /\ j # k /\ f[i] = f[j] => i = j
      /\ \A j \in 1 .. Len(inq[z]) :
           Queued(z, j) \in overwritten' \/ \E i \in 1 .. Len(r) : r[i] = inq[z][j]
  BY DEF Placed
<1> DEFINE p == cptr[c]
<1>1. /\ accepted' = Append(accepted, cid[c]) /\ cptr' = [cptr EXCEPT ![c] = NONE]
  BY DEF PushReturnsTrue
<1>2. /\ p \in Ptrs /\ obj[p] = cid[c] /\ cid[c] \in Ids \ Elems(accepted)
  BY HeldIds DEF TypeInv, Agrees
<1>3. Elems(accepted)' = Elems(accepted) \cup {cid[c]} /\ Elems(matched)' = Elems(matched)
  <2>1. accepted \in Seq(Ids)
    BY DEF TypeInv, TypeOK
  <2>2. Elems(Append(accepted, cid[c])) = Elems(accepted) \cup {cid[c]}
    BY <1>2, <2>1, AppendElems
  <2> QED
    BY <1>1, <2>2 DEF Elems
<1>4. inq'[z] = r /\ \A s \in Symbols \ {z} : inq'[s] = inq[s]
  BY <1>0 DEF TypeInv, TypeOK
<1>5. PoolClean' /\ CallsHold'
  BY <1>1 DEF Owners, PoolClean, CallsHold, TypeInv, TypeOK
<1>6. ASSUME NEW j \in 1 .. Len(r), j # k
      PROVE  f[j] \in 1 .. Len(inq[z]) /\ Queued(z, j)' = Queued(z, f[j])
  BY <1>0, <1>4, <1>6 DEF Queued
<1>7. Queued(z, k)' = cid[c]
  BY <1>0, <1>2, <1>4 DEF Queued
<1>8. ASSUME NEW s \in Symbols \ {z}
      PROVE  /\ Len(inq'[s]) = Len(inq[s])
             /\ \A i \in 1 .. Len(inq[s]) : Queued(s, i)' = Queued(s, i)
  BY <1>4 DEF Queued
<1>9. \A w \in Workers : \A i \in 1 .. Len(batch[w]) :
        Popped(w, i)' = Popped(w, i) /\ Behind(w, i)' = Behind(w, i)
  BY DEF Popped, Behind
<1>10. cid[c] \notin Elems(matched)
  BY <1>2 DEF Owners, Waiting, MatchesApart
\* Every place of the queues is the new one or has what another had.
<1>11. ASSUME NEW s \in Symbols, NEW i \in 1 .. Len(inq'[s])
       PROVE  \/ s = z /\ i = k /\ Queued(s, i)' = cid[c]
              \/ /\ s = z /\ i # k /\ i \in 1 .. Len(r) /\ f[i] \in 1 .. Len(inq[s])
                 /\ Queued(s, i)' = Queued(s, f[i])
              \/ s # z /\ i \in 1 .. Len(inq[s]) /\ Queued(s, i)' = Queued(s, i)
  <2>1. CASE s = z
    BY <1>4, <1>6, <1>7, <2>1
  <2>2. CASE s # z
    BY <1>8, <2>2
  <2> QED
    BY <2>1, <2>2
<1> HIDE DEF p
<1>12. QueuesHold'
  <2> SUFFICES ASSUME NEW s \in Symbols, NEW i \in 1 .. Len(inq'[s])
               PROVE  Queued(s, i)' \in Elems(accepted)' \ Elems(matched)'
    BY DEF QueuesHold
  <2>1. Queued(s, i)' = cid[c] \/ \E j \in 1 .. Len(inq[s]) : Queued(s, i)' = Queued(s, j)
    BY <1>11
  <2> QED
    BY <1>3, <1>10, <2>1 DEF Owners, Waiting, QueuesHold
<1>13. \A s \in Symbols : \A i \in 1 .. Len(inq[s]) : Queued(s, i) # cid[c]
  BY <1>2 DEF Owners, Waiting, QueuesHold
<1>14. QueuesApart'
  <2> SUFFICES ASSUME NEW s \in Symbols, NEW t \in Symbols,
                      NEW i \in 1 .. Len(inq'[s]), NEW j \in 1 .. Len(inq'[t]),
                      Queued(s, i)' = Queued(t, j)'
               PROVE  s = t /\ i = j
    BY DEF QueuesApart
  <2>1. CASE s = z /\ i = k
    BY <1>0, <1>7, <1>11, <1>13, <2>1
  <2>2. CASE t = z /\ j = k
    BY <1>0, <1>7, <1>11, <1>13, <2>2
  <2>3. CASE ~(s = z /\ i = k) /\ ~(t = z /\ j = k)
    <3> DEFINE a == IF s = z THEN f[i] ELSE i
               b == IF t = z THEN f[j] ELSE j
    <3>1. a \in 1 .. Len(inq[s]) /\ Queued(s, i)' = Queued(s, a)
      BY <1>11, <2>3
    <3>2. b \in 1 .. Len(inq[t]) /\ Queued(t, j)' = Queued(t, b)
      BY <1>11, <2>3
    <3> HIDE DEF a, b
    <3>3. Queued(s, a) = Queued(t, b)
      BY <3>1, <3>2
    <3>4. s = t /\ a = b
      BY <3>1, <3>2, <3>3 DEF Owners, Waiting, QueuesApart
    <3> USE DEF a, b
    <3>5. s = z => i \in 1 .. Len(r) /\ j \in 1 .. Len(r)
      BY <1>4, <3>4
    <3> QED
      BY <1>0, <2>3, <3>4, <3>5
  <2> QED
    BY <2>1, <2>2, <2>3
<1>15. BatchesHold' /\ BatchesApart'
  <2>1. BatchesHold /\ BatchesApart
    BY DEF Owners, Waiting
  <2>2. BatchesHold'
    BY <1>3, <1>9, <1>10, <2>1 DEF BatchesHold
  <2>3. BatchesApart'
    BY <1>9, <2>1 DEF BatchesApart
  <2> QED
    BY <2>2, <2>3
<1>16. PlacesApart'
  <2> SUFFICES ASSUME NEW s \in Symbols, NEW w \in Workers,
                      NEW i \in 1 .. Len(inq'[s]), NEW j \in 1 .. Len(batch[w])
               PROVE  Queued(s, i)' # Popped(w, j)
    BY <1>9 DEF PlacesApart
  <2>1. Popped(w, j) \in Elems(accepted)
    BY DEF Owners, Waiting, BatchesHold
  <2>2. Queued(s, i)' = cid[c] \/ \E l \in 1 .. Len(inq[s]) : Queued(s, i)' = Queued(s, l)
    BY <1>11
  <2> QED
    BY <1>2, <2>1, <2>2 DEF Owners, Waiting, PlacesApart
<1>17. MatchesApart' /\ RestingMatched'
  BY <1>3 DEF Owners, Waiting, MatchesApart, RestingMatched
<1>18. Kept'
  <2> SUFFICES ASSUME NEW id \in Elems(accepted)',
                      id \notin Elems(matched) \cup dropped \cup overwritten'
               PROVE  \/ \E s \in Symbols : \E i \in 1 .. Len(inq'[s]) : Queued(s, i)' = id
                      \/ \E w \in Workers : \E i \in 1 .. Len(batch[w]) : Popped(w, i)' = id
    BY <1>3 DEF Kept
  <2>1. CASE id = cid[c]
    BY <1>0, <1>4, <1>7, <2>1
  <2>2. ASSUME NEW s \in Symbols, NEW i \in 1 .. Len(inq[s]), Queued(s, i) = id
        PROVE  \E j \in 1 .. Len(inq'[s]) : Queued(s, j)' = id
    <3>1. CASE s # z
      BY <1>8, <2>2, <3>1
    <3>2. CASE s = z
      <4>1. PICK j \in 1 .. Len(r) : r[j] = inq[z][i]
        BY <1>0, <2>2, <3>2
      <4> QED
        BY <1>4, <2>2, <3>2, <4>1 DEF Queued
    <3> QED
      BY <3>1, <3>2
  <2>3. CASE id # cid[c]
    <3>1. \/ \E s \in Symbols : \E i \in 1 .. Len(inq[s]) : Queued(s, i) = id
          \/ \E w \in Workers : \E i \in 1 .. Len(batch[w]) : Popped(w, i) = id
      BY <1>3, <2>3 DEF Owners, Waiting, Kept
    <3> QED
      BY <1>9, <2>2, <3>1
  <2> QED
    BY <2>1, <2>3
<1> QED
  BY <1>5, <1>12, <1>14, <1>15, <1>16, <1>17, <1>18 DEF Owners, Waiting

\* A push puts its order between the others of its queue or, a lap later, in
\* the place of one of them, or leaves all as it is.
LEMMA PushOwners ==
  ASSUME TypeInv, CallType, OneMark, Owners, NEW c \in Callers, Push(c)
  PROVE  Owners'
<1>1. /\ cpc[c] = "push" /\ csym[c] \in Symbols /\ cptr[c] \in Ptrs
      /\ inq[csym[c]] \in Seq(Ptrs)
      /\ UNCHANGED <<pool, obj, batch, wpc, cid, matched, resting, dropped>>
  BY HeldIds DEF Push, TypeInv, TypeOK, Agrees, workVars
<1>2. PICK z \in Symbols : z = csym[c]
  BY <1>1
<1>3. PICK p \in Ptrs : p = cptr[c]
  BY <1>1
<1>4. PICK q \in Seq(Ptrs) : q = inq[z]
  BY <1>1, <1>2
<1>5. Len(q) \in Nat
  OBVIOUS
<1>6. CASE Enter(c)
  <2>1. PICK r : inq' = [inq EXCEPT ![z] = r] /\ r \in Entered(q, p, InCap, Callers)
    BY <1>2, <1>3, <1>4, <1>6 DEF Enter
  <2>2. PICK k \in 1 .. Len(q) + 1 : r = InsertAt(q, k, p)
    BY <2>1, Capacities, PushedQueue
  <2>3. PushReturnsTrue(c) /\ overwritten \subseteq overwritten'
    BY <1>6 DEF Enter
  <2>4. /\ Len(r) = Len(q) + 1 /\ r[k] = p
        /\ \A j \in 1 .. k - 1 : r[j] = q[j]
        /\ \A j \in k + 1 .. Len(q) + 1 : r[j] = q[j - 1]
    BY <2>2, InsertSequence
  <2> DEFINE f == [j \in Nat |-> IF j < k THEN j ELSE j - 1]
  <2>5. ASSUME NEW j \in 1 .. Len(r), j # k
        PROVE  f[j] \in 1 .. Len(q) /\ r[j] = q[f[j]]
    <3>1. CASE j < k
      BY <1>5, <2>4, <3>1
    <3>2. CASE j > k
      <4>1. j \in k + 1 .. Len(q) + 1 /\ f[j] = j - 1
        BY <1>5, <2>4, <3>2
      <4> QED
        BY <1>5, <2>4, <4>1
    <3> QED
      BY <1>5, <2>4, <2>5, <3>1, <3>2
  <2>6. \A i, j \in 1 .. Len(r) : i # k /\ j # k /\ f[i] = f[j] => i = j
    BY <1>5, <2>4
  <2>7. ASSUME NEW j \in 1 .. Len(q) PROVE \E i \in 1 .. Len(r) : r[i] = q[j]
    <3>1. CASE j < k
      BY <1>5, <2>4, <3>1
    <3>2. CASE j >= k
      <4>1. j + 1 \in k + 1 .. Len(q) + 1 /\ j + 1 \in 1 .. Len(r) /\ (j + 1) - 1 = j
        BY <1>5, <2>4, <3>2
      <4> QED
        BY <2>4, <4>1
    <3> QED
      BY <1>5, <3>1, <3>2
  <2> HIDE DEF f
  <2>8. k \in 1 .. Len(r) /\ r[k] = cptr[c]
    BY <1>3, <1>5, <2>4
  <2>9. \A j \in 1 .. Len(r) : j # k => f[j] \in 1 .. Len(inq[z]) /\ r[j] = inq[z][f[j]]
    BY <1>4, <2>5
  <2>10. \A j \in 1 .. Len(inq[z]) :
           Queued(z, j) \in overwritten' \/ \E i \in 1 .. Len(r) : r[i] = inq[z][j]
    BY <1>4, <2>7
  <2>11. Placed(c, z, r, k, f)
    BY <2>1, <2>6, <2>8, <2>9, <2>10 DEF Placed
  <2> QED
    BY <1>1, <2>3, <2>11, PlacedOwners
<1>7. CASE Overwrite(c)
  <2>1. PICK k \in 1 .. Len(q) : /\ inq' = [inq EXCEPT ![z] = Lapped(q, k, p)]
                                 /\ overwritten' = overwritten \cup {Queued(z, k)}
    BY <1>2, <1>3, <1>4, <1>7 DEF Overwrite, Queued
  <2>2. PushReturnsTrue(c) /\ overwritten \subseteq overwritten'
    BY <1>7, <2>1 DEF Overwrite
  <2>3. PICK r : r = Lapped(q, k, p)
    OBVIOUS
  <2>4. r[k] = p /\ Len(r) = Len(q) /\ \A j \in 1 .. Len(q) \ {k} : r[j] = q[j]
    BY <2>3 DEF Lapped
  <2> DEFINE f == [j \in Nat |-> j]
  <2>5. \A j \in 1 .. Len(r) : f[j] = j
    BY <1>5, <2>4
  <2> HIDE DEF f
  <2>6. \A j \in 1 .. Len(r) : j # k => f[j] \in 1 .. Len(inq[z]) /\ r[j] = inq[z][f[j]]
    BY <1>4, <2>4, <2>5
  <2>7. \A i, j \in 1 .. Len(r) : i # k /\ j # k /\ f[i] = f[j] => i = j
    BY <2>5
  <2>8. k \in 1 .. Len(r) /\ r[k] = cptr[c] /\ inq' = [inq EXCEPT ![z] = r]
    BY <1>3, <2>1, <2>3, <2>4
  <2>9. \A j \in 1 .. Len(inq[z]) :
          Queued(z, j) \in overwritten' \/ \E i \in 1 .. Len(r) : r[i] = inq[z][j]
    BY <1>4, <2>1, <2>4
  <2>10. Placed(c, z, r, k, f)
    BY <2>6, <2>7, <2>8, <2>9 DEF Placed
  <2> QED
    BY <1>1, <2>2, <2>10, PlacedOwners
<1>8. CASE Refuse(c)
  BY <1>1, <1>8, QuietOwners DEF Refuse
<1> QED
  BY <1>6, <1>7, <1>8 DEF Push

LEMMA CallOwners ==
  ASSUME TypeInv, CallType, OneMark, Owners, NEW c \in Callers, CallStep(c)
  PROVE  Owners'
<1>1. CASE StoreState(c) \/ Unmark(c) \/ DeleteState(c)
  <2>1. /\ UNCHANGED <<pool, obj, inq, batch, cptr, accepted, matched, resting,
                       dropped, overwritten>>
        /\ UNCHANGED <<cid, wpc>>
    BY <1>1 DEF StoreState, Unmark, DeleteState, workVars, histories
  <2> QED
    BY <2>1, QuietOwners
<1> QED
  BY <1>1, GetOwners, RejectOwners, PushOwners DEF CallStep

\* A new call holds nothing.
LEMMA BeginOwners ==
  ASSUME TypeInv, Owners, NEW c \in Callers, NEW id \in Ids, NEW s, Begin(c, id, s)
  PROVE  Owners'
<1>1. /\ UNCHANGED <<pool, obj, inq, batch, cptr, accepted, matched, resting,
                     dropped, overwritten, wpc>>
      /\ cid' = [cid EXCEPT ![c] = id] /\ cptr[c] = NONE
  BY DEF Begin, workVars, histories, TypeInv, Agrees
<1> QED
  BY <1>1, QuietOwners DEF TypeInv, TypeOK

\* BatchPop moves the front of a queue to the worker.
LEMMA PollOwners ==
  ASSUME TypeInv, Owners, NEW w \in Workers, NEW s \in Symbols,
         NEW n \in 1 .. BatchSize, Poll(w, s, n)
  PROVE  Owners'
<1>1. /\ inq[s] \in Seq(Ptrs) /\ n \in 1 .. Len(inq[s]) /\ Len(inq[s]) \in Nat
      /\ batch' = [batch EXCEPT ![w] = SubSeq(inq[s], 1, n)]
      /\ inq' = [inq EXCEPT ![s] = SubSeq(inq[s], n + 1, Len(inq[s]))]
      /\ wpc' = [wpc EXCEPT ![w] = "match"] /\ batch[w] = <<>>
      /\ UNCHANGED <<obj, pool, cptr, cid, accepted, matched, resting, dropped,
                     overwritten>>
  BY DEF Poll, QueueAfter, Goto, TypeInv, TypeOK, Agrees, callVars, histories
<1>2. /\ \A v \in Workers \ {w} : batch'[v] = batch[v] /\ wpc'[v] = wpc[v]
      /\ \A t \in Symbols \ {s} : inq'[t] = inq[t]
      /\ wpc'[w] = "match"
  BY <1>1 DEF TypeInv, TypeOK
<1>3. /\ Len(batch'[w]) = n /\ \A i \in 1 .. n : batch'[w][i] = inq[s][i]
      /\ Len(inq'[s]) = Len(inq[s]) - n
      /\ \A i \in 1 .. Len(inq[s]) - n : inq'[s][i] = inq[s][i + n]
  <2> DEFINE q == inq[s]
  <2>1. q \in Seq(Ptrs) /\ n \in 1 .. Len(q)
    BY <1>1
  <2>2. batch'[w] = SubSeq(q, 1, n) /\ inq'[s] = SubSeq(q, n + 1, Len(q))
    BY <1>1 DEF TypeInv, TypeOK
  <2> HIDE DEF q
  <2>3. /\ Len(batch'[w]) = n /\ \A i \in 1 .. n : batch'[w][i] = q[i]
        /\ Len(inq'[s]) = Len(q) - n
        /\ \A i \in 1 .. Len(q) - n : inq'[s][i] = q[i + n]
    <3>1. /\ Len(SubSeq(q, 1, n)) = n /\ \A i \in 1 .. n : SubSeq(q, 1, n)[i] = q[i]
          /\ Len(SubSeq(q, n + 1, Len(q))) = Len(q) - n
          /\ \A i \in 1 .. Len(q) - n : SubSeq(q, n + 1, Len(q))[i] = q[i + n]
      BY <2>1, CutSequence
    <3> QED
      BY <2>2, <3>1
  <2> QED
    BY <2>3 DEF q
\* Every place after the step was one before it.
<1>4. \A v \in Workers : \A i \in 1 .. Len(batch'[v]) :
        IF v = w THEN /\ i \in 1 .. Len(inq[s]) /\ i <= n
                      /\ Popped(v, i)' = Queued(s, i) /\ ~Behind(v, i)'
        ELSE /\ i \in 1 .. Len(batch[v])
             /\ Popped(v, i)' = Popped(v, i) /\ Behind(v, i)' = Behind(v, i)
  BY <1>1, <1>2, <1>3 DEF Popped, Queued, Behind
<1>5. \A t \in Symbols : \A i \in 1 .. Len(inq'[t]) :
        IF t = s THEN i + n \in 1 .. Len(inq[s]) /\ Queued(t, i)' = Queued(s, i + n)
        ELSE i \in 1 .. Len(inq[t]) /\ Queued(t, i)' = Queued(t, i)
  BY <1>1, <1>2, <1>3 DEF Queued
<1>6. Elems(accepted)' = Elems(accepted) /\ Elems(matched)' = Elems(matched)
  BY <1>1 DEF Elems
<1>7. PoolClean' /\ CallsHold'
  BY <1>1 DEF Owners, PoolClean, CallsHold
<1>8. QueuesHold'
  BY <1>5, <1>6 DEF Owners, Waiting, QueuesHold
<1>9. BatchesHold'
  BY <1>4, <1>6 DEF Owners, Waiting, QueuesHold, BatchesHold
<1>10. QueuesApart'
  <2> SUFFICES ASSUME NEW t \in Symbols, NEW u \in Symbols,
                      NEW i \in 1 .. Len(inq'[t]), NEW j \in 1 .. Len(inq'[u]),
                      Queued(t, i)' = Queued(u, j)'
               PROVE  t = u /\ i = j
    BY DEF QueuesApart
  <2>1. \A a \in 1 .. Len(inq[t]), b \in 1 .. Len(inq[u]) :
          Queued(t, a) = Queued(u, b) => t = u /\ a = b
    BY DEF Owners, Waiting, QueuesApart
  <2>2. /\ t = s => i + n \in 1 .. Len(inq[t]) /\ Queued(t, i)' = Queued(t, i + n)
        /\ t # s => i \in 1 .. Len(inq[t]) /\ Queued(t, i)' = Queued(t, i)
        /\ u = s => j + n \in 1 .. Len(inq[u]) /\ Queued(u, j)' = Queued(u, j + n)
        /\ u # s => j \in 1 .. Len(inq[u]) /\ Queued(u, j)' = Queued(u, j)
    BY <1>5
  <2>3. t = u /\ i \in Int /\ j \in Int
    BY <2>1, <2>2
  <2> QED
    BY <2>1, <2>2, <2>3
<1>11. BatchesApart'
  <2> SUFFICES ASSUME NEW v \in Workers, NEW x \in Workers,
                      NEW i \in 1 .. Len(batch'[v]), NEW j \in 1 .. Len(batch'[x]),
                      Popped(v, i)' = Popped(x, j)'
               PROVE  v = x /\ i = j
    BY DEF BatchesApart
  <2>1. CASE v = w /\ x = w
    BY <1>4, <2>1 DEF Owners, Waiting, QueuesApart
  <2>2. CASE v # w /\ x # w
    BY <1>4, <2>2 DEF Owners, Waiting, BatchesApart
  <2>3. CASE v = w /\ x # w
    BY <1>4, <2>3 DEF Owners, Waiting, PlacesApart
  <2>4. CASE v # w /\ x = w
    BY <1>4, <2>4 DEF Owners, Waiting, PlacesApart
  <2> QED
    BY <2>1, <2>2, <2>3, <2>4
<1>12. PlacesApart'
  <2> SUFFICES ASSUME NEW t \in Symbols, NEW v \in Workers,
                      NEW i \in 1 .. Len(inq'[t]), NEW j \in 1 .. Len(batch'[v])
               PROVE  Queued(t, i)' # Popped(v, j)'
    BY DEF PlacesApart
  <2>1. PICK a \in 1 .. Len(inq[t]) :
          Queued(t, i)' = Queued(t, a) /\ (t = s => a = i + n)
    BY <1>5
  <2>2. CASE v # w
    BY <1>4, <2>1, <2>2 DEF Owners, Waiting, PlacesApart
  <2>3. CASE v = w
    <3>1. j \in 1 .. Len(inq[s]) /\ j <= n /\ Popped(v, j)' = Queued(s, j)
      BY <1>4, <2>3
    <3>2. ~(t = s /\ a = j)
      BY <2>1, <3>1
    <3> QED
      BY <2>1, <3>1, <3>2 DEF Owners, Waiting, QueuesApart
  <2> QED
    BY <2>2, <2>3
<1>13. MatchesApart' /\ RestingMatched'
  BY <1>1, <1>6 DEF Owners, Waiting, MatchesApart, RestingMatched
<1>14. Kept'
  <2> SUFFICES ASSUME NEW id \in Elems(accepted),
                      id \notin Elems(matched) \cup dropped \cup overwritten
               PROVE  \/ \E t \in Symbols : \E i \in 1 .. Len(inq'[t]) : Queued(t, i)' = id
                      \/ \E v \in Workers : \E i \in 1 .. Len(batch'[v]) : Popped(v, i)' = id
    BY <1>1, <1>6 DEF Kept
  <2>1. CASE \E t \in Symbols : \E i \in 1 .. Len(inq[t]) : Queued(t, i) = id
    <3>0. PICK t \in Symbols : \E i \in 1 .. Len(inq[t]) : Queued(t, i) = id
      BY <2>1
    <3>1. PICK i \in 1 .. Len(inq[t]) : Queued(t, i) = id
      BY <3>0
    <3>2. CASE t # s
      BY <1>1, <1>2, <3>1, <3>2 DEF Queued
    <3>3. CASE t = s /\ i <= n
      <4>1. i \in 1 .. Len(batch'[w]) /\ batch'[w][i] = inq[s][i]
        BY <1>3, <3>3
      <4> QED
        BY <1>1, <3>1, <3>3, <4>1 DEF Queued, Popped
    <3>4. CASE t = s /\ i > n
      <4>1. i - n \in 1 .. Len(inq[s]) - n /\ (i - n) + n = i
        BY <1>1, <3>4
      <4>2. i - n \in 1 .. Len(inq'[s]) /\ inq'[s][i - n] = inq[s][i]
        BY <1>3, <4>1
      <4> QED
        BY <1>1, <3>1, <3>4, <4>2 DEF Queued
    <3> QED
      BY <1>1, <3>2, <3>3, <3>4
  <2>2. CASE \E v \in Workers : \E i \in 1 .. Len(batch[v]) : Popped(v, i) = id
    <3>0. PICK v \in Workers : \E i \in 1 .. Len(batch[v]) : Popped(v, i) = id
      BY <2>2
    <3>1. PICK i \in 1 .. Len(batch[v]) : Popped(v, i) = id
      BY <3>0
    <3>2. v # w
      BY <1>1, <3>1
    <3> QED
      BY <1>1, <1>2, <3>1, <3>2 DEF Popped
  <2> QED
    BY <2>1, <2>2 DEF Owners, Waiting, Kept
<1> QED
  BY <1>7, <1>8, <1>9, <1>10, <1>11, <1>12, <1>13, <1>14 DEF Owners, Waiting

\* Match records the first order of the batch and leaves it where it is.
LEMMA MatchOwners ==
  ASSUME TypeInv, Owners, NEW w \in Workers, NEW trades \in BOOLEAN, NEW rests \in BOOLEAN,
         Match(w, trades, rests)
  PROVE  Owners'
<1> DEFINE d == Popped(w, 1)
<1>1. /\ matched' = Append(matched, d) /\ wpc[w] = "match"
      /\ wpc' = [wpc EXCEPT ![w] = "send"]
      /\ UNCHANGED <<obj, pool, inq, batch, cptr, cid, accepted, dropped, overwritten>>
      /\ \A id \in Ids : resting'[id] # NONE => resting[id] # NONE \/ id = d
  BY DEF Match, Goto, Current, Popped, callVars, TypeInv, TypeOK
<1>2. /\ 1 \in 1 .. Len(batch[w]) /\ d \in Ids \cup {0}
      /\ d \in Elems(accepted) \ Elems(matched)
  <2>1. batch[w] \in Seq(Ptrs) /\ batch[w] # <<>>
    BY <1>1 DEF TypeInv, TypeOK, Agrees
  <2>2. Len(batch[w]) \in Nat \ {0}
    BY <2>1, TailSequence
  <2>3. d \in Elems(accepted) \ Elems(matched)
    BY <1>1, <2>2 DEF Owners, Waiting, BatchesHold, Behind
  <2> QED
    BY <2>2, <2>3, WaitingObjects
<1> HIDE DEF d
<1>3. /\ Elems(matched)' = Elems(matched) \cup {d} /\ Elems(accepted)' = Elems(accepted)
      /\ Len(matched) \in Nat /\ Len(matched') = Len(matched) + 1
      /\ matched'[Len(matched) + 1] = d
      /\ \A n \in 1 .. Len(matched) : matched'[n] = matched[n]
  <2>1. matched \in Seq(Ids \cup {0})
    BY DEF TypeInv, TypeOK
  <2>2. /\ Elems(Append(matched, d)) = Elems(matched) \cup {d}
        /\ Len(Append(matched, d)) = Len(matched) + 1
        /\ Append(matched, d)[Len(matched) + 1] = d
        /\ \A n \in 1 .. Len(matched) : Append(matched, d)[n] = matched[n]
    BY <1>2, <2>1, AppendElems
  <2> QED
    BY <1>1, <2>1, <2>2 DEF Elems
<1>4. \A v \in Workers : wpc'[v] = IF v = w THEN "send" ELSE wpc[v]
  BY <1>1 DEF TypeInv, TypeOK
<1>5. PoolClean' /\ CallsHold'
  BY <1>1 DEF Owners, PoolClean, CallsHold
<1>6. QueuesHold'
  <2> SUFFICES ASSUME NEW s \in Symbols, NEW i \in 1 .. Len(inq[s])
               PROVE  Queued(s, i) \in Elems(accepted) \ (Elems(matched) \cup {d})
    BY <1>1, <1>3 DEF QueuesHold, Queued
  <2>1. Queued(s, i) # d
    BY <1>2 DEF Owners, Waiting, PlacesApart, d
  <2> QED
    BY <2>1 DEF Owners, Waiting, QueuesHold
<1>7. BatchesHold'
  <2> SUFFICES ASSUME NEW v \in Workers, NEW i \in 1 .. Len(batch[v])
               PROVE  /\ Popped(v, i) \in Elems(accepted)
                      /\ Popped(v, i) \in Elems(matched) \cup {d} <=> Behind(v, i)'
    BY <1>1, <1>3 DEF BatchesHold, Popped
  <2>1. /\ Popped(v, i) \in Elems(accepted)
        /\ Popped(v, i) \in Elems(matched) <=> Behind(v, i)
    BY DEF Owners, Waiting, BatchesHold
  <2>2. Popped(v, i) = d <=> v = w /\ i = 1
    BY <1>2 DEF Owners, Waiting, BatchesApart, d
  <2> QED
    BY <1>1, <1>4, <2>1, <2>2 DEF Behind
<1>8. QueuesApart' /\ BatchesApart' /\ PlacesApart'
  BY <1>1 DEF Owners, Waiting, QueuesApart, BatchesApart, PlacesApart, Queued, Popped
<1>9. MatchesApart'
  <2>1. \A n \in 1 .. Len(matched) : matched[n] # d
    BY <1>2 DEF Elems
  <2>2. \A m, n \in 1 .. Len(matched') : matched'[m] = matched'[n] => m = n
    BY <1>3, <2>1 DEF Owners, Waiting, MatchesApart
  <2> QED
    BY <1>2, <1>3, <2>2 DEF Owners, Waiting, MatchesApart
<1>10. RestingMatched'
  BY <1>1, <1>3 DEF Owners, Waiting, RestingMatched
<1>11. Kept'
  BY <1>1, <1>3 DEF Owners, Waiting, Kept, Queued, Popped
<1> QED
  BY <1>5, <1>6, <1>7, <1>8, <1>9, <1>10, <1>11 DEF Owners, Waiting

\* The worker returns the object of the order it has matched.
LEMMA ReleaseOwners ==
  ASSUME TypeInv, CallType, OneMark, Owners, NEW w \in Workers, Release(w)
  PROVE  Owners'
<1> DEFINE p == batch[w][1]
<1>1. /\ wpc[w] = "release" /\ PutOrderToPool(p)
      /\ batch' = [batch EXCEPT ![w] = Tail(@)]
      /\ UNCHANGED <<inq, cptr, cid, accepted, matched, resting, dropped, overwritten>>
      /\ wpc' = [wpc EXCEPT ![w] = IF Len(batch[w]) = 1 THEN "poll" ELSE "match"]
  BY DEF Release, Current, Goto, callVars, histories
<1>2. /\ batch[w] \in Seq(Ptrs) /\ batch[w] # <<>>
  BY <1>1 DEF TypeInv, TypeOK, Agrees
<1>3. /\ Len(batch[w]) \in Nat \ {0} /\ p \in Ptrs
      /\ Len(batch'[w]) = Len(batch[w]) - 1
      /\ \A i \in 1 .. Len(batch[w]) - 1 : batch'[w][i] = batch[w][i + 1]
  <2>1. batch'[w] = Tail(batch[w])
    BY <1>1 DEF TypeInv, TypeOK
  <2> QED
    BY <1>2, <2>1, TailSequence
<1>4. /\ \A v \in Workers \ {w} : batch'[v] = batch[v] /\ wpc'[v] = wpc[v]
      /\ wpc'[w] \in {"poll", "match"}
  BY <1>1 DEF TypeInv, TypeOK
<1>5. /\ obj[p] = Popped(w, 1) /\ 1 \in 1 .. Len(batch[w])
      /\ obj[p] \in Elems(accepted) /\ obj[p] \in Elems(matched)
  BY <1>1, <1>3 DEF Owners, Waiting, BatchesHold, Behind, Popped
<1>6. obj[p] # 0 /\ \A c \in Callers : cptr[c] # NONE => cptr[c] \in Ptrs
  BY <1>5, WaitingObjects
<1> HIDE DEF p
<1>7. /\ obj'[p] = 0 /\ pool'[p] = pool[p] + 1
      /\ \A q \in Ptrs \ {p} : obj'[q] = obj[q] /\ pool'[q] = pool[q]
  BY <1>1, <1>3 DEF PutOrderToPool, TypeInv, TypeOK
<1>8. /\ \A s \in Symbols : \A i \in 1 .. Len(inq[s]) : inq[s][i] \in Ptrs \ {p}
      /\ \A v \in Workers : \A i \in 1 .. Len(batch[v]) :
           batch[v][i] \in Ptrs /\ (batch[v][i] = p => v = w /\ i = 1)
  BY <1>5, WaitingObjects
     DEF Owners, Waiting, QueuesHold, BatchesApart, Queued, Popped
<1>9. \A s \in Symbols : \A i \in 1 .. Len(inq[s]) : Queued(s, i)' = Queued(s, i)
  BY <1>1, <1>7, <1>8 DEF Queued
<1>10. \A v \in Workers : \A i \in 1 .. Len(batch'[v]) :
         IF v = w THEN /\ i + 1 \in 2 .. Len(batch[w])
                       /\ Popped(v, i)' = Popped(w, i + 1) /\ ~Behind(v, i)'
         ELSE /\ i \in 1 .. Len(batch[v])
              /\ Popped(v, i)' = Popped(v, i) /\ Behind(v, i)' = Behind(v, i)
  <2> SUFFICES ASSUME NEW v \in Workers, NEW i \in 1 .. Len(batch'[v])
               PROVE  IF v = w THEN /\ i + 1 \in 2 .. Len(batch[w])
                                    /\ Popped(v, i)' = Popped(w, i + 1) /\ ~Behind(v, i)'
                      ELSE /\ i \in 1 .. Len(batch[v]) /\ Popped(v, i)' = Popped(v, i)
                           /\ Behind(v, i)' = Behind(v, i)
    OBVIOUS
  <2>1. CASE v = w
    <3>1. /\ i \in 1 .. Len(batch[w]) - 1 /\ i + 1 \in 2 .. Len(batch[w])
          /\ batch'[w][i] = batch[w][i + 1]
      BY <1>3, <2>1
    <3>2. i + 1 \in 1 .. Len(batch[w]) /\ i + 1 # 1
      BY <3>1
    <3>3. batch[w][i + 1] \in Ptrs \ {p}
      BY <1>8, <3>2
    <3> QED
      BY <1>4, <1>7, <2>1, <3>1, <3>3 DEF Popped, Behind
  <2>2. CASE v # w
    BY <1>4, <1>7, <1>8, <2>2 DEF Popped, Behind
  <2> QED
    BY <2>1, <2>2
<1>11. Elems(accepted)' = Elems(accepted) /\ Elems(matched)' = Elems(matched)
  BY <1>1 DEF Elems
<1>12. PoolClean'
  BY <1>6, <1>7 DEF Owners, PoolClean
<1>13. CallsHold'
  <2>1. \A c \in Callers : cptr[c] # NONE => cptr[c] \in Ptrs \ {p}
    BY <1>5, HeldIds
  <2> QED
    BY <1>1, <1>7, <2>1 DEF Owners, CallsHold
<1>14. QueuesHold' /\ QueuesApart'
  BY <1>1, <1>9, <1>11 DEF Owners, Waiting, QueuesHold, QueuesApart
<1>15. BatchesHold'
  <2> SUFFICES ASSUME NEW v \in Workers, NEW i \in 1 .. Len(batch'[v])
               PROVE  /\ Popped(v, i)' \in Elems(accepted)
                      /\ Popped(v, i)' \in Elems(matched) <=> Behind(v, i)'
    BY <1>11 DEF BatchesHold
  <2>1. CASE v = w
    <3>1. i + 1 \in 1 .. Len(batch[w]) /\ i + 1 # 1
      BY <1>3, <1>10, <2>1
    <3>2. ~Behind(w, i + 1)
      BY <3>1 DEF Behind
    <3> QED
      BY <1>10, <2>1, <3>1, <3>2 DEF Owners, Waiting, BatchesHold
  <2>2. CASE v # w
    BY <1>10, <2>2 DEF Owners, Waiting, BatchesHold
  <2> QED
    BY <2>1, <2>2
<1>16. BatchesApart'
  <2> SUFFICES ASSUME NEW v \in Workers, NEW x \in Workers,
                      NEW i \in 1 .. Len(batch'[v]), NEW j \in 1 .. Len(batch'[x]),
                      Popped(v, i)' = Popped(x, j)'
               PROVE  v = x /\ i = j
    BY DEF BatchesApart
  <2>1. PICK a \in 1 .. Len(batch[v]) :
          Popped(v, i)' = Popped(v, a) /\ a = (IF v = w THEN i + 1 ELSE i)
    BY <1>3, <1>10
  <2>2. PICK b \in 1 .. Len(batch[x]) :
          Popped(x, j)' = Popped(x, b) /\ b = (IF x = w THEN j + 1 ELSE j)
    BY <1>3, <1>10
  <2>3. v = x /\ a = b
    <3>1. Popped(v, a) = Popped(x, b)
      BY <2>1, <2>2
    <3> QED
      BY <3>1 DEF Owners, Waiting, BatchesApart
  <2>4. Len(batch'[v]) \in Nat
    <3>1. \A y \in Workers : Len(batch[y]) \in Nat
      BY DEF TypeInv, TypeOK
    <3> QED
      BY <1>3, <1>4, <3>1
  <2>5. i \in Int /\ j \in Int
    BY <2>3, <2>4
  <2> QED
    BY <2>1, <2>2, <2>3, <2>5
<1>17. PlacesApart'
  <2> SUFFICES ASSUME NEW s \in Symbols, NEW v \in Workers,
                      NEW i \in 1 .. Len(inq[s]), NEW j \in 1 .. Len(batch'[v])
               PROVE  Queued(s, i) # Popped(v, j)'
    BY <1>1, <1>9 DEF PlacesApart
  <2>1. PICK b \in 1 .. Len(batch[v]) : Popped(v, j)' = Popped(v, b)
    <3>1. CASE v = w
      <4>1. j + 1 \in 1 .. Len(batch[v]) /\ Popped(v, j)' = Popped(v, j + 1)
        BY <1>3, <1>10, <3>1
      <4> QED
        BY <4>1
    <3>2. CASE v # w
      BY <1>10, <3>2
    <3> QED
      BY <3>1, <3>2
  <2> QED
    BY <2>1 DEF Owners, Waiting, PlacesApart
<1>18. MatchesApart' /\ RestingMatched'
  BY <1>1, <1>11 DEF Owners, Waiting, MatchesApart, RestingMatched
<1>19. Kept'
  <2> SUFFICES ASSUME NEW id \in Elems(accepted),
                      id \notin Elems(matched) \cup dropped \cup overwritten
               PROVE  \/ \E s \in Symbols : \E i \in 1 .. Len(inq[s]) : Queued(s, i)' = id
                      \/ \E v \in Workers : \E i \in 1 .. Len(batch'[v]) : Popped(v, i)' = id
    BY <1>1, <1>11 DEF Kept
  <2>1. CASE \E s \in Symbols : \E i \in 1 .. Len(inq[s]) : Queued(s, i) = id
    BY <1>9, <2>1
  <2>2. CASE \E v \in Workers : \E i \in 1 .. Len(batch[v]) : Popped(v, i) = id
    <3>1. PICK v \in Workers : \E i \in 1 .. Len(batch[v]) : Popped(v, i) = id
      BY <2>2
    <3>2. PICK i \in 1 .. Len(batch[v]) : Popped(v, i) = id
      BY <3>1
    <3>3. CASE v # w
      BY <1>4, <1>10, <3>2, <3>3
    <3>4. CASE v = w
      <4>1. i # 1
        BY <1>5, <3>2, <3>4
      <4>2. i - 1 \in 1 .. Len(batch'[v]) /\ (i - 1) + 1 = i
        BY <1>3, <3>4, <4>1
      <4>3. Popped(v, i - 1)' = id
        BY <1>10, <3>2, <3>4, <4>2
      <4> QED
        BY <4>2, <4>3
    <3> QED
      BY <3>3, <3>4
  <2> QED
    BY <2>1, <2>2 DEF Owners, Waiting, Kept
<1> QED
  BY <1>12, <1>13, <1>14, <1>15, <1>16, <1>17, <1>18, <1>19 DEF Owners, Waiting

\* A worker that ends drops what it has not matched.
LEMMA ExitOwners ==
  ASSUME TypeInv, Owners, NEW w \in Workers, WorkerExit(w)
  PROVE  Owners'
<1>1. /\ dropped' = dropped \cup {obj[p] : p \in Elems(batch[w])}
      /\ batch' = [batch EXCEPT ![w] = <<>>] /\ wpc' = [wpc EXCEPT ![w] = "exited"]
      /\ UNCHANGED <<obj, pool, inq, cptr, cid, accepted, matched, resting,
                     overwritten>>
  BY DEF WorkerExit, Goto, callVars
<1>2. /\ batch'[w] = <<>> /\ Len(batch'[w]) = 0
      /\ \A v \in Workers \ {w} : batch'[v] = batch[v] /\ wpc'[v] = wpc[v]
  BY <1>1 DEF TypeInv, TypeOK
<1>3. \A v \in Workers : \A i \in 1 .. Len(batch'[v]) :
        /\ v # w /\ i \in 1 .. Len(batch[v])
        /\ Popped(v, i)' = Popped(v, i) /\ Behind(v, i)' = Behind(v, i)
  BY <1>1, <1>2 DEF Popped, Behind
<1>4. \A s \in Symbols : \A i \in 1 .. Len(inq[s]) : Queued(s, i)' = Queued(s, i)
  BY <1>1 DEF Queued
<1>5. Elems(accepted)' = Elems(accepted) /\ Elems(matched)' = Elems(matched)
  BY <1>1 DEF Elems
<1>6. PoolClean' /\ CallsHold'
  BY <1>1 DEF Owners, PoolClean, CallsHold
<1>7. QueuesHold' /\ QueuesApart'
  BY <1>1, <1>4, <1>5 DEF Owners, Waiting, QueuesHold, QueuesApart
<1>8. BatchesHold' /\ BatchesApart'
  BY <1>3, <1>5 DEF Owners, Waiting, BatchesHold, BatchesApart
<1>9. PlacesApart'
  BY <1>1, <1>3, <1>4 DEF Owners, Waiting, PlacesApart
<1>10. MatchesApart' /\ RestingMatched'
  BY <1>1, <1>5 DEF Owners, Waiting, MatchesApart, RestingMatched
<1>11. \A i \in 1 .. Len(batch[w]) : Popped(w, i) \in dropped'
  BY <1>1 DEF Elems, Popped
<1>12. \A v \in Workers \ {w} : \A i \in 1 .. Len(batch[v]) :
         i \in 1 .. Len(batch'[v]) /\ Popped(v, i)' = Popped(v, i)
  BY <1>1, <1>2 DEF Popped
<1>13. Kept'
  <2> SUFFICES ASSUME NEW id \in Elems(accepted),
                      id \notin Elems(matched) \cup dropped' \cup overwritten
               PROVE  \/ \E s \in Symbols : \E i \in 1 .. Len(inq[s]) : Queued(s, i) = id
                      \/ \E v \in Workers : \E i \in 1 .. Len(batch'[v]) : Popped(v, i)' = id
    BY <1>1, <1>4, <1>5 DEF Kept
  <2>1. id \notin dropped
    BY <1>1
  <2> QED
    BY <1>11, <1>12, <2>1 DEF Owners, Waiting, Kept
<1> QED
  BY <1>6, <1>7, <1>8, <1>9, <1>10, <1>13 DEF Owners, Waiting

LEMMA WorkerOwners ==
  ASSUME TypeInv, CallType, OneMark, Owners, NEW w \in Workers, WorkerStep(w)
  PROVE  Owners'
<1>1. CASE Send(w)
  <2>1. /\ UNCHANGED <<pool, obj, inq, batch, cptr, accepted, matched, resting,
                       dropped, overwritten, cid>>
        /\ wpc[w] = "send" /\ wpc' = [wpc EXCEPT ![w] = "release"]
    BY <1>1 DEF Send, Goto, callVars, histories
  <2>2. \A v \in Workers :
          wpc'[v] \in {"send", "release"} <=> wpc[v] \in {"send", "release"}
    BY <2>1 DEF TypeInv, TypeOK
  <2> QED
    BY <2>1, <2>2, QuietOwners
<1> QED
  BY <1>1, PollOwners, MatchOwners, ReleaseOwners, ExitOwners DEF WorkerStep

\* A cancellation that does not race returns an object that is nowhere else.
LEMMA CancelOwners ==
  ASSUME TypeInv, CallType, OneMark, Owners, NEW id \in Ids, CancelOrder(id), ~raced'
  PROVE  Owners'
<1> DEFINE p == resting[id]
<1>1. /\ resting[id] # NONE /\ obj[p] = id /\ PutOrderToPool(p)
      /\ resting' = [resting EXCEPT ![id] = NONE]
      /\ UNCHANGED <<inq, batch, wpc, cptr, cid, accepted, matched, dropped,
                     overwritten>>
      /\ \A w \in Workers : p \notin Elems(batch[w])
  BY DEF CancelOrder, callVars, workVars
<1>2. id \in Elems(matched) /\ id \in Elems(accepted)
  BY <1>1 DEF Owners, Waiting, RestingMatched, MatchesApart
<1>3. p \in Ptrs /\ id # 0
  BY <1>1, EngineAssumption DEF TypeInv, TypeOK
<1> HIDE DEF p
<1>4. \A s \in Symbols : \A i \in 1 .. Len(inq[s]) : inq[s][i] # p
  BY <1>1, <1>2 DEF Owners, Waiting, QueuesHold, Queued
<1>5. \A w \in Workers : \A i \in 1 .. Len(batch[w]) : batch[w][i] # p
  BY <1>1 DEF Elems
<1>6. \A c \in Callers : cptr'[c] # NONE => cptr'[c] = cptr[c] /\ cptr[c] # p
  BY <1>1, <1>2, HeldIds
<1>7. \A i \in Ids : resting'[i] # NONE => resting[i] # NONE
  BY <1>1 DEF TypeInv, TypeOK
<1> QED
  BY <1>1, <1>3, <1>4, <1>5, <1>6, <1>7, PutBackOwners

LEMMA ControlOwners ==
  ASSUME TypeInv, CallType, OneMark, Owners, Control, ~raced'
  PROVE  Owners'
<1>1. CASE Start
  <2>1. /\ UNCHANGED <<pool, obj, inq, batch, cptr, accepted, matched, resting,
                       dropped, overwritten, cid>>
        /\ \A w \in Workers : batch[w] = <<>>
    BY <1>1 DEF Start, callVars, histories, TypeInv, Agrees
  <2> QED
    BY <2>1, QuietOwners
<1>2. CASE StopBegin \/ StopEnd \/ MarkCancelled
  <2>1. /\ UNCHANGED <<pool, obj, inq, batch, cptr, accepted, matched, resting,
                       dropped, overwritten>>
        /\ UNCHANGED <<cid, wpc>>
    BY <1>2 DEF StopBegin, StopEnd, MarkCancelled, callVars, workVars, histories
  <2> QED
    BY <2>1, QuietOwners
<1> QED
  BY <1>1, <1>2, CancelOwners DEF Control

LEMMA OwnerNext ==
  OwnerInv /\ TypeInv /\ CallType /\ OneMark /\ [Next]_vars => OwnerInv'
<1> SUFFICES ASSUME OwnerInv, TypeInv, CallType, OneMark, [Next]_vars, ~raced'
             PROVE  Owners'
  BY DEF OwnerInv
<1>1. ~raced
  BY DEF TypeInv, TypeOK, Next, vars, histories, CallStep, Begin, StoreState, GetOrder,
         Push, PutBack, Unmark, DeleteState, WorkerStep, Poll, Match, Send, Release,
         WorkerExit, ResultStep, TakeResults, HandleResult, ResultsExit, Start,
         StopBegin, StopEnd, CancelOrder, MarkCancelled
<1>2. Owners
  BY <1>1 DEF OwnerInv
<1>3. CASE ResultStep \/ UNCHANGED vars
  <2>1. /\ UNCHANGED <<pool, obj, inq, batch, cptr, accepted, matched, resting,
                       dropped, overwritten>>
        /\ UNCHANGED <<cid, wpc>>
    BY <1>3 DEF ResultStep, TakeResults, HandleResult, ResultsExit, vars, callVars,
                workVars, histories
  <2> QED
    BY <1>2, <2>1, QuietOwners
<1> QED
  BY <1>2, <1>3, CallOwners, BeginOwners, WorkerOwners, ControlOwners DEF Next, Control

LEMMA OwnerInit == Init => OwnerInv
<1> SUFFICES ASSUME Init PROVE Owners
  BY DEF OwnerInv
<1>1. /\ \A s \in Symbols : Len(inq[s]) = 0
      /\ \A w \in Workers : Len(batch[w]) = 0
      /\ Len(matched) = 0 /\ Elems(matched) = {} /\ Elems(accepted) = {}
  BY DEF Init, Elems
<1>2. PoolClean /\ CallsHold
  BY DEF Init, PoolClean, CallsHold
<1>3. Waiting
  BY <1>1 DEF Init, Waiting, QueuesHold, BatchesHold, QueuesApart, BatchesApart,
              PlacesApart, MatchesApart, RestingMatched, Kept
<1> QED
  BY <1>2, <1>3 DEF Owners

LEMMA OwnerInvariant == Spec => [](TypeInv /\ CallType /\ OneMark /\ OwnerInv)
  BY OwnerInit, OwnerNext, TypeInvariant, MarksInvariant, PTL DEF Spec

-----------------------------------------------------------------------------
(* Theorems                                                                *)

\* Every variable of the engine keeps its type and no queue exceeds its
\* capacity, races with CancelOrder included.
THEOREM EngineTypeCorrect == Spec => []TypeOK
<1>1. TypeInv => TypeOK
  BY DEF TypeInv
<1> QED
  BY <1>1, TypeInvariant, PTL

LEMMA AtMostOne ==
  ASSUME NEW S, \A x, y \in S : x = y
  PROVE  Cardinality(S) = IF S = {} THEN 0 ELSE 1
<1>1. CASE S = {}
  BY <1>1, FS_EmptySet
<1>2. CASE S # {}
  <2>1. PICK x : S = {x}
    BY <1>2
  <2> QED
    BY <2>1, FS_Singleton
<1> QED
  BY <1>1, <1>2

\* An order object is in the pool, in the hands of one call, at one place of one
\* queue, or in one batch, until a cancellation races with a worker.
THEOREM EngineOneHolder == Spec => []OneHolder
<1>1. ASSUME OwnerInv, TypeInv, CallType, OneMark, ~raced, NEW p \in Ptrs
      PROVE  pool[p] + Cardinality({c \in Callers : cptr[c] = p})
               + Cardinality({x \in Symbols \X (1 .. InCap) :
                                x[2] <= Len(inq[x[1]]) /\ inq[x[1]][x[2]] = p})
               + Cardinality({x \in Workers \X (1 .. BatchSize) :
                                x[2] <= Len(batch[x[1]]) /\ batch[x[1]][x[2]] = p}) <= 1
  <2> DEFINE C == {c \in Callers : cptr[c] = p}
             Q == {x \in Symbols \X (1 .. InCap) :
                     x[2] <= Len(inq[x[1]]) /\ inq[x[1]][x[2]] = p}
             B == {x \in Workers \X (1 .. BatchSize) :
                     x[2] <= Len(batch[x[1]]) /\ batch[x[1]][x[2]] = p}
  <2>1. Owners /\ p # NONE
    BY <1>1, EngineAssumption DEF OwnerInv
  <2>2. \A x \in Q : /\ x[1] \in Symbols /\ x[2] \in 1 .. Len(inq[x[1]])
                     /\ x = <<x[1], x[2]>> /\ Queued(x[1], x[2]) = obj[p]
    BY <1>1 DEF Queued, TypeInv, TypeOK
  <2>3. \A x \in B : /\ x[1] \in Workers /\ x[2] \in 1 .. Len(batch[x[1]])
                     /\ x = <<x[1], x[2]>> /\ Popped(x[1], x[2]) = obj[p]
    BY <1>1 DEF Popped, TypeInv, TypeOK
  <2>4. \A c \in C : c \in Callers /\ cptr[c] = p
    OBVIOUS
  <2> HIDE DEF C, Q, B
  <2>5. \A x \in Q : obj[p] \in Elems(accepted)
    BY <2>1, <2>2 DEF Owners, Waiting, QueuesHold
  <2>6. \A x \in B : obj[p] \in Elems(accepted)
    BY <2>1, <2>3 DEF Owners, Waiting, BatchesHold
  <2>7. \A c \in C : obj[p] \in Ids \ Elems(accepted)
    BY <1>1, <2>1, <2>4, HeldIds
  <2>8. /\ pool[p] \in {0, 1} /\ (pool[p] = 1 => obj[p] = 0)
        /\ 0 \notin Ids /\ Elems(accepted) \subseteq Ids
    BY <1>1, <2>1, WaitingObjects DEF Owners, PoolClean
  <2>9. \A c, d \in C : c = d
    BY <1>1, <2>1, <2>4, HeldIds
  <2>10. \A x, y \in Q : x = y
    <3> SUFFICES ASSUME NEW x \in Q, NEW y \in Q PROVE x = y
      OBVIOUS
    <3>1. x[1] = y[1] /\ x[2] = y[2]
      BY <2>1, <2>2 DEF Owners, Waiting, QueuesApart
    <3> QED
      BY <2>2, <3>1
  <2>11. \A x, y \in B : x = y
    <3> SUFFICES ASSUME NEW x \in B, NEW y \in B PROVE x = y
      OBVIOUS
    <3>1. x[1] = y[1] /\ x[2] = y[2]
      BY <2>1, <2>3 DEF Owners, Waiting, BatchesApart
    <3> QED
      BY <2>3, <3>1
  <2>12. ~(Q # {} /\ B # {})
    <3> SUFFICES ASSUME NEW x \in Q, NEW y \in B PROVE FALSE
      OBVIOUS
    <3>1. Queued(x[1], x[2]) = Popped(y[1], y[2])
      BY <2>2, <2>3
    <3> QED
      BY <2>1, <2>2, <2>3, <3>1 DEF Owners, Waiting, PlacesApart
  <2>13. /\ pool[p] = 1 => C = {} /\ Q = {} /\ B = {}
         /\ C # {} => Q = {} /\ B = {}
    BY <2>5, <2>6, <2>7, <2>8
  <2>14. /\ Cardinality(C) = IF C = {} THEN 0 ELSE 1
         /\ Cardinality(Q) = IF Q = {} THEN 0 ELSE 1
         /\ Cardinality(B) = IF B = {} THEN 0 ELSE 1
    BY <2>9, <2>10, <2>11, AtMostOne
  <2>15. pool[p] + Cardinality(C) + Cardinality(Q) + Cardinality(B) <= 1
    BY <2>8, <2>12, <2>13, <2>14
  <2> QED
    BY <2>15 DEF C, Q, B
<1>2. OwnerInv /\ TypeInv /\ CallType /\ OneMark => OneHolder
  BY <1>1 DEF OneHolder
<1> QED
  BY <1>2, OwnerInvariant, PTL

\* No order is passed to Match twice, and none that ProcessOrder did not accept,
\* however callers, workers, cancellations, stops and restarts interleave, until
\* a cancellation hits an order its worker has not yet let go of.
THEOREM EngineMatchesOnce == Spec => []MatchedOnce
<1>1. OwnerInv => MatchedOnce
  BY DEF OwnerInv, Owners, Waiting, MatchesApart, MatchedOnce
<1> QED
  BY <1>1, OwnerInvariant, PTL

\* A sole caller overwrites nothing.
Unlapped == ~Several(Callers) => overwritten = {}

LEMMA SoleCallerLapsNobody == Spec => []Unlapped
<1>1. Init => Unlapped
  BY DEF Init, Unlapped
<1>2. Unlapped /\ [Next]_vars => Unlapped'
  <2> SUFFICES ASSUME ~Several(Callers), overwritten = {}, [Next]_vars
               PROVE  overwritten' = overwritten
    BY DEF Unlapped
  <2> QED
    BY DEF Next, vars, histories, CallStep, Begin, StoreState, GetOrder,
           Push, Enter, Overwrite, Refuse, PutBack, Unmark, DeleteState, WorkerStep,
           Poll, Match, Send, Release, WorkerExit, ResultStep, TakeResults,
           HandleResult, ResultsExit, Start, StopBegin, StopEnd, CancelOrder,
           MarkCancelled
<1> QED
  BY <1>1, <1>2, PTL DEF Spec

\* An accepted order leaves the engine unmatched in the batch of a worker that a
\* stop ends or, with several callers, overwritten by the order of one that is a
\* lap away; the orders of a single caller overwrite nothing.
THEOREM EngineKeepsAccepted == Spec => []AcceptedKept
<1>1. OwnerInv /\ TypeInv /\ Unlapped => AcceptedKept
  <2> SUFFICES ASSUME OwnerInv, TypeInv, Unlapped, ~raced, NEW id \in Elems(accepted),
                      id \notin Elems(matched) \cup dropped \cup overwritten
               PROVE  \/ \E s \in Symbols : \E p \in Elems(inq[s]) : obj[p] = id
                      \/ \E w \in Workers : \E p \in Elems(batch[w]) : obj[p] = id
    BY DEF AcceptedKept, Unlapped
  <2>1. \/ \E s \in Symbols : \E i \in 1 .. Len(inq[s]) : Queued(s, i) = id
        \/ \E w \in Workers : \E i \in 1 .. Len(batch[w]) : Popped(w, i) = id
    BY DEF OwnerInv, Owners, Waiting, Kept
  <2> QED
    BY <2>1 DEF Queued, Popped, Elems
<1> QED
  BY <1>1, OwnerInvariant, SoleCallerLapsNobody, PTL

-----------------------------------------------------------------------------
(* The order of matching, for one worker w and one symbol s: whoever was   *)
(* accepted before an order is gone, or is before it in the batch, or, for *)
(* an order in the queue, in the batch or before it in the queue.          *)

Gone == dropped \cup Elems(matched)

MatchedLine ==
  \A m, n \in 1 .. Len(accepted), k \in 1 .. Len(matched) :
    m < n /\ accepted[n] = matched[k] =>
      \/ accepted[m] \in dropped
      \/ \E i \in 1 .. Len(matched) : i < k /\ matched[i] = accepted[m]
PoppedLine(w) ==
  \A m, n \in 1 .. Len(accepted), j \in 1 .. Len(batch[w]) :
    m < n /\ accepted[n] = Popped(w, j) =>
      \/ accepted[m] \in Gone
      \/ \E i \in 1 .. Len(batch[w]) : i < j /\ Popped(w, i) = accepted[m]
QueuedLine(w, s) ==
  \A m, n \in 1 .. Len(accepted), j \in 1 .. Len(inq[s]) :
    m < n /\ accepted[n] = Queued(s, j) =>
      \/ accepted[m] \in Gone
      \/ \E i \in 1 .. Len(batch[w]) : Popped(w, i) = accepted[m]
      \/ \E i \in 1 .. Len(inq[s]) : i < j /\ Queued(s, i) = accepted[m]

InLine(w, s) == MatchedLine /\ PoppedLine(w) /\ QueuedLine(w, s)

\* A step that matches no order, and may drop some.
LEMMA MatchedStays ==
  ASSUME MatchedLine, UNCHANGED <<accepted, matched>>, dropped \subseteq dropped'
  PROVE  MatchedLine'
  BY DEF MatchedLine

\* A step that moves no order.
LEMMA LineStays ==
  ASSUME NEW w \in Workers, NEW s \in Symbols, InLine(w, s),
         UNCHANGED <<inq, batch, accepted, matched, dropped>>,
         \A j \in 1 .. Len(batch[w]) : Popped(w, j)' = Popped(w, j),
         \A j \in 1 .. Len(inq[s]) : Queued(s, j)' = Queued(s, j)
  PROVE  InLine(w, s)'
<1>1. Gone' = Gone
  BY DEF Gone, Elems
<1>2. MatchedLine'
  BY DEF InLine, MatchedLine
<1>3. PoppedLine(w)'
  BY <1>1 DEF InLine, PoppedLine
<1>4. QueuedLine(w, s)'
  BY <1>1 DEF InLine, QueuedLine
<1> QED
  BY <1>2, <1>3, <1>4 DEF InLine

\* What waits after the step has an id, and that is the id it had if the step
\* puts one object into the pool.
LEMMA PutBackLine ==
  ASSUME NEW w \in Workers, NEW s \in Symbols, InLine(w, s), TypeInv, TypeInv', Owners',
         NEW p \in Ptrs, PutOrderToPool(p),
         UNCHANGED <<inq, batch, accepted, matched, dropped>>
  PROVE  InLine(w, s)'
<1>1. /\ obj'[p] = 0 /\ \A q \in Ptrs \ {p} : obj'[q] = obj[q]
      /\ Elems(accepted') \subseteq Ids /\ 0 \notin Ids
  <2>1. obj'[p] = 0 /\ \A q \in Ptrs \ {p} : obj'[q] = obj[q]
    BY DEF PutOrderToPool, TypeInv, TypeOK
  <2>2. Elems(accepted') = Elems(accepted)
    BY DEF Elems
  <2> QED
    BY <2>1, <2>2, WaitingObjects
<1>2. \A j \in 1 .. Len(batch[w]) : Popped(w, j)' = Popped(w, j)
  <2>1. \A j \in 1 .. Len(batch[w]) : Popped(w, j)' \in Elems(accepted')
    BY DEF Owners, Waiting, BatchesHold, Elems
  <2> QED
    BY <1>1, <2>1, WaitingObjects DEF Popped
<1>3. \A j \in 1 .. Len(inq[s]) : Queued(s, j)' = Queued(s, j)
  <2>1. \A j \in 1 .. Len(inq[s]) : Queued(s, j)' \in Elems(accepted')
    BY DEF Owners, Waiting, QueuesHold, Elems
  <2> QED
    BY <1>1, <2>1, WaitingObjects DEF Queued
<1> QED
  BY <1>2, <1>3, LineStays

\* ProcessOrder fills an object that waited nowhere.
LEMMA GetLine ==
  ASSUME NEW w \in Workers, NEW s \in Symbols, InLine(w, s), TypeInv, Owners,
         NEW c \in Callers, NEW p \in Ptrs, GetOrder(c, p)
  PROVE  InLine(w, s)'
<1>1. /\ obj' = [obj EXCEPT ![p] = cid[c]] /\ pool[p] > 0
      /\ UNCHANGED <<inq, batch, accepted, matched, dropped>>
  BY DEF GetOrder, workVars, histories
<1>2. obj[p] = 0
  BY <1>1 DEF Owners, PoolClean
<1>3. \A q \in Ptrs : obj[q] \in Elems(accepted) => obj'[q] = obj[q]
  BY <1>1, <1>2, WaitingObjects DEF TypeInv, TypeOK
<1>4. \A j \in 1 .. Len(batch[w]) : Popped(w, j)' = Popped(w, j)
  BY <1>1, <1>3, WaitingObjects DEF Popped, Owners, Waiting, BatchesHold
<1>5. \A j \in 1 .. Len(inq[s]) : Queued(s, j)' = Queued(s, j)
  BY <1>1, <1>3, WaitingObjects DEF Queued, Owners, Waiting, QueuesHold
<1> QED
  BY <1>1, <1>4, <1>5, LineStays

\* A push is the last in line: whatever was accepted before is somewhere.
LEMMA PushLine ==
  ASSUME ~Several(Callers), Unlapped,
         NEW w, Workers = {w}, NEW s, Symbols = {s}, InLine(w, s),
         TypeInv, CallType, OneMark, Owners, NEW c \in Callers, Push(c)
  PROVE  InLine(w, s)'
<1>1. CASE Refuse(c)
  <2>1. UNCHANGED <<obj, inq, batch, accepted, matched, dropped>>
    BY <1>1 DEF Push, Refuse, workVars
  <2> QED
    BY <2>1, LineStays DEF Popped, Queued
<1>2. CASE Enter(c)
  <2> DEFINE p == cptr[c]
             id == cid[c]
  <2>1. csym[c] = s /\ s \in Symbols /\ w \in Workers
    BY DEF TypeInv, Agrees, Push
  <2>2. /\ accepted' = Append(accepted, id)
        /\ UNCHANGED <<obj, batch, matched, dropped>>
        /\ \E r \in Entered(inq[s], p, InCap, Callers) : inq' = [inq EXCEPT ![s] = r]
    BY <1>2, <2>1 DEF Push, Enter, PushReturnsTrue, workVars
  <2>3. /\ p \in Ptrs /\ obj[p] = id /\ id \in Ids \ Elems(accepted)
    BY HeldIds DEF TypeInv, Agrees, Push
  <2>4. /\ Len(inq[s]) \in Nat /\ Len(inq'[s]) = Len(inq[s]) + 1
        /\ \A j \in 1 .. Len(inq[s]) : inq'[s][j] = inq[s][j]
        /\ inq'[s][Len(inq[s]) + 1] = p
    <3>1. PICK r \in Entered(inq[s], p, InCap, Callers) : inq' = [inq EXCEPT ![s] = r]
      BY <2>2
    <3>2. inq[s] \in Seq(Ptrs) /\ inq'[s] = r
      BY <2>1, <3>1 DEF TypeInv, TypeOK
    <3>3. PICK q \in Seq(Ptrs) : q = inq[s]
      BY <3>2
    <3>4. PICK x \in Ptrs : x = p
      BY <2>3
    <3>5. r \in Entered(q, x, InCap, Callers) /\ Len(q) \in Nat
      BY <3>1, <3>3, <3>4
    <3>6. PICK i \in 1 .. Len(q) + 1 :
             r = InsertAt(q, i, x) /\ (Several(Callers) \/ i = Len(q) + 1)
      BY <3>5, Capacities, PushedQueue
    <3>7. i = Len(q) + 1 /\ i - 1 = Len(q)
      BY <3>5, <3>6
    <3>8. Len(r) = Len(q) + 1 /\ r[i] = x /\ \A j \in 1 .. i - 1 : r[j] = q[j]
      BY <3>6, InsertSequence
    <3> QED
      BY <3>2, <3>3, <3>4, <3>5, <3>7, <3>8
  <2>5. /\ Len(accepted) \in Nat /\ Len(accepted') = Len(accepted) + 1
        /\ \A n \in 1 .. Len(accepted) : accepted'[n] = accepted[n]
        /\ accepted'[Len(accepted) + 1] = id
    <3>1. accepted \in Seq(Ids)
      BY DEF TypeInv, TypeOK
    <3> QED
      BY <2>2, <2>3, <3>1
  <2>6. /\ \A n \in 1 .. Len(accepted) : accepted[n] \in Elems(accepted) /\ accepted[n] # id
        /\ \A k \in 1 .. Len(matched) : matched[k] # id
        /\ \A j \in 1 .. Len(batch[w]) : Popped(w, j) # id
        /\ \A j \in 1 .. Len(inq[s]) : Queued(s, j) # id
    BY <2>1, <2>3 DEF Elems, Owners, Waiting, MatchesApart, BatchesHold, QueuesHold
  <2>7. /\ \A j \in 1 .. Len(batch[w]) : Popped(w, j)' = Popped(w, j)
        /\ \A j \in 1 .. Len(inq[s]) : Queued(s, j)' = Queued(s, j)
        /\ \A j \in 1 .. Len(inq'[s]) : j = Len(inq[s]) + 1 => Queued(s, j)' = id
        /\ Gone' = Gone
    <3>1. \A j \in 1 .. Len(batch[w]) : Popped(w, j)' = Popped(w, j)
      BY <2>2 DEF Popped
    <3>2. \A j \in 1 .. Len(inq[s]) : Queued(s, j)' = Queued(s, j)
      BY <2>2, <2>4 DEF Queued
    <3>3. \A j \in 1 .. Len(inq'[s]) : j = Len(inq[s]) + 1 => Queued(s, j)' = id
      BY <2>2, <2>3, <2>4 DEF Queued
    <3>4. Gone' = Gone
      BY <2>2 DEF Gone, Elems
    <3> QED
      BY <3>1, <3>2, <3>3, <3>4
  <2> HIDE DEF p, id
  <2>8. \A n \in 1 .. Len(accepted') :
           n # Len(accepted) + 1 =>
             n \in 1 .. Len(accepted) /\ accepted'[n] = accepted[n]
    BY <2>5
  <2>9. \A m, n \in 1 .. Len(accepted') : m < n => m # Len(accepted) + 1
    BY <2>5
  <2>10. MatchedLine'
    <3> SUFFICES ASSUME NEW m \in 1 .. Len(accepted'), NEW n \in 1 .. Len(accepted'),
                        NEW k \in 1 .. Len(matched), m < n, accepted'[n] = matched[k]
                 PROVE  \/ accepted'[m] \in dropped
                        \/ \E i \in 1 .. Len(matched) : i < k /\ matched[i] = accepted'[m]
      BY <2>2 DEF MatchedLine
    <3>1. n # Len(accepted) + 1
      BY <2>5, <2>6
    <3>2. m \in 1 .. Len(accepted) /\ n \in 1 .. Len(accepted)
          /\ accepted'[m] = accepted[m] /\ accepted[n] = matched[k]
      BY <2>8, <2>9, <3>1
    <3> QED
      BY <3>2 DEF InLine, MatchedLine
  <2>11. PoppedLine(w)'
    <3> SUFFICES ASSUME NEW m \in 1 .. Len(accepted'), NEW n \in 1 .. Len(accepted'),
                        NEW j \in 1 .. Len(batch[w]), m < n, accepted'[n] = Popped(w, j)
                 PROVE  \/ accepted'[m] \in Gone
                        \/ \E i \in 1 .. Len(batch[w]) :
                             i < j /\ Popped(w, i) = accepted'[m]
      <4>1. batch' = batch
        BY <2>2
      <4> QED
        BY <2>7, <4>1 DEF PoppedLine
    <3>1. n # Len(accepted) + 1
      BY <2>5, <2>6
    <3>2. m \in 1 .. Len(accepted) /\ n \in 1 .. Len(accepted)
          /\ accepted'[m] = accepted[m] /\ accepted[n] = Popped(w, j)
      BY <2>8, <2>9, <3>1
    <3> QED
      BY <3>2 DEF InLine, PoppedLine
  <2>12. QueuedLine(w, s)'
    <3> SUFFICES ASSUME NEW m \in 1 .. Len(accepted'), NEW n \in 1 .. Len(accepted'),
                        NEW j \in 1 .. Len(inq'[s]),
                        m < n, accepted'[n] = Queued(s, j)'
                 PROVE  \/ accepted'[m] \in Gone'
                        \/ \E i \in 1 .. Len(batch'[w]) : Popped(w, i)' = accepted'[m]
                        \/ \E i \in 1 .. Len(inq'[s]) :
                             i < j /\ Queued(s, i)' = accepted'[m]
      BY DEF QueuedLine
    <3>1. m \in 1 .. Len(accepted) /\ accepted'[m] = accepted[m]
      BY <2>8, <2>9
    <3>2. j \in 1 .. Len(inq[s]) \/ j = Len(inq[s]) + 1
      BY <2>4
    <3>3. CASE n \in 1 .. Len(accepted)
      <4>1. j \in 1 .. Len(inq[s])
        <5>1. accepted'[n] # id
          BY <2>5, <2>6, <3>3
        <5> QED
          BY <2>7, <3>2, <5>1
      <4>2. accepted[n] = Queued(s, j)
        BY <2>5, <2>7, <3>3, <4>1
      <4>3. \A i \in 1 .. Len(inq[s]) : i \in 1 .. Len(inq'[s])
        BY <2>4
      <4>4. \/ accepted[m] \in Gone
            \/ \E i \in 1 .. Len(batch[w]) : Popped(w, i) = accepted[m]
            \/ \E i \in 1 .. Len(inq[s]) : i < j /\ Queued(s, i) = accepted[m]
        BY <3>1, <3>3, <4>1, <4>2 DEF InLine, QueuedLine
      <4> QED
        BY <2>2, <2>7, <3>1, <4>4, <4>3
    <3>4. CASE n = Len(accepted) + 1
      <4>1. j = Len(inq[s]) + 1
        <5>1. accepted'[n] = id
          BY <2>5, <3>4
        <5> QED
          BY <2>6, <2>7, <3>2, <5>1
      <4>2. \A i \in 1 .. Len(inq[s]) : i \in 1 .. Len(inq'[s]) /\ i < j
        BY <2>4, <4>1
      <4>3. \/ accepted[m] \in Gone
            \/ \E i \in 1 .. Len(batch[w]) : Popped(w, i) = accepted[m]
            \/ \E i \in 1 .. Len(inq[s]) : Queued(s, i) = accepted[m]
        BY <2>1, <2>6, <3>1 DEF Owners, Waiting, Kept, Elems, Gone, Unlapped
      <4> QED
        BY <2>2, <2>7, <3>1, <4>3, <4>2
    <3> QED
      BY <2>5, <3>3, <3>4
  <2> QED
    BY <2>10, <2>11, <2>12 DEF InLine
<1> QED
  BY <1>1, <1>2 DEF Push, Overwrite

\* BatchPop takes the front of the line.
LEMMA PollLine ==
  ASSUME NEW w \in Workers, NEW s \in Symbols, InLine(w, s), TypeInv,
         NEW n \in 1 .. BatchSize, Poll(w, s, n)
  PROVE  InLine(w, s)'
<1>1. /\ inq[s] \in Seq(Ptrs) /\ n \in 1 .. Len(inq[s]) /\ Len(inq[s]) \in Nat
      /\ batch' = [batch EXCEPT ![w] = SubSeq(inq[s], 1, n)]
      /\ inq' = [inq EXCEPT ![s] = SubSeq(inq[s], n + 1, Len(inq[s]))]
      /\ batch[w] = <<>> /\ Len(batch[w]) = 0
      /\ UNCHANGED <<obj, accepted, matched, dropped>>
  BY DEF Poll, QueueAfter, TypeInv, TypeOK, Agrees, callVars, histories
<1>2. /\ Len(batch'[w]) = n /\ \A i \in 1 .. n : Popped(w, i)' = Queued(s, i)
      /\ Len(inq'[s]) = Len(inq[s]) - n
      /\ \A i \in 1 .. Len(inq[s]) - n : Queued(s, i)' = Queued(s, i + n)
  <2> DEFINE q == inq[s]
  <2>1. q \in Seq(Ptrs) /\ n \in 1 .. Len(q)
    BY <1>1
  <2>2. batch'[w] = SubSeq(q, 1, n) /\ inq'[s] = SubSeq(q, n + 1, Len(q))
    BY <1>1 DEF TypeInv, TypeOK
  <2> HIDE DEF q
  <2>3. /\ Len(batch'[w]) = n /\ \A i \in 1 .. n : batch'[w][i] = q[i]
        /\ Len(inq'[s]) = Len(q) - n
        /\ \A i \in 1 .. Len(q) - n : inq'[s][i] = q[i + n]
    <3>1. /\ Len(SubSeq(q, 1, n)) = n /\ \A i \in 1 .. n : SubSeq(q, 1, n)[i] = q[i]
          /\ Len(SubSeq(q, n + 1, Len(q))) = Len(q) - n
          /\ \A i \in 1 .. Len(q) - n : SubSeq(q, n + 1, Len(q))[i] = q[i + n]
      BY <2>1, CutSequence
    <3> QED
      BY <2>2, <3>1
  <2> QED
    BY <1>1, <2>3 DEF q, Popped, Queued
<1>3. Gone' = Gone
  BY <1>1 DEF Gone, Elems
\* The line as it was, without a batch.
<1>4. \A m, k \in 1 .. Len(accepted), j \in 1 .. Len(inq[s]) :
        m < k /\ accepted[k] = Queued(s, j) =>
          \/ accepted[m] \in Gone
          \/ \E i \in 1 .. Len(inq[s]) : i < j /\ Queued(s, i) = accepted[m]
  BY <1>1 DEF InLine, QueuedLine
<1>5. MatchedLine'
  BY <1>1, MatchedStays DEF InLine
<1>6. PoppedLine(w)'
  <2> SUFFICES ASSUME NEW m \in 1 .. Len(accepted), NEW k \in 1 .. Len(accepted),
                      NEW j \in 1 .. n, m < k, accepted[k] = Queued(s, j)
               PROVE  \/ accepted[m] \in Gone
                      \/ \E i \in 1 .. n : i < j /\ Popped(w, i)' = accepted[m]
    BY <1>1, <1>2, <1>3 DEF PoppedLine
  <2>1. j \in 1 .. Len(inq[s])
    BY <1>1
  <2>2. \/ accepted[m] \in Gone
        \/ \E i \in 1 .. Len(inq[s]) : i < j /\ Queued(s, i) = accepted[m]
    BY <1>4, <2>1
  <2> QED
    BY <1>1, <1>2, <2>2
<1>7. QueuedLine(w, s)'
  <2> SUFFICES ASSUME NEW m \in 1 .. Len(accepted), NEW k \in 1 .. Len(accepted),
                      NEW j \in 1 .. Len(inq[s]) - n, m < k,
                      accepted[k] = Queued(s, j + n)
               PROVE  \/ accepted[m] \in Gone
                      \/ \E i \in 1 .. n : Popped(w, i)' = accepted[m]
                      \/ \E i \in 1 .. Len(inq[s]) - n :
                           i < j /\ Queued(s, i)' = accepted[m]
    <3>1. \A j \in 1 .. Len(inq'[s]) :
            j \in 1 .. Len(inq[s]) - n /\ Queued(s, j)' = Queued(s, j + n)
      BY <1>1, <1>2
    <3>2. 1 .. Len(inq'[s]) = 1 .. Len(inq[s]) - n /\ 1 .. Len(batch'[w]) = 1 .. n
      BY <1>2
    <3>3. accepted' = accepted
      BY <1>1
    <3> QED
      BY <1>3, <3>1, <3>2, <3>3 DEF QueuedLine
  <2>1. j + n \in 1 .. Len(inq[s])
    BY <1>1
  <2>2. CASE accepted[m] \in Gone
    BY <2>2
  <2>3. ASSUME NEW i \in 1 .. Len(inq[s]), i < j + n, Queued(s, i) = accepted[m]
        PROVE  \/ \E x \in 1 .. n : Popped(w, x)' = accepted[m]
               \/ \E x \in 1 .. Len(inq[s]) - n : x < j /\ Queued(s, x)' = accepted[m]
    <3>1. CASE i <= n
      BY <1>1, <1>2, <2>3, <3>1
    <3>2. CASE i > n
      <4>1. i - n \in 1 .. Len(inq[s]) - n /\ i - n < j /\ (i - n) + n = i
        BY <1>1, <2>3, <3>2
      <4> QED
        BY <1>2, <2>3, <4>1
    <3> QED
      BY <1>1, <3>1, <3>2
  <2> QED
    BY <1>4, <2>1, <2>2, <2>3
<1> QED
  BY <1>5, <1>6, <1>7 DEF InLine

\* Match takes the front of the batch.
LEMMA MatchLine ==
  ASSUME NEW w \in Workers, NEW s \in Symbols, InLine(w, s), TypeInv,
         NEW trades \in BOOLEAN, NEW rests \in BOOLEAN, Match(w, trades, rests)
  PROVE  InLine(w, s)'
<1> DEFINE d == Popped(w, 1)
<1>1. /\ matched' = Append(matched, d)
      /\ UNCHANGED <<obj, inq, batch, accepted, dropped>>
      /\ 1 \in 1 .. Len(batch[w]) /\ d \in Ids \cup {0}
  <2>1. batch[w] \in Seq(Ptrs) /\ batch[w] # <<>>
    BY DEF TypeInv, TypeOK, Agrees, Match
  <2>2. Len(batch[w]) \in Nat \ {0} /\ batch[w][1] \in Ptrs
    BY <2>1, TailSequence
  <2> QED
    BY <2>2 DEF Match, Current, Popped, callVars, TypeInv, TypeOK
<1> HIDE DEF d
<1>2. /\ Len(matched) \in Nat /\ Len(matched') = Len(matched) + 1
      /\ \A k \in 1 .. Len(matched) : matched'[k] = matched[k]
      /\ matched'[Len(matched) + 1] = d
  <2>1. matched \in Seq(Ids \cup {0})
    BY DEF TypeInv, TypeOK
  <2> QED
    BY <1>1, <2>1
<1>3. /\ Gone \subseteq Gone'
      /\ \A i \in 1 .. Len(batch[w]) : Popped(w, i)' = Popped(w, i)
      /\ \A i \in 1 .. Len(inq[s]) : Queued(s, i)' = Queued(s, i)
  BY <1>1, <1>2 DEF Gone, Elems, Popped, Queued
<1>4. MatchedLine'
  <2> SUFFICES ASSUME NEW m \in 1 .. Len(accepted), NEW n \in 1 .. Len(accepted),
                      NEW k \in 1 .. Len(matched'), m < n, accepted[n] = matched'[k]
               PROVE  \/ accepted[m] \in dropped
                      \/ \E i \in 1 .. Len(matched') : i < k /\ matched'[i] = accepted[m]
    BY <1>1 DEF MatchedLine
  <2>1. CASE k \in 1 .. Len(matched)
    <3>1. \/ accepted[m] \in dropped
          \/ \E i \in 1 .. Len(matched) : i < k /\ matched[i] = accepted[m]
      BY <1>2, <2>1 DEF InLine, MatchedLine
    <3> QED
      BY <1>2, <3>1
  <2>2. CASE k = Len(matched) + 1
    <3>1. accepted[n] = Popped(w, 1)
      BY <1>2, <2>2 DEF d
    <3>2. accepted[m] \in Gone
      BY <1>1, <3>1 DEF InLine, PoppedLine
    <3> QED
      BY <1>2, <2>2, <3>2 DEF Gone, Elems
  <2> QED
    BY <1>2, <2>1, <2>2
<1>5. PoppedLine(w)'
  BY <1>1, <1>3 DEF InLine, PoppedLine
<1>6. QueuedLine(w, s)'
  BY <1>1, <1>3 DEF InLine, QueuedLine
<1> QED
  BY <1>4, <1>5, <1>6 DEF InLine

\* The order that leaves the batch was matched.
LEMMA ReleaseLine ==
  ASSUME NEW w \in Workers, NEW s \in Symbols, InLine(w, s), TypeInv, TypeInv',
         Owners, Owners', Release(w)
  PROVE  InLine(w, s)'
<1> DEFINE p == batch[w][1]
<1>1. /\ wpc[w] = "release" /\ PutOrderToPool(p)
      /\ batch' = [batch EXCEPT ![w] = Tail(@)]
      /\ UNCHANGED <<inq, accepted, matched, dropped>>
  BY DEF Release, Current, callVars, histories
<1>2. /\ batch[w] \in Seq(Ptrs) /\ batch[w] # <<>>
  BY <1>1 DEF TypeInv, TypeOK, Agrees
<1>3. /\ Len(batch[w]) \in Nat \ {0} /\ p \in Ptrs
      /\ Len(batch'[w]) = Len(batch[w]) - 1
      /\ \A i \in 1 .. Len(batch[w]) - 1 : batch'[w][i] = batch[w][i + 1]
  <2>1. batch'[w] = Tail(batch[w])
    BY <1>1 DEF TypeInv, TypeOK
  <2> QED
    BY <1>2, <2>1, TailSequence
<1>4. Popped(w, 1) \in Elems(matched)
  BY <1>1, <1>3 DEF Owners, Waiting, BatchesHold, Behind
<1> HIDE DEF p
<1>5. /\ obj'[p] = 0 /\ \A q \in Ptrs \ {p} : obj'[q] = obj[q]
      /\ Elems(accepted') \subseteq Ids /\ 0 \notin Ids
  <2>1. obj'[p] = 0 /\ \A q \in Ptrs \ {p} : obj'[q] = obj[q]
    BY <1>1, <1>3 DEF PutOrderToPool, TypeInv, TypeOK
  <2>2. Elems(accepted') = Elems(accepted)
    BY <1>1 DEF Elems
  <2> QED
    BY <2>1, <2>2, WaitingObjects
<1>6. \A i \in 1 .. Len(batch[w]) - 1 : Popped(w, i)' = Popped(w, i + 1)
  <2>1. \A i \in 1 .. Len(batch'[w]) : Popped(w, i)' \in Elems(accepted')
    BY DEF Owners, Waiting, BatchesHold, Elems
  <2> SUFFICES ASSUME NEW i \in 1 .. Len(batch[w]) - 1
               PROVE  Popped(w, i)' = Popped(w, i + 1)
    OBVIOUS
  <2>2. i + 1 \in 1 .. Len(batch[w]) /\ i \in 1 .. Len(batch'[w])
    BY <1>3
  <2>3. batch'[w][i] = batch[w][i + 1] /\ batch[w][i + 1] \in Ptrs
    BY <1>3, <2>2, WaitingObjects
  <2> QED
    BY <1>5, <2>1, <2>2, <2>3 DEF Popped
<1>7. \A j \in 1 .. Len(inq[s]) : Queued(s, j)' = Queued(s, j)
  <2>1. \A j \in 1 .. Len(inq[s]) : Queued(s, j)' \in Elems(accepted')
    BY <1>1 DEF Owners, Waiting, QueuesHold, Elems
  <2> QED
    BY <1>1, <1>5, <2>1, WaitingObjects DEF Queued
<1>8. /\ Gone' = Gone
      /\ Popped(w, 1) \in Gone
  BY <1>1, <1>4 DEF Gone, Elems
\* Who was in the batch is in it or gone.
<1>9. ASSUME NEW id, NEW i \in 1 .. Len(batch[w]), Popped(w, i) = id
      PROVE  id \in Gone \/ (i - 1 \in 1 .. Len(batch'[w]) /\ Popped(w, i - 1)' = id)
  <2>1. CASE i = 1
    BY <1>8, <1>9, <2>1
  <2>2. CASE i # 1
    <3>1. i - 1 \in 1 .. Len(batch[w]) - 1 /\ (i - 1) + 1 = i
      BY <1>3, <2>2
    <3> QED
      BY <1>3, <1>6, <1>9, <3>1
  <2> QED
    BY <2>1, <2>2
<1>10. MatchedLine'
  BY <1>1, MatchedStays DEF InLine
<1>11. PoppedLine(w)'
  <2> SUFFICES ASSUME NEW m \in 1 .. Len(accepted), NEW n \in 1 .. Len(accepted),
                      NEW j \in 1 .. Len(batch'[w]), m < n, accepted[n] = Popped(w, j)'
               PROVE  \/ accepted[m] \in Gone
                      \/ \E i \in 1 .. Len(batch'[w]) : i < j /\ Popped(w, i)' = accepted[m]
    BY <1>1, <1>8 DEF PoppedLine
  <2>1. j + 1 \in 1 .. Len(batch[w]) /\ accepted[n] = Popped(w, j + 1)
    BY <1>3, <1>6
  <2>2. \/ accepted[m] \in Gone
        \/ \E i \in 1 .. Len(batch[w]) : i < j + 1 /\ Popped(w, i) = accepted[m]
    BY <2>1 DEF InLine, PoppedLine
  <2> QED
    BY <1>3, <1>9, <2>2
<1>12. QueuedLine(w, s)'
  <2> SUFFICES ASSUME NEW m \in 1 .. Len(accepted), NEW n \in 1 .. Len(accepted),
                      NEW j \in 1 .. Len(inq[s]), m < n, accepted[n] = Queued(s, j)
               PROVE  \/ accepted[m] \in Gone
                      \/ \E i \in 1 .. Len(batch'[w]) : Popped(w, i)' = accepted[m]
                      \/ \E i \in 1 .. Len(inq[s]) : i < j /\ Queued(s, i) = accepted[m]
    BY <1>1, <1>7, <1>8 DEF QueuedLine
  <2> QED
    BY <1>9 DEF InLine, QueuedLine
<1> QED
  BY <1>10, <1>11, <1>12 DEF InLine

\* A worker that ends drops its batch.
LEMMA ExitLine ==
  ASSUME NEW w \in Workers, NEW s \in Symbols, InLine(w, s), TypeInv, WorkerExit(w)
  PROVE  InLine(w, s)'
<1>1. /\ dropped' = dropped \cup {obj[p] : p \in Elems(batch[w])}
      /\ batch' = [batch EXCEPT ![w] = <<>>]
      /\ UNCHANGED <<obj, inq, accepted, matched>>
  BY DEF WorkerExit, callVars
<1>2. Len(batch'[w]) = 0
  BY <1>1 DEF TypeInv, TypeOK
<1>3. /\ Gone \subseteq Gone'
      /\ \A i \in 1 .. Len(batch[w]) : Popped(w, i) \in Gone'
      /\ \A j \in 1 .. Len(inq[s]) : Queued(s, j)' = Queued(s, j)
  BY <1>1 DEF Gone, Popped, Queued, Elems
<1>4. MatchedLine'
  BY <1>1, MatchedStays DEF InLine
<1>5. PoppedLine(w)'
  BY <1>2 DEF PoppedLine
<1>6. QueuedLine(w, s)'
  <2> SUFFICES ASSUME NEW m \in 1 .. Len(accepted), NEW n \in 1 .. Len(accepted),
                      NEW j \in 1 .. Len(inq[s]), m < n, accepted[n] = Queued(s, j)
               PROVE  \/ accepted[m] \in Gone'
                      \/ \E i \in 1 .. Len(inq[s]) : i < j /\ Queued(s, i) = accepted[m]
    BY <1>1, <1>2, <1>3 DEF QueuedLine
  <2>1. \/ accepted[m] \in Gone
        \/ \E i \in 1 .. Len(batch[w]) : Popped(w, i) = accepted[m]
        \/ \E i \in 1 .. Len(inq[s]) : i < j /\ Queued(s, i) = accepted[m]
    BY DEF InLine, QueuedLine
  <2> QED
    BY <1>3, <2>1
<1> QED
  BY <1>4, <1>5, <1>6 DEF InLine

LineInv(w, s) == ~raced => InLine(w, s)

LEMMA LineNext ==
  ASSUME ~Several(Callers), Unlapped,
         NEW w, Workers = {w}, NEW s, Symbols = {s}, LineInv(w, s),
         TypeInv, TypeInv', CallType, OneMark, OwnerInv, OwnerInv', [Next]_vars
  PROVE  LineInv(w, s)'
<1> SUFFICES ASSUME ~raced' PROVE InLine(w, s)'
  BY DEF LineInv
<1>1. ~raced
  BY DEF TypeInv, TypeOK, Next, vars, histories, CallStep, Begin, StoreState, GetOrder,
         Push, PutBack, Unmark, DeleteState, WorkerStep, Poll, Match, Send, Release,
         WorkerExit, ResultStep, TakeResults, HandleResult, ResultsExit, Start,
         StopBegin, StopEnd, CancelOrder, MarkCancelled
<1>2. Owners /\ Owners' /\ InLine(w, s) /\ w \in Workers /\ s \in Symbols
  BY <1>1 DEF OwnerInv, LineInv
<1>3. CASE UNCHANGED <<obj, inq, batch, accepted, matched, dropped>>
  BY <1>2, <1>3, LineStays DEF Popped, Queued
<1>4. ASSUME NEW c \in Callers, CallStep(c) PROVE InLine(w, s)'
  <2>1. CASE PutBack(c)
    <3>1. cptr[c] \in Ptrs /\ PutOrderToPool(cptr[c])
      BY <2>1 DEF PutBack, TypeInv, TypeOK, Agrees
    <3>2. UNCHANGED <<inq, batch, accepted, matched, dropped>>
      BY <2>1 DEF PutBack, workVars, histories
    <3> QED
      BY <1>2, <3>1, <3>2, PutBackLine
  <2>2. CASE StoreState(c) \/ Unmark(c) \/ DeleteState(c)
    BY <1>3, <2>2 DEF StoreState, Unmark, DeleteState, workVars, histories
  <2> QED
    BY <1>2, <1>4, <2>1, <2>2, GetLine, PushLine DEF CallStep
<1>5. CASE WorkerStep(w)
  <2>1. CASE Send(w)
    BY <1>3, <2>1 DEF Send, callVars, histories
  <2> QED
    BY <1>2, <1>5, <2>1, PollLine, MatchLine, ReleaseLine, ExitLine DEF WorkerStep
<1>6. ASSUME NEW id \in Ids, CancelOrder(id) PROVE InLine(w, s)'
  <2>1. /\ resting[id] \in Ptrs /\ PutOrderToPool(resting[id])
        /\ UNCHANGED <<inq, batch, accepted, matched, dropped>>
    BY <1>6 DEF CancelOrder, callVars, workVars, TypeInv, TypeOK
  <2> QED
    BY <1>2, <2>1, PutBackLine
<1>7. CASE \/ \E c \in Callers, id \in Ids, z \in Symbols \cup {UNKNOWN} : Begin(c, id, z)
           \/ ResultStep \/ Start \/ StopBegin \/ StopEnd \/ MarkCancelled
           \/ UNCHANGED vars
  BY <1>3, <1>7 DEF Begin, ResultStep, TakeResults, HandleResult, ResultsExit, Start,
                    StopBegin, StopEnd, MarkCancelled, vars, callVars, workVars, histories
<1> QED
  BY <1>4, <1>5, <1>6, <1>7 DEF Next

\* The orders of one symbol that a single caller sends are matched in the order
\* of their acceptance by a single worker, through rejected calls, batches, stops
\* and restarts; only an order that a stop dropped is passed by later ones.
THEOREM EngineMatchesInOrder ==
  ASSUME NEW c, Callers = {c}, NEW w, Workers = {w}, NEW s, Symbols = {s}
  PROVE  Spec => []MatchedInOrder
<1> ~Several(Callers)
  BY DEF Several
<1>1. Init => LineInv(w, s)
  <2> SUFFICES ASSUME Init PROVE InLine(w, s)
    BY DEF LineInv
  <2>1. Len(accepted) = 0
    BY DEF Init
  <2> QED
    BY <2>1 DEF InLine, MatchedLine, PoppedLine, QueuedLine
<1>2. /\ Unlapped /\ LineInv(w, s) /\ TypeInv /\ TypeInv' /\ CallType /\ OneMark
      /\ OwnerInv /\ OwnerInv' /\ [Next]_vars
      => LineInv(w, s)'
  BY LineNext
<1>3. LineInv(w, s) /\ TypeInv => MatchedInOrder
  <2> SUFFICES ASSUME InLine(w, s), TypeInv,
                      NEW n \in 1 .. Len(accepted), NEW k \in 1 .. Len(matched),
                      accepted[n] = matched[k], NEW m \in 1 .. n - 1
               PROVE  accepted[m] \in dropped \cup {matched[i] : i \in 1 .. k - 1}
    BY DEF LineInv, MatchedInOrder
  <2>1. m \in 1 .. Len(accepted) /\ m < n /\ Len(matched) \in Nat
    <3>1. accepted \in Seq(Ids) /\ matched \in Seq(Ids \cup {0})
      BY DEF TypeInv, TypeOK
    <3>2. Len(accepted) \in Nat /\ Len(matched) \in Nat
      BY <3>1
    <3> QED
      BY <3>2
  <2>2. \/ accepted[m] \in dropped
        \/ \E i \in 1 .. Len(matched) : i < k /\ matched[i] = accepted[m]
    BY <2>1 DEF InLine, MatchedLine
  <2> QED
    BY <2>1, <2>2
<1> QED
  BY <1>1, <1>2, <1>3, OwnerInvariant, SoleCallerLapsNobody, PTL DEF Spec
=============================================================================
