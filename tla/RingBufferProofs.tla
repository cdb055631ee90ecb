-------------------------- MODULE RingBufferProofs --------------------------
(***************************************************************************)
(* Theorems about RingBuffer, for every number of producers and consumers, *)
(* every capacity and every set of items.                                  *)
(*                                                                         *)
(* The second half proves what the ring promises to its users: with one    *)
(* producer and one consumer it is a first-in first-out queue, with one    *)
(* producer and any number of BatchPop callers it delivers each item once  *)
(* and loses none. (With several producers a lap apart it does not: run    *)
(* RingLapLoss.)                                                           *)
(***************************************************************************)
EXTENDS RingBuffer, TLAPS

\* Every position falls into a slot of the buffer ("& mask").
LEMMA SlotInRange == \A n \in Int : Slot(n) \in Slots
  BY RingAssumption DEF Slot, Slots

\* The guards of a claim give a claim of at least one position, and at most
\* what lies between the two counters the consumer loaded.
LEMMA ClaimEndType ==
  ASSUME TypeOK, NEW c \in Consumers, rt[c] < rh[c]
  PROVE  ClaimEnd(c) \in Nat /\ rt[c] < ClaimEnd(c) /\ ClaimEnd(c) <= rh[c]
  BY DEF ClaimEnd, TypeOK, Threads

-----------------------------------------------------------------------------

\* The empty ring is well typed.
LEMMA TypeInit == Init => TypeOK
  BY RingAssumption DEF Init, TypeOK, Threads, Consumers, PushPcs, BatchPcs

\* In each action only the acting thread's entries change, and the two sets
\* of threads are disjoint.
LEMMA PushType ==
  ASSUME TypeOK, NEW p \in Producers, PushStep(p)
  PROVE  TypeOK'
<1> USE RingAssumption DEF TypeOK, Goto, PushPcs, Threads, Consumers
<1>1. ASSUME NEW it \in Items, PushLoadHead(p, it) PROVE TypeOK'
  BY <1>1 DEF PushLoadHead
<1>2. CASE PushLoadTail(p)
  BY <1>2 DEF PushLoadTail
<1>3. CASE PushCas(p)
  <2>1. head' \in Nat
    BY <1>3 DEF PushCas
  <2>2. PICK l \in {"pushWait", "pushHead"} : pc' = [pc EXCEPT ![p] = l]
    BY <1>3 DEF PushCas
  <2>3. pc[p] # "idle"
    BY <1>3 DEF PushCas
  <2> QED
    BY <1>3, <2>1, <2>2, <2>3 DEF PushCas
<1>4. CASE PushWait(p)
  BY <1>4 DEF PushWait
<1>5. CASE PushStore(p)
  <2>1. item[p] \in Items /\ Slot(rh[p]) \in Slots
    BY <1>5, SlotInRange DEF PushStore
  <2>2. buffer' \in [Slots -> Items \cup {NONE}]
    BY <1>5, <2>1 DEF PushStore, Filled
  <2> QED
    BY <1>5, <2>1, <2>2 DEF PushStore
<1> QED
  BY <1>1, <1>2, <1>3, <1>4, <1>5 DEF PushStep

\* The same for the steps of Pop and BatchPop.
LEMMA ConsumerType ==
  ASSUME TypeOK, NEW c \in Consumers,
         \/ ClaimStep(c)
         \/ c \in Batchers /\ BatchSwap(c)
         \/ c \in Poppers /\ (PopLoad(c) \/ PopClear(c))
  PROVE  TypeOK'
<1> USE RingAssumption DEF TypeOK, Goto, BatchPcs, Threads, Consumers
<1>1. ASSUME NEW m \in Wants(c), TakeLoadHead(c, m) PROVE TypeOK'
  <2>1. m \in Nat \ {0}
    BY DEF Wants
  <2> QED
    BY <1>1, <2>1 DEF TakeLoadHead
<1>2. CASE TakeLoadTail(c)
  BY <1>2 DEF TakeLoadTail
<1>3. CASE TakeCas(c)
  <2>1. ClaimEnd(c) \in Nat
    BY DEF ClaimEnd
  <2>2. tail' \in Nat /\ rh' \in [Threads -> Nat]
    <3>1. CASE ClaimWon(c)
      BY <1>3, <2>1, <3>1 DEF TakeCas
    <3>2. CASE ~ClaimWon(c)
      BY <1>3, <3>2 DEF TakeCas
    <3> QED
      BY <3>1, <3>2
  <2>3. PICK l \in {"takeSlot", "takeHead"} : pc' = [pc EXCEPT ![c] = l]
    BY <1>3 DEF TakeCas
  <2> QED
    BY <1>3, <2>2, <2>3 DEF TakeCas
<1>4. CASE c \in Batchers /\ BatchSwap(c)
  <2>1. Slot(rt[c]) \in Slots
    BY SlotInRange
  <2>2. buffer[Slot(rt[c])] \in Items
    BY <1>4, <2>1 DEF BatchSwap, Full
  <2>3. buffer' \in [Slots -> Items \cup {NONE}]
    BY <1>4 DEF BatchSwap, Emptied
  <2> QED
    BY <1>4, <2>2, <2>3 DEF BatchSwap
<1>5. CASE c \in Poppers /\ PopLoad(c)
  <2>1. buffer[Slot(rt[c])] \in Items
    BY <1>5, SlotInRange DEF PopLoad, Full
  <2> QED
    BY <1>5, <2>1 DEF PopLoad
<1>6. CASE c \in Poppers /\ PopClear(c)
  <2>1. item[c] \in Items
    BY <1>6 DEF PopClear
  <2>2. buffer' \in [Slots -> Items \cup {NONE}]
    BY <1>6 DEF PopClear, Emptied
  <2> QED
    BY <1>6, <2>1, <2>2 DEF PopClear
<1> QED
  BY <1>1, <1>2, <1>3, <1>4, <1>5, <1>6 DEF ClaimStep

\* Type correctness: no call ever returns nil as an item, stores outside the
\* buffer, or leaves a thread in a state its method does not have.
THEOREM TypeCorrect == Spec => []TypeOK
<1>1. Init => TypeOK
  BY TypeInit
<1>2. TypeOK /\ [Next]_vars => TypeOK'
  <2>1. CASE UNCHANGED vars
    BY <2>1 DEF vars, TypeOK
  <2>2. CASE Next
    BY <2>2, PushType, ConsumerType DEF Next, Consumers
  <2> QED
    BY <2>1, <2>2
<1> QED
  BY <1>1, <1>2, PTL DEF Spec

-----------------------------------------------------------------------------
(* Bounded and ClaimsDisjoint follow from Ownership, which is inductive.   *)

\* Nobody owns a position at first.
LEMMA OwnershipInit == Init => Ownership
  BY RingAssumption
     DEF Init, Ownership, Bounded, Writing, Taking, Threads, Consumers

\* Ownership is stronger than the properties it is there for.
LEMMA OwnershipSafe == TypeOK /\ Ownership => Bounded /\ ClaimsDisjoint
<1> SUFFICES ASSUME TypeOK, Ownership PROVE Bounded /\ ClaimsDisjoint
  OBVIOUS
<1>1. ASSUME NEW c \in Consumers PROVE rt[c] \in Nat /\ rh[c] \in Nat
  BY DEF TypeOK, Threads
<1>2. ASSUME NEW c \in Consumers, NEW n \in Claimed(c) PROVE n < tail
  BY <1>1 DEF Ownership, Claimed, TypeOK
<1>3. ASSUME NEW c \in Consumers, NEW d \in Consumers \ {c}
      PROVE  Claimed(c) \cap Claimed(d) = {}
  BY <1>1 DEF Ownership, Claimed
<1> QED
  BY <1>2, <1>3 DEF Ownership, ClaimsDisjoint

\* A step of producer p preserves Ownership when it leaves the other threads
\* alone, takes no position back, and keeps p's own conjuncts.
LEMMA ProducerFrame ==
  ASSUME TypeOK, Ownership, NEW p \in Producers,
         TypeOK', tail' = tail, head <= head', head' <= tail + Cap,
         \A t \in Threads \ {p} :
           pc'[t] = pc[t] /\ rh'[t] = rh[t] /\ rt'[t] = rt[t],
         rh'[p] <= head', rt'[p] <= tail,
         pc'[p] = "pushCas" => rh'[p] - rt'[p] < Cap,
         Writing(p)' => rh'[p] < head',
         Writing(p)' =>
           \A q \in Producers \ {p} : Writing(q) => rh'[p] # rh[q]
  PROVE  Ownership'
<1> /\ head \in Nat /\ head' \in Nat /\ tail \in Nat /\ tail' \in Nat
    /\ Cap \in Nat
    /\ \A t \in Threads : /\ rh[t] \in Nat /\ rh'[t] \in Nat
                           /\ rt[t] \in Nat /\ rt'[t] \in Nat
    /\ Producers \cup Consumers = Threads /\ Producers \cap Consumers = {}
  BY RingAssumption DEF TypeOK, Threads
<1>1. Bounded'
  BY DEF Ownership, Bounded
<1>2. ASSUME NEW q \in Producers
      PROVE  /\ rh'[q] <= head' /\ rt'[q] <= tail'
             /\ pc'[q] = "pushCas" => rh'[q] - rt'[q] < Cap
             /\ Writing(q)' => rh'[q] < head'
  <2>1. CASE q = p
    BY <2>1
  <2>2. CASE q # p
    BY <2>2 DEF Ownership, Writing
  <2> QED
    BY <2>1, <2>2
<1>3. ASSUME NEW q \in Producers, NEW r \in Producers \ {q},
             Writing(q)', Writing(r)'
      PROVE  rh'[q] # rh'[r]
  <2>1. CASE q = p
    BY <1>3, <2>1 DEF Writing
  <2>2. CASE r = p
    BY <1>3, <2>2 DEF Writing
  <2>3. CASE q # p /\ r # p
    BY <1>3, <2>3 DEF Ownership, Writing
  <2> QED
    BY <2>1, <2>2, <2>3
<1>4. ASSUME NEW c \in Consumers
      PROVE  /\ pc'[c] \in {"takeTail", "takeCas"} => rh'[c] <= head'
             /\ pc'[c] = "takeCas" => rt'[c] < rh'[c]
             /\ Taking(c)' => rt'[c] < rh'[c] /\ rh'[c] <= tail'
             /\ \A d \in Consumers \ {c} : Taking(c)' /\ Taking(d)' =>
                  rh'[c] <= rt'[d] \/ rh'[d] <= rt'[c]
  BY DEF Ownership, Taking
<1> QED
  BY <1>1, <1>2, <1>3, <1>4 DEF Ownership

\* Every step of Push preserves Ownership.
LEMMA PushOwnership ==
  ASSUME TypeOK, Ownership, NEW p \in Producers, PushStep(p)
  PROVE  Ownership'
<1>1. TypeOK'
  BY PushType
<1>2. /\ head \in Nat /\ tail \in Nat /\ Cap \in Nat /\ p \in Threads
      /\ rh \in [Threads -> Nat] /\ rt \in [Threads -> Nat]
      /\ pc \in [Threads -> PushPcs \cup BatchPcs \cup {"popClear"}]
      /\ tail <= head /\ head <= tail + Cap
      /\ rh[p] <= head /\ rt[p] <= tail
      /\ pc[p] = "pushCas" => rh[p] - rt[p] < Cap
      /\ Writing(p) => rh[p] < head
      /\ \A q \in Producers : Writing(q) => rh[q] < head
      /\ \A q \in Producers \ {p} : Writing(p) /\ Writing(q) => rh[p] # rh[q]
  BY RingAssumption DEF Ownership, Bounded, TypeOK, Threads
<1>3. ASSUME NEW it \in Items, PushLoadHead(p, it) PROVE Ownership'
  <2>1. ~Writing(p)' /\ pc'[p] # "pushCas"
    BY <1>3 DEF PushLoadHead, Goto, Writing
  <2> QED
    BY <1>1, <1>2, <1>3, <2>1, ProducerFrame DEF PushLoadHead, Goto
<1>4. CASE PushLoadTail(p)
  <2>1. ~Writing(p)' /\ (pc'[p] = "pushCas" => rh'[p] - rt'[p] < Cap)
    BY <1>2, <1>4 DEF PushLoadTail, Goto, Writing, LooksFull
  <2> QED
    BY <1>1, <1>2, <1>4, <2>1, ProducerFrame DEF PushLoadTail, Goto
<1>5. CASE PushCas(p)
  <2>1. CASE HeadWon(p)
    <3>1. head' = head + 1 /\ rh'[p] = head /\ pc'[p] = "pushWait"
      BY <1>2, <1>5, <2>1 DEF PushCas, HeadWon, Goto
    <3>2. head + 1 <= tail + Cap
      BY <1>2, <1>5, <2>1 DEF PushCas, HeadWon
    <3> QED
      BY <1>1, <1>2, <1>5, <2>1, <3>1, <3>2, ProducerFrame DEF PushCas, Goto
  <2>2. CASE ~HeadWon(p)
    <3>1. ~Writing(p)' /\ pc'[p] # "pushCas" /\ head' = head
      BY <1>2, <1>5, <2>2 DEF PushCas, Goto, Writing
    <3> QED
      BY <1>1, <1>2, <1>5, <2>2, <3>1, ProducerFrame DEF PushCas, Goto
  <2> QED
    BY <2>1, <2>2
<1>6. CASE PushWait(p)
  <2>1. Writing(p) /\ pc'[p] = "pushStore"
    BY <1>2, <1>6 DEF PushWait, Goto, Writing
  <2> QED
    BY <1>1, <1>2, <1>6, <2>1, ProducerFrame DEF PushWait, Goto
<1>7. CASE PushStore(p)
  <2>1. ~Writing(p)' /\ pc'[p] # "pushCas"
    BY <1>2, <1>7 DEF PushStore, Goto, Writing
  <2> QED
    BY <1>1, <1>2, <1>7, <2>1, ProducerFrame DEF PushStore, Goto
<1> QED
  BY <1>3, <1>4, <1>5, <1>6, <1>7 DEF PushStep

\* The same for a step of consumer c: it may move tail forward, and its own
\* claim stays apart from the others'.
LEMMA ConsumerFrame ==
  ASSUME TypeOK, Ownership, NEW c \in Consumers,
         TypeOK', head' = head, tail <= tail', tail' <= head,
         \A t \in Threads \ {c} :
           pc'[t] = pc[t] /\ rh'[t] = rh[t] /\ rt'[t] = rt[t],
         pc'[c] \in {"takeTail", "takeCas"} => rh'[c] <= head,
         pc'[c] = "takeCas" => rt'[c] < rh'[c],
         Taking(c)' => rt'[c] < rh'[c] /\ rh'[c] <= tail',
         Taking(c)' => \A d \in Consumers \ {c} :
           Taking(d) => rh'[c] <= rt[d] \/ rh[d] <= rt'[c]
  PROVE  Ownership'
<1> /\ head \in Nat /\ head' \in Nat /\ tail \in Nat /\ tail' \in Nat
    /\ Cap \in Nat
    /\ \A t \in Threads : /\ rh[t] \in Nat /\ rh'[t] \in Nat
                           /\ rt[t] \in Nat /\ rt'[t] \in Nat
    /\ Producers \cup Consumers = Threads /\ Producers \cap Consumers = {}
  BY RingAssumption DEF TypeOK, Threads
<1>1. Bounded'
  <2>1. head <= tail + Cap
    BY DEF Ownership, Bounded
  <2>2. head <= tail' + Cap
    BY <2>1
  <2> QED
    BY <2>2 DEF Bounded
<1>2. ASSUME NEW p \in Producers
      PROVE  /\ rh'[p] <= head' /\ rt'[p] <= tail'
             /\ pc'[p] = "pushCas" => rh'[p] - rt'[p] < Cap
             /\ Writing(p)' => rh'[p] < head'
             /\ \A q \in Producers \ {p} :
                  Writing(p)' /\ Writing(q)' => rh'[p] # rh'[q]
  BY DEF Ownership, Writing
<1>3. ASSUME NEW d \in Consumers
      PROVE  /\ pc'[d] \in {"takeTail", "takeCas"} => rh'[d] <= head'
             /\ pc'[d] = "takeCas" => rt'[d] < rh'[d]
             /\ Taking(d)' => rt'[d] < rh'[d] /\ rh'[d] <= tail'
  <2>1. CASE d = c
    BY <2>1
  <2>2. CASE d # c
    BY <2>2 DEF Ownership, Taking
  <2> QED
    BY <2>1, <2>2
<1>4. ASSUME NEW d \in Consumers, NEW e \in Consumers \ {d},
             Taking(d)', Taking(e)'
      PROVE  rh'[d] <= rt'[e] \/ rh'[e] <= rt'[d]
  <2>1. CASE d = c
    BY <1>4, <2>1 DEF Taking
  <2>2. CASE e = c
    BY <1>4, <2>2 DEF Taking
  <2>3. CASE d # c /\ e # c
    BY <1>4, <2>3 DEF Ownership, Taking
  <2> QED
    BY <2>1, <2>2, <2>3
<1> QED
  BY <1>1, <1>2, <1>3, <1>4 DEF Ownership

\* Every step of Pop and BatchPop preserves Ownership.
LEMMA ConsumerOwnership ==
  ASSUME TypeOK, Ownership, NEW c \in Consumers,
         \/ ClaimStep(c)
         \/ c \in Batchers /\ BatchSwap(c)
         \/ c \in Poppers /\ (PopLoad(c) \/ PopClear(c))
  PROVE  Ownership'
<1>1. TypeOK'
  BY ConsumerType
<1>2. /\ head \in Nat /\ tail \in Nat /\ Cap \in Nat /\ c \in Threads
      /\ rh \in [Threads -> Nat] /\ rt \in [Threads -> Nat]
      /\ pc \in [Threads -> PushPcs \cup BatchPcs \cup {"popClear"}]
      /\ tail <= head
      /\ pc[c] \in {"takeTail", "takeCas"} => rh[c] <= head
      /\ pc[c] = "takeCas" => rt[c] < rh[c]
      /\ Taking(c) => rt[c] < rh[c] /\ rh[c] <= tail
      /\ \A d \in Consumers : rt[d] \in Nat /\ rh[d] \in Nat
      /\ \A d \in Consumers : Taking(d) => rh[d] <= tail
      /\ Taking(c) => \A d \in Consumers \ {c} :
           Taking(d) => rh[c] <= rt[d] \/ rh[d] <= rt[c]
  BY RingAssumption DEF Ownership, Bounded, TypeOK, Threads, Consumers
<1>3. ASSUME NEW m \in Wants(c), TakeLoadHead(c, m) PROVE Ownership'
  <2>1. ~Taking(c)' /\ pc'[c] = "takeTail" /\ rh'[c] = head
    BY <1>2, <1>3 DEF TakeLoadHead, Goto, Taking
  <2> QED
    BY <1>1, <1>2, <1>3, <2>1, ConsumerFrame DEF TakeLoadHead, Goto
<1>4. CASE TakeLoadTail(c)
  <2>1. ~Taking(c)' /\ (pc'[c] = "takeCas" => rt'[c] < rh'[c])
        /\ pc[c] = "takeTail"
    BY <1>2, <1>4 DEF TakeLoadTail, Goto, Taking
  <2> QED
    BY <1>1, <1>2, <1>4, <2>1, ConsumerFrame DEF TakeLoadTail, Goto
<1>5. CASE TakeCas(c)
  <2>1. CASE ClaimWon(c)
    <3>1. /\ rt[c] = tail /\ tail < ClaimEnd(c) /\ ClaimEnd(c) <= head
          /\ ClaimEnd(c) \in Nat
      BY <1>1, <1>2, <1>5, <2>1, ClaimEndType DEF TakeCas, ClaimWon
    <3>2. /\ pc'[c] = "takeSlot" /\ rh'[c] = ClaimEnd(c) /\ rt'[c] = tail
          /\ tail' = ClaimEnd(c)
      BY <1>2, <1>5, <2>1, <3>1 DEF TakeCas, Goto
    <3> QED
      BY <1>1, <1>2, <1>5, <2>1, <3>1, <3>2, ConsumerFrame DEF TakeCas, Goto
  <2>2. CASE ~ClaimWon(c)
    <3>1. ~Taking(c)' /\ pc'[c] = "takeHead" /\ tail' = tail
      BY <1>2, <1>5, <2>2 DEF TakeCas, Goto, Taking
    <3> QED
      BY <1>1, <1>2, <1>5, <2>2, <3>1, ConsumerFrame DEF TakeCas, Goto
  <2> QED
    BY <2>1, <2>2
<1>6. CASE c \in Batchers /\ BatchSwap(c)
  <2>1. /\ Taking(c) /\ rt'[c] = rt[c] + 1 /\ rh'[c] = rh[c]
        /\ pc'[c] \in {"idle", "takeSlot"}
        /\ Taking(c)' => rt[c] + 1 # rh[c]
    BY <1>2, <1>6 DEF BatchSwap, Goto, Taking
  <2> QED
    BY <1>1, <1>2, <1>6, <2>1, ConsumerFrame DEF BatchSwap, Goto
<1>7. CASE c \in Poppers /\ PopLoad(c)
  <2>1. Taking(c) /\ pc'[c] = "popClear"
    BY <1>2, <1>7 DEF PopLoad, Goto, Taking
  <2> QED
    BY <1>1, <1>2, <1>7, <2>1, ConsumerFrame DEF PopLoad, Goto
<1>8. CASE c \in Poppers /\ PopClear(c)
  <2>1. ~Taking(c)' /\ pc'[c] = "idle"
    BY <1>2, <1>8 DEF PopClear, Goto, Taking
  <2> QED
    BY <1>1, <1>2, <1>8, <2>1, ConsumerFrame DEF PopClear, Goto
<1> QED
  BY <1>3, <1>4, <1>5, <1>6, <1>7, <1>8 DEF ClaimStep

\* Ownership holds at every step, for any number of concurrent calls.
LEMMA OwnershipInvariant == Spec => []Ownership
<1>1. Init => Ownership
  BY OwnershipInit
<1>2. TypeOK /\ Ownership /\ [Next]_vars => Ownership'
  <2>1. CASE UNCHANGED vars
    BY <2>1 DEF vars, Ownership, Bounded, Writing, Taking
  <2>2. CASE Next
    BY <2>2, PushOwnership, ConsumerOwnership DEF Next, Consumers
  <2> QED
    BY <2>1, <2>2
<1> QED
  BY <1>1, <1>2, TypeCorrect, PTL DEF Spec

\* The counters never pass each other nor drift further apart than the
\* capacity, and compare-and-swap gives exclusive ownership of positions:
\* for any number of concurrent Push, Pop and BatchPop calls.
THEOREM ClaimsExclusive == Spec => [](Bounded /\ ClaimsDisjoint)
  BY TypeCorrect, OwnershipInvariant, OwnershipSafe, PTL

-----------------------------------------------------------------------------
(* AtMostOnce, for callers that use BatchPop: OnePlace is inductive.       *)

\* Every step of Push keeps each pointer in one place.
LEMMA PushOnePlace ==
  ASSUME TypeOK, OnePlace, NEW p \in Producers, PushStep(p)
  PROVE  OnePlace'
<1>0. pc \in [Threads -> PushPcs \cup BatchPcs \cup {"popClear"}]
      /\ p \in Threads /\ Producers \subseteq Threads
      /\ item \in [Threads -> Items \cup {NONE}]
      /\ buffer \in [Slots -> Items \cup {NONE}]
  BY DEF TypeOK, Threads
<1>1. ASSUME NEW it \in Items, PushLoadHead(p, it) PROVE OnePlace'
  <2>1. Stored' = Stored /\ Delivered' = Delivered
    BY <1>1 DEF PushLoadHead, Stored, Delivered
  <2>2. item'[p] = it /\ pc'[p] # "idle" /\ it \in offered'
        /\ \A q \in Producers \ {p} : item'[q] = item[q] /\ pc'[q] = pc[q]
    BY <1>0, <1>1 DEF PushLoadHead, Goto
  <2>3. it \notin offered \/ (pc[p] # "idle" /\ it = item[p])
    BY <1>1 DEF PushLoadHead
  <2>4. it \notin Stored \cup Delivered
        /\ \A q \in Producers \ {p} : pc[q] # "idle" => item[q] # it
    BY <2>3 DEF OnePlace
  <2>5. offered \subseteq offered'
    BY <1>1 DEF PushLoadHead
  <2>6. AtMostOnce'
    BY <1>1, <2>1 DEF PushLoadHead, OnePlace, AtMostOnce
  <2> QED
    BY <1>1, <2>1, <2>2, <2>4, <2>5, <2>6 DEF OnePlace, PushLoadHead
<1>2. CASE PushLoadTail(p) \/ PushCas(p) \/ PushWait(p)
  <2>1. UNCHANGED <<buffer, item, offered, out>> /\ pc[p] # "idle"
        /\ \A q \in Producers \ {p} : pc'[q] = pc[q]
    BY <1>0, <1>2 DEF PushLoadTail, PushCas, PushWait, Goto
  <2>2. Stored' = Stored /\ Delivered' = Delivered
    BY <2>1 DEF Stored, Delivered
  <2>3. AtMostOnce'
    BY <2>1, <2>2 DEF OnePlace, AtMostOnce
  <2> QED
    BY <2>1, <2>2, <2>3 DEF OnePlace
<1>3. CASE PushStore(p)
  <2>1. /\ pc[p] # "idle" /\ pc'[p] = "idle" /\ UNCHANGED <<item, offered, out>>
        /\ \A q \in Producers \ {p} : pc'[q] = pc[q]
    BY <1>0, <1>3 DEF PushStore, Goto
  <2>2. PICK s : buffer' = [buffer EXCEPT ![s] = item[p]]
    BY <1>3 DEF PushStore, Filled
  <2>3. Stored' \subseteq Stored \cup {item[p]} /\ Delivered' = Delivered
    BY <1>0, <2>1, <2>2 DEF Stored, Delivered
  <2>4. AtMostOnce'
    BY <2>1, <2>3 DEF OnePlace, AtMostOnce
  <2>5. ASSUME NEW q \in Producers, pc'[q] # "idle"
        PROVE  /\ item'[q] \in offered' /\ item'[q] \notin Stored' \cup Delivered'
               /\ \A r \in Producers \ {q} : pc'[r] # "idle" => item'[r] # item'[q]
    BY <2>1, <2>3, <2>5 DEF OnePlace
  <2>6. ASSUME NEW t \in Slots PROVE buffer[t] = NONE \/ buffer[t] \in Stored
    BY DEF Stored
  <2>7. \A t, u \in Slots : buffer'[t] # NONE /\ t # u => buffer'[t] # buffer'[u]
    BY <1>0, <2>1, <2>2, <2>6 DEF OnePlace
  <2> QED
    BY <2>1, <2>3, <2>4, <2>5, <2>7 DEF OnePlace
<1> QED
  BY <1>1, <1>2, <1>3 DEF PushStep

\* Claiming positions moves no pointer.
LEMMA ClaimOnePlace ==
  ASSUME TypeOK, OnePlace, NEW c \in Consumers, ClaimStep(c)
  PROVE  OnePlace'
<1>1. UNCHANGED <<buffer, item, offered, out>>
  BY DEF ClaimStep, TakeLoadHead, TakeLoadTail, TakeCas
<1>2. \A p \in Producers : pc'[p] = pc[p]
  BY RingAssumption
     DEF ClaimStep, TakeLoadHead, TakeLoadTail, TakeCas, Goto, TypeOK, Threads
<1>3. Stored' = Stored /\ Delivered' = Delivered
  BY <1>1 DEF Stored, Delivered
<1>4. AtMostOnce'
  BY <1>1, <1>3 DEF OnePlace, AtMostOnce
<1> QED
  BY <1>1, <1>2, <1>3, <1>4 DEF OnePlace

\* The swap of BatchPop moves a pointer from its slot to the history.
LEMMA SwapOnePlace ==
  ASSUME TypeOK, OnePlace, NEW c \in Batchers, BatchSwap(c)
  PROVE  OnePlace'
<1> DEFINE s == Slot(rt[c])
           it == buffer[s]
<1>1. /\ buffer \in [Slots -> Items \cup {NONE}] /\ s \in Slots
      /\ out \in Seq(Items) /\ it \in Items /\ it # NONE
  BY SlotInRange, RingAssumption
     DEF TypeOK, Threads, Consumers, BatchSwap, Full
<1>2. /\ buffer' = [buffer EXCEPT ![s] = NONE] /\ out' = Append(out, it)
      /\ UNCHANGED <<item, offered>>
      /\ \A p \in Producers : pc'[p] = pc[p]
  BY RingAssumption
     DEF BatchSwap, Emptied, Goto, TypeOK, Threads, Consumers
<1> HIDE DEF s, it
<1>3. it \in Stored /\ it \notin Delivered
  BY <1>1 DEF OnePlace, AtMostOnce, Stored, it
<1>4. Stored' \subseteq Stored \ {it}
  BY <1>1, <1>2 DEF OnePlace, Stored, it
<1>5. /\ Len(out') = Len(out) + 1 /\ out'[Len(out) + 1] = it
      /\ \A i \in 1 .. Len(out) : out'[i] = out[i]
      /\ Len(out) \in Nat
  BY <1>1, <1>2
<1>6. Delivered' = Delivered \cup {it}
  BY <1>5 DEF Delivered
<1>7. \A i, j \in 1 .. Len(out') : out'[i] = out'[j] => i = j
  <2>1. \A i \in 1 .. Len(out) : out[i] # it
    BY <1>3 DEF Delivered
  <2>2. \A i, j \in 1 .. Len(out) : out[i] = out[j] => i = j
    BY DEF OnePlace, AtMostOnce
  <2> QED
    BY <1>5, <2>1, <2>2
<1>8. AtMostOnce'
  BY <1>4, <1>6, <1>7 DEF OnePlace, AtMostOnce
<1>9. \A t, u \in Slots : buffer'[t] # NONE /\ t # u => buffer'[t] # buffer'[u]
  BY <1>1, <1>2 DEF OnePlace
<1>10. ASSUME NEW q \in Producers, pc'[q] # "idle"
       PROVE  /\ item'[q] \in offered' /\ item'[q] \notin Stored' \cup Delivered'
              /\ \A r \in Producers \ {q} : pc'[r] # "idle" => item'[r] # item'[q]
  BY <1>2, <1>3, <1>4, <1>6, <1>10 DEF OnePlace
<1>11. Stored' \cup Delivered' \subseteq offered'
  BY <1>2, <1>3, <1>4, <1>6 DEF OnePlace
<1> QED
  BY <1>8, <1>9, <1>10, <1>11 DEF OnePlace

\* With BatchPop only, every pointer is in one place at every step.
LEMMA OnePlaceInvariant ==
  ASSUME Poppers = {}
  PROVE  Spec => []OnePlace
<1>1. Init => OnePlace
  BY DEF Init, OnePlace, AtMostOnce, Stored, Delivered, Threads
<1>2. TypeOK /\ OnePlace /\ [Next]_vars => OnePlace'
  <2>1. CASE UNCHANGED vars
    BY <2>1 DEF vars, OnePlace, AtMostOnce, Stored, Delivered
  <2>2. CASE Next
    BY <2>2, PushOnePlace, ClaimOnePlace, SwapOnePlace DEF Next
  <2> QED
    BY <2>1, <2>2
<1> QED
  BY <1>1, <1>2, TypeCorrect, PTL DEF Spec

\* "each element is consumed only once" (ringbuffer.go:105) for any number of
\* producers and BatchPop consumers, laps included.  It needs Poppers = {}: Pop
\* clears the slot by a second operation, and can return a pointer twice.
THEOREM ConsumedOnce ==
  ASSUME Poppers = {}
  PROVE  Spec => []AtMostOnce
<1>1. OnePlace => AtMostOnce
  BY DEF OnePlace
<1> QED
  BY <1>1, OnePlaceInvariant, PTL

-----------------------------------------------------------------------------

(* Arithmetic of the slots ("& mask"). *)

\* A position is a number of laps and its slot.
LEMMA Laps ==
  ASSUME NEW a \in Int
  PROVE  \E k \in Int : a = Cap * k + Slot(a)
<1>1. a = Cap * (a \div Cap) + (a % Cap) /\ (a \div Cap) \in Int
  BY RingAssumption
<1> QED
  BY <1>1 DEF Slot

\* Two positions of one slot are at least a lap apart.
LEMMA SlotApart ==
  ASSUME NEW a \in Int, NEW b \in Int, Slot(a) = Slot(b), a < b
  PROVE  a + Cap <= b
<1>1. PICK k \in Int : a = Cap * k + Slot(a)
  BY Laps
<1>2. PICK m \in Int : b = Cap * m + Slot(b)
  BY Laps
<1>3. Slot(a) \in Int /\ Cap \in Nat \ {0}
  BY RingAssumption, SlotInRange DEF Slots
<1>4. k < m
  BY <1>1, <1>2, <1>3
<1>5. Cap * (m - k) >= Cap /\ Cap * m - Cap * k = Cap * (m - k)
  BY <1>3, <1>4
<1> QED
  BY <1>1, <1>2, <1>3, <1>5

\* A lap later it is the same slot.
LEMMA SlotNext ==
  ASSUME NEW a \in Int
  PROVE  Slot(a + Cap) = Slot(a)
<1>1. Cap \in Nat \ {0} /\ a + Cap \in Int
  BY RingAssumption
<1>2. PICK k \in Int : a = Cap * k + Slot(a)
  BY Laps
<1>3. PICK m \in Int : a + Cap = Cap * m + Slot(a + Cap)
  BY <1>1, Laps
<1>4. Slot(a) \in 0 .. Cap - 1 /\ Slot(a + Cap) \in 0 .. Cap - 1
  BY <1>1, SlotInRange DEF Slots
<1> DEFINE d == k + 1 - m
<1>5. Cap * d = (Cap * k + Cap) - Cap * m /\ d \in Int
  BY <1>1
<1> HIDE DEF d
<1>6. Cap * k \in Int /\ Cap * m \in Int /\ Slot(a) \in Int /\ Slot(a + Cap) \in Int
  BY <1>1, <1>4
<1>7. Cap * d = Slot(a + Cap) - Slot(a)
  BY <1>1, <1>2, <1>3, <1>5, <1>6
<1>8. d < 1
  <2> SUFFICES ASSUME d >= 1 PROVE FALSE
    BY <1>5
  <2>1. Cap * d >= Cap
    BY <1>1, <1>5
  <2> QED
    BY <1>1, <1>4, <1>7, <2>1
<1>9. d > -1
  <2> SUFFICES ASSUME d <= -1 PROVE FALSE
    BY <1>5
  <2>1. Cap * d <= -Cap
    BY <1>1, <1>5
  <2> QED
    BY <1>1, <1>4, <1>7, <2>1
<1>10. d = 0
  BY <1>5, <1>8, <1>9
<1> QED
  BY <1>1, <1>4, <1>7, <1>10

-----------------------------------------------------------------------------
(* A buffer b whose full slots are those of the positions r .. w - 1.      *)

Holds(b, r, w) ==
  /\ r <= w /\ w <= r + Cap
  /\ \A n \in r .. w - 1 : b[Slot(n)] # NONE
  /\ \A s \in Slots : b[s] # NONE => \E n \in r .. w - 1 : Slot(n) = s

QueueOf(b, r, w) == [i \in 1 .. w - r |-> b[Slot(r + i - 1)]]

Buffers == [Slots -> Items \cup {NONE}]

\* The positions hold a sequence of items.
LEMMA QueueType ==
  ASSUME NEW b \in Buffers, NEW r \in Nat, NEW w \in Nat, Holds(b, r, w)
  PROVE  /\ QueueOf(b, r, w) \in Seq(Items)
         /\ Len(QueueOf(b, r, w)) = w - r /\ w - r \in Nat
         /\ \A i \in 1 .. w - r : QueueOf(b, r, w)[i] = b[Slot(r + i - 1)]
<1>1. w - r \in Nat
  BY DEF Holds
<1>2. ASSUME NEW i \in 1 .. w - r PROVE b[Slot(r + i - 1)] \in Items
  <2>1. r + i - 1 \in r .. w - 1 /\ r + i - 1 \in Int
    BY <1>1
  <2>2. Slot(r + i - 1) \in Slots
    BY <2>1, SlotInRange
  <2> QED
    BY <2>1, <2>2 DEF Holds, Buffers
<1>3. QueueOf(b, r, w) \in [1 .. w - r -> Items]
  BY <1>2 DEF QueueOf
<1> QED
  BY <1>1, <1>3 DEF QueueOf

\* Two sequences of one length with the same elements are equal.
LEMMA SameItems ==
  ASSUME NEW s \in Seq(Items), NEW t \in Seq(Items), Len(s) = Len(t),
         \A i \in 1 .. Len(s) : s[i] = t[i]
  PROVE  s = t
  OBVIOUS

\* A store into the free slot of position w appends.
LEMMA PutHolds ==
  ASSUME NEW b \in Buffers, NEW r \in Nat, NEW w \in Nat, Holds(b, r, w),
         NEW it \in Items, b[Slot(w)] = NONE
  PROVE  LET d == [b EXCEPT ![Slot(w)] = it]
         IN  /\ Holds(d, r, w + 1)
             /\ QueueOf(d, r, w + 1) = Append(QueueOf(b, r, w), it)
<1> DEFINE d == [b EXCEPT ![Slot(w)] = it]
<1>1. Slot(w) \in Slots /\ Cap \in Nat \ {0} /\ it # NONE
  BY SlotInRange, RingAssumption
<1>2. d \in Buffers /\ d[Slot(w)] = it
      /\ \A s \in Slots : s # Slot(w) => d[s] = b[s]
  BY <1>1 DEF Buffers
<1> HIDE DEF d
<1>3. \A n \in r .. w - 1 : Slot(n) \in Slots /\ Slot(n) # Slot(w)
  BY SlotInRange DEF Holds
<1>4. w < r + Cap
  <2> SUFFICES ASSUME w = r + Cap PROVE FALSE
    BY <1>1 DEF Holds
  <2>1. Slot(w) = Slot(r)
    BY SlotNext
  <2>2. r \in r .. w - 1
    BY <1>1
  <2> QED
    BY <1>3, <2>1, <2>2
<1>5. Holds(d, r, w + 1)
  <2>1. r <= w + 1 /\ w + 1 <= r + Cap
    BY <1>1, <1>4 DEF Holds
  <2>2. \A n \in r .. (w + 1) - 1 : n = w \/ n \in r .. w - 1
    OBVIOUS
  <2>3. \A n \in r .. (w + 1) - 1 : d[Slot(n)] # NONE
    BY <1>1, <1>2, <1>3, <2>2 DEF Holds
  <2>4. w \in r .. (w + 1) - 1 /\ \A n \in r .. w - 1 : n \in r .. (w + 1) - 1
    BY DEF Holds
  <2>5. \A s \in Slots : d[s] # NONE => \E n \in r .. (w + 1) - 1 : Slot(n) = s
    BY <1>2, <2>4 DEF Holds
  <2> QED
    BY <2>1, <2>3, <2>5 DEF Holds
<1>6. QueueOf(d, r, w + 1) = Append(QueueOf(b, r, w), it)
  <2> DEFINE q == QueueOf(b, r, w)
             z == QueueOf(d, r, w + 1)
  <2>1. q \in Seq(Items) /\ Len(q) = w - r /\ w - r \in Nat
        /\ \A i \in 1 .. w - r : q[i] = b[Slot(r + i - 1)]
    BY QueueType
  <2>2. z \in Seq(Items) /\ Len(z) = (w + 1) - r
        /\ \A i \in 1 .. (w + 1) - r : z[i] = d[Slot(r + i - 1)]
    BY <1>2, <1>5, QueueType
  <2> HIDE DEF q, z
  <2>3. /\ Append(q, it) \in Seq(Items) /\ Len(Append(q, it)) = (w - r) + 1
        /\ Append(q, it)[(w - r) + 1] = it
        /\ \A i \in 1 .. w - r : Append(q, it)[i] = q[i]
    BY <2>1
  <2>4. ASSUME NEW i \in 1 .. Len(z) PROVE z[i] = Append(q, it)[i]
    <3>1. CASE i \in 1 .. w - r
      <4>1. r + i - 1 \in r .. w - 1
        BY <3>1
      <4>2. d[Slot(r + i - 1)] = b[Slot(r + i - 1)]
        BY <1>2, <1>3, <4>1
      <4> QED
        BY <2>1, <2>2, <2>3, <3>1, <4>2
    <3>2. CASE i = (w - r) + 1
      <4>1. r + i - 1 = w
        BY <3>2
      <4> QED
        BY <1>2, <2>2, <2>3, <3>2, <4>1
    <3> QED
      BY <2>1, <2>2, <3>1, <3>2
  <2>5. Len(z) = Len(Append(q, it))
    BY <2>1, <2>2, <2>3
  <2>6. z = Append(q, it)
    BY <2>2, <2>3, <2>4, <2>5, SameItems
  <2> QED
    BY <2>6 DEF q, z
<1> QED
  BY <1>5, <1>6 DEF d

\* Emptying the full slot of position r takes the first item.
LEMMA TakeHolds ==
  ASSUME NEW b \in Buffers, NEW r \in Nat, NEW w \in Nat, Holds(b, r, w),
         b[Slot(r)] # NONE
  PROVE  LET d == [b EXCEPT ![Slot(r)] = NONE]
         IN  /\ Holds(d, r + 1, w)
             /\ QueueOf(b, r, w) # <<>> /\ Head(QueueOf(b, r, w)) = b[Slot(r)]
             /\ QueueOf(d, r + 1, w) = Tail(QueueOf(b, r, w))
<1> DEFINE d == [b EXCEPT ![Slot(r)] = NONE]
<1>1. Slot(r) \in Slots /\ Cap \in Nat \ {0}
  BY SlotInRange, RingAssumption
<1>2. d \in Buffers /\ d[Slot(r)] = NONE
      /\ \A s \in Slots : s # Slot(r) => d[s] = b[s]
  BY <1>1 DEF Buffers
<1> HIDE DEF d
<1>3. r + 1 <= w
  <2>1. \E n \in r .. w - 1 : Slot(n) = Slot(r)
    BY <1>1 DEF Holds
  <2> QED
    BY <2>1
<1>4. ASSUME NEW n \in r + 1 .. w - 1
      PROVE  Slot(n) \in Slots /\ Slot(n) # Slot(r)
  <2>1. n \in Int /\ r < n /\ ~(r + Cap <= n)
    BY <1>1 DEF Holds
  <2> QED
    BY <2>1, SlotInRange, SlotApart
<1>5. Holds(d, r + 1, w)
  <2>1. r + 1 <= w /\ w <= r + 1 + Cap
    BY <1>1, <1>3 DEF Holds
  <2>2. \A n \in r + 1 .. w - 1 : n \in r .. w - 1
    OBVIOUS
  <2>3. \A n \in r + 1 .. w - 1 : d[Slot(n)] # NONE
    BY <1>2, <1>4, <2>2 DEF Holds
  <2>4. ASSUME NEW s \in Slots, d[s] # NONE
        PROVE  \E n \in r + 1 .. w - 1 : Slot(n) = s
    <3>1. s # Slot(r) /\ b[s] # NONE
      BY <1>2, <2>4
    <3>2. PICK n \in r .. w - 1 : Slot(n) = s
      BY <3>1 DEF Holds
    <3> QED
      BY <3>1, <3>2
  <2> QED
    BY <2>1, <2>3, <2>4 DEF Holds
<1> DEFINE q == QueueOf(b, r, w)
           z == QueueOf(d, r + 1, w)
<1>6. q \in Seq(Items) /\ Len(q) = w - r /\ w - r \in Nat
      /\ \A i \in 1 .. w - r : q[i] = b[Slot(r + i - 1)]
  BY QueueType
<1>7. z \in Seq(Items) /\ Len(z) = w - (r + 1)
      /\ \A i \in 1 .. w - (r + 1) : z[i] = d[Slot((r + 1) + i - 1)]
  BY <1>2, <1>5, QueueType
<1> HIDE DEF q, z
<1>8. 1 \in 1 .. w - r /\ r + 1 - 1 = r
  BY <1>3
<1>9. q # <<>> /\ Head(q) = q[1] /\ q[1] = b[Slot(r)]
  BY <1>6, <1>8
<1>10. Tail(q) \in Seq(Items) /\ Len(Tail(q)) = (w - r) - 1
       /\ \A i \in 1 .. (w - r) - 1 : Tail(q)[i] = q[i + 1]
  BY <1>6, <1>9
<1>11. ASSUME NEW i \in 1 .. Len(z) PROVE z[i] = Tail(q)[i]
  <2>1. i + 1 \in 1 .. w - r /\ (r + 1) + i - 1 = r + (i + 1) - 1
        /\ (r + 1) + i - 1 \in r + 1 .. w - 1 /\ i \in 1 .. (w - r) - 1
    BY <1>6, <1>7
  <2>2. d[Slot((r + 1) + i - 1)] = b[Slot((r + 1) + i - 1)]
    BY <1>2, <1>4, <2>1
  <2> QED
    BY <1>6, <1>7, <1>10, <2>1, <2>2
<1>12. Len(z) = Len(Tail(q))
  BY <1>6, <1>7, <1>10
<1>13. z = Tail(q)
  BY <1>7, <1>10, <1>11, <1>12, SameItems
<1> QED
  BY <1>5, <1>9, <1>13 DEF d, q, z

-----------------------------------------------------------------------------
(* One producer p and one consumer c.  The consumer has emptied what is    *)
(* below Taken(c), the producer has filled what is below Stocked(p).       *)

Taken(c) == IF Taking(c) THEN rt[c] ELSE tail

Stocked(p) == IF Writing(p) THEN head - 1 ELSE head

\* With one thread of each kind these are the ends of the queue.
LEMMA FrontBack ==
  ASSUME NEW p, Producers = {p}, NEW c, Consumers = {c}
  PROVE  /\ Front = Taken(c) /\ Front' = Taken(c)'
         /\ Back = Stocked(p) /\ Back' = Stocked(p)'
  BY DEF Front, Back, Taken, Stocked

\* The registers are as good as the counters, as nobody else moves them, and
\* the full slots are those between Taken and Stocked.
Alone(p, c) ==
  /\ Writing(p) => rh[p] = head - 1 /\ head > 0
  /\ pc[p] = "pushStore" => buffer[Slot(rh[p])] = NONE
  /\ Taking(c) => rt[c] < rh[c] /\ rh[c] = tail
  /\ pc[c] = "popClear" => item[c] = buffer[Slot(rt[c])]
  /\ c \in Poppers => want[c] = 1 /\ (Taking(c) => rh[c] = rt[c] + 1)
  /\ Holds(buffer, Taken(c), Stocked(p))

\* The steps that move no item.
Quiet(p, c) ==
  /\ buffer' = buffer /\ out' = out
  /\ Taken(c)' = Taken(c) /\ Stocked(p)' = Stocked(p)

\* What the types say of the two threads.
LEMMA PairTypes ==
  ASSUME TypeOK, NEW p, Producers = {p}, NEW c, Consumers = {c}
  PROVE  /\ p \in Threads /\ c \in Threads /\ p # c /\ Threads = {p, c}
         /\ p \in Producers /\ c \in Consumers
         /\ head \in Nat /\ tail \in Nat /\ buffer \in Buffers
         /\ rh[p] \in Nat /\ rt[p] \in Nat /\ rh[c] \in Nat /\ rt[c] \in Nat
         /\ pc \in [Threads -> PushPcs \cup BatchPcs \cup {"popClear"}]
         /\ pc[p] \in PushPcs /\ pc[c] \in BatchPcs \cup {"popClear"}
  BY RingAssumption DEF TypeOK, Threads, Consumers, Buffers

\* A step of Push is quiet, or puts its item at the end of the queue.
LEMMA PushAlone ==
  ASSUME TypeOK, Ownership, NEW p, Producers = {p}, NEW c, Consumers = {c},
         Alone(p, c), PushStep(p)
  PROVE  /\ Alone(p, c)'
         /\ \/ Quiet(p, c)
            \/ /\ item[p] \in Items
               /\ QueueOf(buffer', Taken(c)', Stocked(p)') =
                    Append(QueueOf(buffer, Taken(c), Stocked(p)), item[p])
               /\ out' = out
<1>0. /\ p \in Threads /\ c \in Threads /\ p # c /\ Threads = {p, c}
      /\ p \in Producers /\ c \in Consumers
      /\ head \in Nat /\ tail \in Nat /\ buffer \in Buffers
      /\ rh[p] \in Nat /\ rt[p] \in Nat /\ rh[c] \in Nat /\ rt[c] \in Nat
      /\ pc \in [Threads -> PushPcs \cup BatchPcs \cup {"popClear"}]
      /\ pc[p] \in PushPcs /\ pc[c] \in BatchPcs \cup {"popClear"}
  BY PairTypes
<1>1. /\ pc'[c] = pc[c] /\ rh'[c] = rh[c] /\ rt'[c] = rt[c] /\ item'[c] = item[c]
      /\ want' = want /\ tail' = tail
  BY <1>0 DEF PushStep, PushLoadHead, PushLoadTail, PushCas, PushWait, PushStore,
              Goto, TypeOK
<1>2. Taken(c)' = Taken(c) /\ (Taking(c)' <=> Taking(c))
  BY <1>1 DEF Taken, Taking
<1>3. CASE PushStore(p)
  <2>1. /\ pc[p] = "pushStore" /\ pc'[p] = "idle" /\ head' = head /\ out' = out
        /\ buffer' = [buffer EXCEPT ![Slot(rh[p])] = item[p]]
    BY <1>0, <1>3 DEF PushStore, Goto, Filled
  <2>2. rh[p] = head - 1 /\ head > 0 /\ buffer[Slot(rh[p])] = NONE
    BY <2>1 DEF Alone, Writing
  <2>3. Stocked(p) = rh[p] /\ Stocked(p)' = rh[p] + 1
    BY <1>0, <2>1, <2>2 DEF Stocked, Writing
  <2>4. item[p] \in Items
    BY <1>0, <2>1 DEF TypeOK
  <2>5. Taken(c) \in Nat /\ Holds(buffer, Taken(c), rh[p])
    BY <1>0, <2>3 DEF Taken, Alone
  <2>6. /\ Holds(buffer', Taken(c), rh[p] + 1)
        /\ QueueOf(buffer', Taken(c), rh[p] + 1) =
             Append(QueueOf(buffer, Taken(c), rh[p]), item[p])
    BY <1>0, <2>1, <2>2, <2>4, <2>5, PutHolds
  <2>7. pc[c] = "popClear" => buffer'[Slot(rt[c])] = buffer[Slot(rt[c])]
    <3> SUFFICES ASSUME pc[c] = "popClear"
                 PROVE  buffer'[Slot(rt[c])] = buffer[Slot(rt[c])]
      OBVIOUS
    <3>1. c \in Poppers /\ item[c] \in Items /\ item[c] # NONE
      BY <1>0, RingAssumption DEF TypeOK, Consumers, BatchPcs
    <3>2. buffer[Slot(rt[c])] # buffer[Slot(rh[p])]
      BY <2>2, <3>1 DEF Alone
    <3>3. Slot(rt[c]) \in Slots /\ Slot(rh[p]) \in Slots
      BY <1>0, SlotInRange
    <3> QED
      BY <1>0, <2>1, <3>2, <3>3 DEF Buffers
  <2>8. Alone(p, c)'
    BY <1>1, <1>2, <2>1, <2>3, <2>6, <2>7 DEF Alone, Writing
  <2> QED
    BY <1>2, <2>1, <2>3, <2>4, <2>6, <2>8
<1>4. CASE \/ \E it \in Items : PushLoadHead(p, it)
           \/ PushLoadTail(p) \/ PushCas(p) \/ PushWait(p)
  <2>1. buffer' = buffer /\ out' = out
    BY <1>4 DEF PushLoadHead, PushLoadTail, PushCas, PushWait
  <2> DEFINE Kept == /\ Stocked(p)' = Stocked(p)
                     /\ Writing(p)' => rh'[p] = head' - 1 /\ head' > 0
                     /\ pc'[p] = "pushStore" => buffer[Slot(rh'[p])] = NONE
  <2>2. Kept
    <3>1. ASSUME NEW it \in Items, PushLoadHead(p, it) PROVE Kept
      BY <1>0, <3>1 DEF PushLoadHead, Goto, Stocked, Writing
    <3>2. CASE PushLoadTail(p)
      BY <1>0, <3>2 DEF PushLoadTail, Goto, Stocked, Writing
    <3>3. CASE PushCas(p)
      BY <1>0, <3>3 DEF PushCas, HeadWon, Goto, Stocked, Writing
    <3>4. CASE PushWait(p)
      <4>1. pc[p] = "pushWait" /\ pc'[p] = "pushStore" /\ head' = head /\ rh' = rh
            /\ buffer[Slot(rh[p])] = NONE
        BY <1>0, <3>4 DEF PushWait, Goto, SlotFree
      <4> QED
        BY <4>1 DEF Stocked, Writing, Alone
    <3> QED
      BY <1>4, <3>1, <3>2, <3>3, <3>4
  <2>3. Alone(p, c)'
    BY <1>1, <1>2, <2>1, <2>2 DEF Alone
  <2> QED
    BY <1>2, <2>1, <2>2, <2>3 DEF Quiet
<1> QED
  BY <1>3, <1>4 DEF PushStep

\* A step of Pop or BatchPop is quiet, or takes the first item of the queue.
LEMMA TakeAlone ==
  ASSUME TypeOK, Ownership, NEW p, Producers = {p}, NEW c, Consumers = {c},
         Alone(p, c),
         \/ ClaimStep(c)
         \/ c \in Batchers /\ BatchSwap(c)
         \/ c \in Poppers /\ (PopLoad(c) \/ PopClear(c))
  PROVE  /\ Alone(p, c)'
         /\ \/ Quiet(p, c)
            \/ /\ QueueOf(buffer, Taken(c), Stocked(p)) # <<>>
               /\ QueueOf(buffer', Taken(c)', Stocked(p)') =
                    Tail(QueueOf(buffer, Taken(c), Stocked(p)))
               /\ out' = Append(out, Head(QueueOf(buffer, Taken(c), Stocked(p))))
<1>0. /\ p \in Threads /\ c \in Threads /\ p # c /\ Threads = {p, c}
      /\ p \in Producers /\ c \in Consumers
      /\ head \in Nat /\ tail \in Nat /\ buffer \in Buffers
      /\ rh[p] \in Nat /\ rt[p] \in Nat /\ rh[c] \in Nat /\ rt[c] \in Nat
      /\ pc \in [Threads -> PushPcs \cup BatchPcs \cup {"popClear"}]
      /\ pc[p] \in PushPcs /\ pc[c] \in BatchPcs \cup {"popClear"}
  BY PairTypes
<1>1. pc'[p] = pc[p] /\ rh'[p] = rh[p] /\ head' = head
  BY <1>0 DEF ClaimStep, TakeLoadHead, TakeLoadTail, TakeCas, BatchSwap, PopLoad,
              PopClear, Goto, TypeOK
<1>2. Stocked(p)' = Stocked(p) /\ (Writing(p)' <=> Writing(p)) /\ Stocked(p) \in Nat
  BY <1>0, <1>1 DEF Stocked, Writing, Alone
<1>3. CASE ClaimStep(c)
  <2>1. buffer' = buffer /\ out' = out
    BY <1>3 DEF ClaimStep, TakeLoadHead, TakeLoadTail, TakeCas
  <2> DEFINE Kept ==
        /\ Taken(c)' = Taken(c)
        /\ Taking(c)' => rt'[c] < rh'[c] /\ rh'[c] = tail'
        /\ pc'[c] # "popClear"
        /\ c \in Poppers => want'[c] = 1 /\ (Taking(c)' => rh'[c] = rt'[c] + 1)
  <2>2. Kept
    <3>1. ASSUME NEW m \in Wants(c), TakeLoadHead(c, m) PROVE Kept
      <4>1. pc[c] \in {"idle", "takeHead"} /\ pc'[c] = "takeTail" /\ tail' = tail
            /\ want'[c] = m
        BY <1>0, <3>1 DEF TakeLoadHead, Goto, TypeOK
      <4>2. c \in Poppers => m = 1
        BY DEF Wants
      <4> QED
        BY <4>1, <4>2 DEF Taken, Taking
    <3>2. CASE TakeLoadTail(c)
      <4>1. pc[c] = "takeTail" /\ pc'[c] \in {"idle", "takeCas"} /\ tail' = tail
            /\ want' = want
        BY <1>0, <3>2 DEF TakeLoadTail, Goto
      <4> QED
        BY <4>1 DEF Taken, Taking, Alone
    <3>3. CASE TakeCas(c)
      <4>1. pc[c] = "takeCas" /\ want' = want /\ rt' = rt /\ rt[c] < rh[c]
        BY <1>0, <3>3 DEF TakeCas, Ownership
      <4>2. CASE ClaimWon(c)
        <5>1. pc'[c] = "takeSlot" /\ tail' = ClaimEnd(c) /\ rh'[c] = ClaimEnd(c)
              /\ tail = rt[c]
          BY <1>0, <3>3, <4>2 DEF TakeCas, ClaimWon, Goto, TypeOK
        <5>2. rt[c] < ClaimEnd(c)
          BY <1>0, <4>1, ClaimEndType
        <5>3. c \in Poppers => ClaimEnd(c) = rt[c] + 1
          BY <1>0, <4>1 DEF ClaimEnd, Alone
        <5> QED
          BY <4>1, <5>1, <5>2, <5>3 DEF Taken, Taking, Alone
      <4>3. CASE ~ClaimWon(c)
        <5>1. pc'[c] = "takeHead" /\ tail' = tail
          BY <1>0, <3>3, <4>3 DEF TakeCas, Goto
        <5> QED
          BY <4>1, <5>1 DEF Taken, Taking, Alone
      <4> QED
        BY <4>2, <4>3
    <3> QED
      BY <1>3, <3>1, <3>2, <3>3 DEF ClaimStep
  <2>3. Alone(p, c)'
    BY <1>1, <1>2, <2>1, <2>2 DEF Alone
  <2> QED
    BY <1>2, <2>1, <2>2, <2>3 DEF Quiet
<1>4. CASE c \in Poppers /\ PopLoad(c)
  <2>1. /\ pc[c] = "takeSlot" /\ pc'[c] = "popClear" /\ item'[c] = buffer[Slot(rt[c])]
        /\ UNCHANGED <<buffer, out, rt, rh, tail, want>>
    BY <1>0, <1>4 DEF PopLoad, Goto, TypeOK
  <2>2. Taken(c)' = Taken(c) /\ Taking(c) /\ Taking(c)'
    BY <2>1 DEF Taken, Taking
  <2>3. Alone(p, c)'
    BY <1>1, <1>2, <2>1, <2>2 DEF Alone
  <2> QED
    BY <1>2, <2>1, <2>2, <2>3 DEF Quiet
<1>5. CASE \/ c \in Batchers /\ BatchSwap(c)
           \/ c \in Poppers /\ PopClear(c)
  <2>1. Taking(c) /\ Taken(c) = rt[c] /\ rt[c] < rh[c] /\ rh[c] = tail
    BY <1>5 DEF BatchSwap, PopClear, Taken, Taking, Alone
  <2>2. /\ buffer' = [buffer EXCEPT ![Slot(rt[c])] = NONE]
        /\ rt'[c] = rt[c] + 1 /\ rh' = rh /\ tail' = tail /\ want' = want
    BY <1>0, <1>5 DEF BatchSwap, PopClear, Emptied, TypeOK
  <2>3. out' = Append(out, buffer[Slot(rt[c])]) /\ buffer[Slot(rt[c])] # NONE
    <3>1. CASE c \in Batchers /\ BatchSwap(c)
      BY <3>1 DEF BatchSwap, Full
    <3>2. CASE c \in Poppers /\ PopClear(c)
      <4>1. pc[c] = "popClear" /\ out' = Append(out, item[c])
        BY <3>2 DEF PopClear
      <4>2. item[c] \in Items /\ item[c] # NONE
        BY <3>2, <4>1, RingAssumption DEF TypeOK
      <4> QED
        BY <4>1, <4>2 DEF Alone
    <3> QED
      BY <1>5, <3>1, <3>2
  <2>4. /\ \/ pc'[c] = "idle" /\ rt[c] + 1 = rh[c]
           \/ pc'[c] = "takeSlot" /\ rt[c] + 1 # rh[c]
        /\ c \in Poppers => pc'[c] = "idle"
    <3>1. CASE c \in Batchers /\ BatchSwap(c)
      BY <1>0, <3>1, RingAssumption DEF BatchSwap, Goto
    <3>2. CASE c \in Poppers /\ PopClear(c)
      BY <1>0, <2>1, <3>2 DEF PopClear, Goto, Alone
    <3> QED
      BY <1>5, <3>1, <3>2
  <2>5. Taken(c)' = rt[c] + 1
    BY <1>0, <2>1, <2>2, <2>4 DEF Taken, Taking
  <2>6. /\ Taking(c)' => rt'[c] < rh'[c] /\ rh'[c] = tail'
        /\ pc'[c] # "popClear" /\ (c \in Poppers => ~Taking(c)')
    BY <1>0, <2>1, <2>2, <2>4 DEF Taking
  <2>7. Holds(buffer, rt[c], Stocked(p))
    BY <2>1 DEF Alone
  <2>8. /\ Holds(buffer', rt[c] + 1, Stocked(p))
        /\ QueueOf(buffer, rt[c], Stocked(p)) # <<>>
        /\ Head(QueueOf(buffer, rt[c], Stocked(p))) = buffer[Slot(rt[c])]
        /\ QueueOf(buffer', rt[c] + 1, Stocked(p)) =
             Tail(QueueOf(buffer, rt[c], Stocked(p)))
    BY <1>0, <1>2, <2>2, <2>3, <2>7, TakeHolds
  <2>9. pc'[p] = "pushStore" => buffer'[Slot(rh'[p])] = NONE
    <3>1. Slot(rh[p]) \in Slots /\ Slot(rt[c]) \in Slots
      BY <1>0, SlotInRange
    <3> QED
      BY <1>0, <1>1, <2>2, <3>1 DEF Alone, Buffers
  <2>10. Alone(p, c)'
    BY <1>1, <1>2, <2>2, <2>5, <2>6, <2>8, <2>9 DEF Alone
  <2> QED
    BY <1>2, <2>1, <2>3, <2>5, <2>8, <2>10
<1> QED
  BY <1>3, <1>4, <1>5

\* With one producer and one consumer (Pop or BatchPop) the ring is a first-in
\* first-out queue: each step of Push and of the consumer puts one item at its
\* end, takes the one at its front, or changes nothing of it.
THEOREM RingIsFifo ==
  ASSUME NEW p, Producers = {p}, NEW c, Consumers = {c}
  PROVE  Spec => ImplementsFifo
<1> DEFINE q == QueueOf(buffer, Taken(c), Stocked(p))
<1>1. Init => Alone(p, c) /\ Fifo!Init
  <2> SUFFICES ASSUME Init PROVE Alone(p, c) /\ Fifo!Init
    OBVIOUS
  <2>1. p \in Threads /\ c \in Consumers /\ c \in Threads /\ Cap \in Nat \ {0}
    BY RingAssumption DEF Threads
  <2>2. ~Writing(p) /\ ~Taking(c) /\ pc[p] = "idle" /\ pc[c] = "idle" /\ want[c] = 1
        /\ head = 0 /\ tail = 0 /\ out = <<>> /\ \A s \in Slots : buffer[s] = NONE
    BY <2>1 DEF Init, Writing, Taking
  <2>3. Taken(c) = 0 /\ Stocked(p) = 0
    BY <2>2 DEF Taken, Stocked
  <2>4. Holds(buffer, 0, 0)
    BY <2>1, <2>2 DEF Holds
  <2>5. Alone(p, c)
    BY <2>2, <2>3, <2>4 DEF Alone
  <2>6. Front = 0 /\ Back = 0
    BY <2>3, FrontBack
  <2>7. [i \in 1 .. Back - Front |-> buffer[Slot(Front + i - 1)]] = <<>>
    BY <2>6
  <2> QED
    BY <2>2, <2>5, <2>7 DEF Fifo!Init
<1>2. TypeOK /\ Ownership /\ Alone(p, c) /\ [Next]_vars
        => Alone(p, c)' /\ [Fifo!Next]_(Fifo!vars)
  <2> SUFFICES ASSUME TypeOK, Ownership, Alone(p, c), [Next]_vars
               PROVE  Alone(p, c)' /\ [Fifo!Next]_(Fifo!vars)
    OBVIOUS
  <2>1. /\ [i \in 1 .. Back - Front |-> buffer[Slot(Front + i - 1)]] = q
        /\ [i \in 1 .. Back - Front |-> buffer[Slot(Front + i - 1)]]' = q'
    BY FrontBack DEF QueueOf
  <2>2. ASSUME Quiet(p, c)
        PROVE  [Fifo!Next]_(Fifo!vars)
    BY <2>1, <2>2 DEF Quiet, Fifo!vars
  <2>3. CASE UNCHANGED vars
    <3>1. Alone(p, c)' /\ Quiet(p, c)
      BY <2>3 DEF vars, Alone, Quiet, Taken, Stocked, Writing, Taking, Holds
    <3> QED
      BY <2>2, <3>1
  <2>4. CASE PushStep(p)
    <3>1. Alone(p, c)'
      BY <2>4, PushAlone
    <3>2. CASE Quiet(p, c)
      BY <2>2, <3>1, <3>2
    <3>3. CASE item[p] \in Items /\ q' = Append(q, item[p]) /\ out' = out
      BY <2>1, <3>1, <3>3 DEF Fifo!Next, Fifo!Put
    <3> QED
      BY <2>4, <3>2, <3>3, PushAlone
  <2>5. CASE \/ ClaimStep(c)
             \/ c \in Batchers /\ BatchSwap(c)
             \/ c \in Poppers /\ (PopLoad(c) \/ PopClear(c))
    <3>1. Alone(p, c)'
      BY <2>5, TakeAlone
    <3>2. CASE Quiet(p, c)
      BY <2>2, <3>1, <3>2
    <3>3. CASE q # <<>> /\ q' = Tail(q) /\ out' = Append(out, Head(q))
      BY <2>1, <3>1, <3>3 DEF Fifo!Next, Fifo!Take
    <3> QED
      BY <2>5, <3>2, <3>3, TakeAlone
  <2> QED
    BY <2>3, <2>4, <2>5 DEF Next, Consumers
<1>3. Spec => []Ownership
  BY OwnershipInvariant
<1> QED
  BY <1>1, <1>2, <1>3, TypeCorrect, PTL DEF Spec, ImplementsFifo, Fifo!Spec

-----------------------------------------------------------------------------
(* One producer p and any number of BatchPop callers.  The slot in which p *)
(* is about to store was free when it looked, and only p could fill it.    *)

SoleProducer(p) ==
  /\ pc[p] = "pushStore" => buffer[Slot(rh[p])] = NONE
  /\ NothingLost

\* A store of the only producer overwrites nothing.
LEMMA StoreInBag ==
  ASSUME TypeOK, OnePlace, NEW p, Producers = {p}, SoleProducer(p), PushStore(p)
  PROVE  SoleProducer(p)' /\ Bag!Next
<1>1. /\ p \in Threads /\ item[p] \in Items /\ item[p] # NONE /\ pc[p] = "pushStore"
      /\ Slot(rh[p]) \in Slots /\ buffer[Slot(rh[p])] = NONE
  BY SlotInRange, RingAssumption
     DEF PushStore, TypeOK, Threads, SoleProducer
<1>2. /\ buffer' = [buffer EXCEPT ![Slot(rh[p])] = item[p]] /\ out' = out
      /\ pushed' = pushed \cup {item[p]} /\ pc'[p] = "idle"
      /\ buffer \in [Slots -> Items \cup {NONE}]
  BY <1>1 DEF PushStore, Filled, Goto, TypeOK
<1>3. Stored' = Stored \cup {item[p]}
  <2>1. \A s \in Slots : buffer'[s] = IF s = Slot(rh[p]) THEN item[p] ELSE buffer[s]
    BY <1>1, <1>2
  <2>2. \A it : it \in Stored' <=> it \in Stored \cup {item[p]}
    BY <1>1, <2>1 DEF Stored
  <2> QED
    BY <2>2
<1>4. Delivered' = Delivered
  BY <1>2 DEF Delivered
<1>5. item[p] \notin Stored /\ item[p] \notin Delivered
  BY <1>1 DEF OnePlace
<1>6. Bag!Put(item[p])
  BY <1>2, <1>3, <1>5 DEF Bag!Put, Delivered
<1> QED
  BY <1>1, <1>2, <1>3, <1>4, <1>6 DEF SoleProducer, NothingLost, Bag!Next

\* A swap moves one item from the bag to the history.
LEMMA SwapInBag ==
  ASSUME TypeOK, OnePlace, NEW p, Producers = {p}, SoleProducer(p),
         NEW c \in Batchers, BatchSwap(c)
  PROVE  SoleProducer(p)' /\ Bag!Next
<1> DEFINE s == Slot(rt[c])
           it == buffer[s]
<1>1. /\ buffer \in [Slots -> Items \cup {NONE}] /\ s \in Slots
      /\ out \in Seq(Items) /\ it \in Items /\ it # NONE /\ Slot(rh[p]) \in Slots
  BY SlotInRange, RingAssumption
     DEF TypeOK, Threads, Consumers, BatchSwap, Full
<1>2. /\ buffer' = [buffer EXCEPT ![s] = NONE] /\ out' = Append(out, it)
      /\ pushed' = pushed /\ rh' = rh /\ pc'[p] = pc[p]
  BY RingAssumption
     DEF BatchSwap, Emptied, Goto, TypeOK, Threads, Consumers
<1>3. it = buffer[s]
  OBVIOUS
<1> HIDE DEF s, it
<1>4. \A t \in Slots : buffer'[t] = IF t = s THEN NONE ELSE buffer[t]
  BY <1>1, <1>2
<1>5. it \in Stored
  BY <1>1, <1>3 DEF Stored
<1>6. Stored' = Stored \ {it}
  <2>1. \A t \in Slots : t # s => buffer[t] # it
    BY <1>1, <1>3 DEF OnePlace
  <2>2. \A x : x \in Stored' <=> x \in Stored \ {it}
    BY <1>1, <1>3, <1>4, <2>1 DEF Stored
  <2> QED
    BY <2>2
<1>7. Delivered' = Delivered \cup {it}
  <2>1. /\ Len(out') = Len(out) + 1 /\ out'[Len(out) + 1] = it
        /\ \A i \in 1 .. Len(out) : out'[i] = out[i]
        /\ Len(out) \in Nat
    BY <1>1, <1>2
  <2> QED
    BY <2>1 DEF Delivered
<1>8. Bag!Take(it)
  BY <1>2, <1>5, <1>6 DEF Bag!Take
<1>9. SoleProducer(p)'
  BY <1>1, <1>2, <1>4, <1>6, <1>7 DEF SoleProducer, NothingLost
<1> QED
  BY <1>1, <1>8, <1>9 DEF Bag!Next

\* Every other step moves no item.
LEMMA RestInBag ==
  ASSUME TypeOK, NEW p, Producers = {p}, SoleProducer(p),
         \/ \E it \in Items : PushLoadHead(p, it)
         \/ PushLoadTail(p) \/ PushCas(p) \/ PushWait(p)
         \/ \E c \in Consumers : ClaimStep(c)
  PROVE  SoleProducer(p)' /\ UNCHANGED <<Stored, out>>
<1>1. UNCHANGED <<buffer, pushed, out>>
  BY DEF PushLoadHead, PushLoadTail, PushCas, PushWait,
         ClaimStep, TakeLoadHead, TakeLoadTail, TakeCas
<1>2. Stored' = Stored /\ Delivered' = Delivered
  BY <1>1 DEF Stored, Delivered
<1>3. pc'[p] = "pushStore" => buffer[Slot(rh'[p])] = NONE
  <2>1. p \in Threads /\ pc \in [Threads -> PushPcs \cup BatchPcs \cup {"popClear"}]
        /\ rh \in [Threads -> Nat]
    BY DEF TypeOK, Threads
  <2>2. ASSUME NEW it \in Items, PushLoadHead(p, it) PROVE pc'[p] # "pushStore"
    BY <2>1, <2>2 DEF PushLoadHead, Goto
  <2>3. PushLoadTail(p) \/ PushCas(p) => pc'[p] # "pushStore"
    BY <2>1 DEF PushLoadTail, PushCas, Goto
  <2>4. CASE PushWait(p)
    BY <2>4 DEF PushWait, SlotFree
  <2>5. ASSUME NEW c \in Consumers, ClaimStep(c)
        PROVE  pc'[p] = pc[p] /\ rh'[p] = rh[p]
    BY <2>1, <2>5, RingAssumption
       DEF ClaimStep, TakeLoadHead, TakeLoadTail, TakeCas, Goto, Threads
  <2>6. CASE \E c \in Consumers : ClaimStep(c)
    BY <2>5, <2>6 DEF SoleProducer
  <2> QED
    BY <2>2, <2>3, <2>4, <2>6
<1> QED
  BY <1>1, <1>2, <1>3 DEF SoleProducer, NothingLost

\* With one producer every step of the ring is a step of the bag or none.
LEMMA BagStep ==
  ASSUME Poppers = {}, NEW p, Producers = {p}
  PROVE  TypeOK /\ OnePlace /\ SoleProducer(p) /\ [Next]_vars
           => SoleProducer(p)' /\ [Bag!Next]_(Bag!vars)
<1> SUFFICES ASSUME TypeOK, OnePlace, SoleProducer(p), [Next]_vars
             PROVE  SoleProducer(p)' /\ [Bag!Next]_(Bag!vars)
  OBVIOUS
<1>1. CASE UNCHANGED vars
  BY <1>1 DEF vars, SoleProducer, NothingLost, Stored, Delivered, Bag!vars
<1>2. CASE PushStore(p)
  BY <1>2, StoreInBag
<1>3. ASSUME NEW c \in Batchers, BatchSwap(c)
      PROVE  SoleProducer(p)' /\ [Bag!Next]_(Bag!vars)
  BY <1>3, SwapInBag
<1>4. CASE \/ \E it \in Items : PushLoadHead(p, it)
           \/ PushLoadTail(p) \/ PushCas(p) \/ PushWait(p)
           \/ \E c \in Consumers : ClaimStep(c)
  BY <1>4, RestInBag DEF Bag!vars
<1> QED
  BY <1>1, <1>2, <1>3, <1>4 DEF Next, PushStep

\* The empty ring is the empty bag.
LEMMA BagInit ==
  ASSUME NEW p, Producers = {p}
  PROVE  Init => SoleProducer(p) /\ Bag!Init
<1> SUFFICES ASSUME Init PROVE SoleProducer(p) /\ Bag!Init
  OBVIOUS
<1>1. pc[p] = "idle" /\ pushed = {} /\ out = <<>>
  BY DEF Init, Threads
<1>2. Stored = {}
  BY DEF Init, Stored
<1> QED
  BY <1>1, <1>2 DEF SoleProducer, NothingLost, Bag!Init

\* With one producer and any number of BatchPop callers the ring delivers each
\* item exactly once, in some order.
THEOREM RingIsBag ==
  ASSUME Poppers = {}, NEW p, Producers = {p}
  PROVE  Spec => ImplementsBag
  BY BagInit, BagStep, TypeCorrect, OnePlaceInvariant, PTL
     DEF Spec, ImplementsBag, Bag!Spec

\* And nothing that Push accepted disappears: what the ring with two producers
\* does not give (run RingLapLoss).
THEOREM SoleProducerLosesNothing ==
  ASSUME Poppers = {}, NEW p, Producers = {p}
  PROVE  Spec => []NothingLost
<1>1. SoleProducer(p) => NothingLost
  BY DEF SoleProducer
<1> QED
  BY <1>1, BagInit, BagStep, TypeCorrect, OnePlaceInvariant, PTL DEF Spec
-----------------------------------------------------------------------------
(* One producer p and any consumers.  Only p moves head, so the copy of it *)
(* that p compares with tail is the head of that moment.                   *)

Current(p) == pc[p] = "pushTail" => rh[p] = head

RejectsWhenFull(p) ==
  pc[p] = "pushTail" /\ pc'[p] = "idle" => head - tail >= Cap

\* The steps of a consumer leave head and the producer's registers alone.
LEMMA ConsumersKeepCurrent ==
  ASSUME TypeOK, NEW p \in Producers, NEW c \in Consumers,
         ClaimStep(c) \/ BatchSwap(c) \/ PopLoad(c) \/ PopClear(c)
  PROVE  head' = head /\ rh'[p] = rh[p] /\ pc'[p] = pc[p]
<1>1. p \in Threads /\ c \in Threads /\ p # c
  BY RingAssumption DEF Threads
<1>2. /\ rh \in [Threads -> Nat]
      /\ pc \in [Threads -> PushPcs \cup BatchPcs \cup {"popClear"}]
  BY DEF TypeOK
<1> QED
  BY <1>1, <1>2
     DEF ClaimStep, TakeLoadHead, TakeLoadTail, TakeCas, BatchSwap, PopLoad,
         PopClear, Goto

\* A sole producer that gives up saw the head of now and a tail that, since
\* the counters never pass each other, is Cap positions behind it.
LEMMA PushRejects ==
  ASSUME TypeOK, Ownership, NEW p \in Producers, Current(p), PushStep(p)
  PROVE  Current(p)' /\ RejectsWhenFull(p)
<1>1. /\ p \in Threads /\ rh \in [Threads -> Nat] /\ head \in Nat /\ tail \in Nat
      /\ pc \in [Threads -> PushPcs \cup BatchPcs \cup {"popClear"}]
  BY DEF TypeOK, Threads
<1>2. ASSUME NEW it \in Items, PushLoadHead(p, it)
      PROVE  Current(p)' /\ RejectsWhenFull(p)
  BY <1>1, <1>2 DEF PushLoadHead, Goto, Current, RejectsWhenFull
<1>3. CASE PushLoadTail(p)
  <2>1. pc[p] = "pushTail" /\ rh[p] = head /\ tail <= head
    BY <1>3 DEF PushLoadTail, Current, Ownership, Bounded
  <2>2. pc'[p] = IF LooksFull(head, tail) THEN "idle" ELSE "pushCas"
    BY <1>1, <1>3, <2>1 DEF PushLoadTail, Goto
  <2>3. LooksFull(head, tail) => head - tail >= Cap
    BY <1>1, <2>1 DEF LooksFull
  <2> QED
    BY <2>2, <2>3 DEF Current, RejectsWhenFull
<1>4. CASE PushCas(p) \/ PushWait(p) \/ PushStore(p)
  BY <1>1, <1>4
     DEF PushCas, PushWait, PushStore, Goto, Current, RejectsWhenFull
<1> QED
  BY <1>2, <1>3, <1>4 DEF PushStep

\* Nobody is in the middle of a Push at the start.
LEMMA RejectsInit ==
  ASSUME NEW sole, Producers = {sole}
  PROVE  Init => Current(sole)
  BY DEF Init, Current, Threads

\* The steps of the producer and of the consumers together.
LEMMA RejectsStep ==
  ASSUME NEW sole, Producers = {sole}
  PROVE  TypeOK /\ Ownership /\ Current(sole) /\ [Next]_vars
           => /\ Current(sole)'
              /\ [\A p \in Producers :
                    pc[p] = "pushTail" /\ pc'[p] = "idle" => head - tail >= Cap]_vars
<1> SUFFICES ASSUME TypeOK, Ownership, Current(sole), [Next]_vars
             PROVE  Current(sole)' /\ [RejectsWhenFull(sole)]_vars
  BY DEF RejectsWhenFull
<1>1. CASE UNCHANGED vars
  BY <1>1 DEF vars, Current
<1>2. ASSUME NEW q \in Producers, PushStep(q)
      PROVE  Current(sole)' /\ RejectsWhenFull(sole)
  BY <1>2, PushRejects
<1>3. ASSUME NEW c \in Consumers,
             ClaimStep(c) \/ BatchSwap(c) \/ PopLoad(c) \/ PopClear(c)
      PROVE  Current(sole)' /\ RejectsWhenFull(sole)
  BY <1>3, ConsumersKeepCurrent DEF Current, RejectsWhenFull
<1> QED
  BY <1>1, <1>2, <1>3 DEF Next, Consumers

\* A sole producer's Push returns false only when the queue holds Cap claimed
\* positions, however many consumers move tail meanwhile.
THEOREM SoleProducerRejectsWhenFull ==
  ASSUME NEW sole, Producers = {sole}
  PROVE  Spec => RejectOnlyWhenFull
  BY RejectsInit, RejectsStep, TypeCorrect, OwnershipInvariant, PTL
     DEF Spec, RejectOnlyWhenFull
=============================================================================
