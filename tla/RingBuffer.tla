----------------------------- MODULE RingBuffer -----------------------------
(***************************************************************************)
(* The lock-free ring buffer of app/pkg/lockfree/ringbuffer.go, one atomic *)
(* memory operation per action.  Every load, compare-and-swap, store and   *)
(* swap of head, tail and a slot is a step of its own, so all the          *)
(* interleavings of concurrent Push, Pop and BatchPop calls are explored.  *)
(*                                                                         *)
(* A thread's program counter names the operation it performs next.  head  *)
(* and tail are uint64 that would need 2^64 operations to wrap; the one    *)
(* place where the width matters is the unsigned difference head-tail of   *)
(* two registers loaded at different times (LooksFull).                    *)
(***************************************************************************)
EXTENDS Integers, Sequences, FiniteSets

CONSTANTS
  Producers,  \* goroutines that call Push
  Poppers,    \* goroutines that call Pop
  Batchers,   \* goroutines that call BatchPop
  Items,      \* pointers pushed, each one once; bounds the number of Push calls
  Cap,        \* capacity; a power of two in the code, so "& mask" is "% Cap"
  MaxBatch,   \* largest "max" argument of BatchPop
  NONE        \* the nil pointer: an empty slot

Consumers == Poppers \cup Batchers
Threads   == Producers \cup Consumers
Slots     == 0 .. Cap - 1

ASSUME RingAssumption ==
  /\ Cap \in Nat \ {0}
  /\ MaxBatch \in Nat \ {0}
  /\ NONE \notin Items
  /\ Producers \cap Consumers = {}
  /\ Poppers \cap Batchers = {}

VARIABLES
  head,     \* next position to be claimed by a producer
  tail,     \* next position to be claimed by a consumer
  buffer,   \* the slots
  pc,       \* next atomic operation of each thread
  rh,       \* each thread's copy of head; then the end of a consumer's claim
  rt,       \* each thread's copy of tail; then the slot a consumer is at
  item,     \* what a producer pushes, or Pop has read and not yet cleared
  want,     \* the "max" a consumer asks for
  offered,  \* history: the items passed to Push so far
  pushed,   \* history: the items whose Push returned true
  out       \* history: the items returned to consumers, in order

vars == <<head, tail, buffer, pc, rh, rt, item, want, offered, pushed, out>>

Slot(n) == n % Cap

Goto(t, l) == pc' = [pc EXCEPT ![t] = l]

-----------------------------------------------------------------------------
(* Push                                                                    *)

\* A check that lets one item too many in.
LooksFullLate(h, t) == h < t \/ h - t > Cap

\* A ring that keeps one slot free.
LooksFullEarly(h, t) == h < t \/ h - t >= Cap - 1

\* "head-tail >= capacity" on uint64: a tail loaded after other threads moved
\* it past the head loaded before makes the difference wrap to a huge value.
LooksFull(h, t) == h < t \/ h - t >= Cap

\* Loads head, for a new call or after a lost compare-and-swap.
PushLoadHead(p, it) ==
  /\ \/ pc[p] = "idle" /\ it \notin offered
     \/ pc[p] = "pushHead" /\ it = item[p]
  /\ offered' = offered \cup {it}
  /\ item' = [item EXCEPT ![p] = it]
  /\ rh' = [rh EXCEPT ![p] = head]
  /\ Goto(p, "pushTail")
  /\ UNCHANGED <<head, tail, buffer, rt, want, pushed, out>>

\* Loads tail; a queue that looks full makes Push return false.
PushLoadTail(p) ==
  /\ pc[p] = "pushTail"
  /\ rt' = [rt EXCEPT ![p] = tail]
  /\ Goto(p, IF LooksFull(rh[p], tail) THEN "idle" ELSE "pushCas")
  /\ UNCHANGED <<head, tail, buffer, rh, item, want, offered, pushed, out>>

\* A producer that does not notice that another one moved head.
HeadWonAlways(p) == rh[p] = rh[p]

HeadWon(p) == head = rh[p]

\* Claims position rh[p], or finds head moved and retries.
PushCas(p) ==
  /\ pc[p] = "pushCas"
  /\ \/ HeadWon(p) /\ head' = rh[p] + 1 /\ Goto(p, "pushWait")
     \/ ~HeadWon(p) /\ Goto(p, "pushHead") /\ UNCHANGED head
  /\ UNCHANGED <<tail, buffer, rh, rt, item, want, offered, pushed, out>>

SlotFree(p) == buffer[Slot(rh[p])] = NONE

\* Spins until the claimed slot is nil.
PushWait(p) ==
  /\ pc[p] = "pushWait"
  /\ SlotFree(p)
  /\ Goto(p, "pushStore")
  /\ UNCHANGED <<head, tail, buffer, rh, rt, item, want, offered, pushed, out>>

\* A producer that stores at the position after the one it claimed.
FilledNext(p) == [buffer EXCEPT ![Slot(rh[p] + 1)] = item[p]]

Filled(p) == [buffer EXCEPT ![Slot(rh[p])] = item[p]]

PushStore(p) ==
  /\ pc[p] = "pushStore"
  /\ buffer' = Filled(p)
  /\ pushed' = pushed \cup {item[p]}
  /\ Goto(p, "idle")
  /\ UNCHANGED <<head, tail, rh, rt, item, want, offered, out>>

-----------------------------------------------------------------------------
(* Pop and BatchPop                                                        *)

\* BatchPop is called with a max of 1 or more; Pop claims one position.
Wants(c) == IF c \in Poppers THEN {1} ELSE 1 .. MaxBatch

TakeLoadHead(c, m) ==
  /\ pc[c] = "idle" \/ (pc[c] = "takeHead" /\ m = want[c])
  /\ want' = [want EXCEPT ![c] = m]
  /\ rh' = [rh EXCEPT ![c] = head]
  /\ Goto(c, "takeTail")
  /\ UNCHANGED <<head, tail, buffer, rt, item, offered, pushed, out>>

\* Loads tail; an empty queue makes the call return nil.
TakeLoadTail(c) ==
  /\ pc[c] = "takeTail"
  /\ rt' = [rt EXCEPT ![c] = tail]
  /\ Goto(c, IF tail >= rh[c] THEN "idle" ELSE "takeCas")
  /\ UNCHANGED <<head, tail, buffer, rh, item, want, offered, pushed, out>>

\* The claim stops at max positions, or at the head loaded before.
ClaimEnd(c) == IF rh[c] - rt[c] > want[c] THEN rt[c] + want[c] ELSE rh[c]

\* A claim that does not notice that another consumer moved tail.
ClaimWonAlways(c) == rt[c] = rt[c]

ClaimWon(c) == tail = rt[c]

\* Claims the positions rt[c] .. ClaimEnd(c) - 1, or retries.
TakeCas(c) ==
  /\ pc[c] = "takeCas"
  /\ \/ /\ ClaimWon(c)
        /\ tail' = ClaimEnd(c)
        /\ rh' = [rh EXCEPT ![c] = ClaimEnd(c)]
        /\ Goto(c, "takeSlot")
     \/ ~ClaimWon(c) /\ Goto(c, "takeHead") /\ UNCHANGED <<tail, rh>>
  /\ UNCHANGED <<head, buffer, rt, item, want, offered, pushed, out>>

\* A consumer that leaves the pointer in the slot.
EmptiedNot(c) == [buffer EXCEPT ![Slot(rt[c])] = @]

\* The buffer once the slot c is at has been set to nil.
Emptied(c) == [buffer EXCEPT ![Slot(rt[c])] = NONE]

\* A consumer that does not wait for the producer's store.
FullAlways(c) == rt[c] = rt[c]

Full(c) == buffer[Slot(rt[c])] # NONE

\* BatchPop: one atomic swap per claimed position, repeated while it is nil.
BatchSwap(c) ==
  /\ pc[c] = "takeSlot" /\ Full(c)
  /\ buffer' = Emptied(c)
  /\ out' = Append(out, buffer[Slot(rt[c])])
  /\ rt' = [rt EXCEPT ![c] = @ + 1]
  /\ Goto(c, IF rt[c] + 1 = rh[c] THEN "idle" ELSE "takeSlot")
  /\ UNCHANGED <<head, tail, rh, item, want, offered, pushed>>

\* Pop: the slot is read, and cleared by a separate store.
PopLoad(c) ==
  /\ pc[c] = "takeSlot" /\ Full(c)
  /\ item' = [item EXCEPT ![c] = buffer[Slot(rt[c])]]
  /\ Goto(c, "popClear")
  /\ UNCHANGED <<head, tail, buffer, rh, rt, want, offered, pushed, out>>

PopClear(c) ==
  /\ pc[c] = "popClear"
  /\ buffer' = Emptied(c)
  /\ out' = Append(out, item[c])
  /\ rt' = [rt EXCEPT ![c] = @ + 1]
  /\ Goto(c, "idle")
  /\ UNCHANGED <<head, tail, rh, item, want, offered, pushed>>

-----------------------------------------------------------------------------

Init ==
  /\ head = 0 /\ tail = 0
  /\ buffer = [s \in Slots |-> NONE]
  /\ pc = [t \in Threads |-> "idle"]
  /\ rh = [t \in Threads |-> 0] /\ rt = [t \in Threads |-> 0]
  /\ item = [t \in Threads |-> NONE]
  /\ want = [c \in Consumers |-> 1]
  /\ offered = {} /\ pushed = {} /\ out = <<>>

PushStep(p) ==
  \/ \E it \in Items : PushLoadHead(p, it)
  \/ PushLoadTail(p) \/ PushCas(p) \/ PushWait(p) \/ PushStore(p)

ClaimStep(c) ==
  (\E m \in Wants(c) : TakeLoadHead(c, m)) \/ TakeLoadTail(c) \/ TakeCas(c)

Next ==
  \/ \E p \in Producers : PushStep(p)
  \/ \E c \in Consumers : ClaimStep(c)
  \/ \E c \in Batchers : BatchSwap(c)
  \/ \E c \in Poppers : PopLoad(c) \/ PopClear(c)

Spec == Init /\ [][Next]_vars

\* Every goroutine inside a call keeps running, and consumers keep calling:
\* the workers and the result processor poll their queues in an endless loop.
\* Nothing obliges anybody to call Push.
Fairness ==
  /\ \A p \in Producers : WF_vars(pc[p] # "idle" /\ PushStep(p))
  /\ \A c \in Consumers : WF_vars(ClaimStep(c))
  /\ \A c \in Batchers : WF_vars(BatchSwap(c))
  /\ \A c \in Poppers : WF_vars(PopLoad(c) \/ PopClear(c))

FairSpec == Spec /\ Fairness

-----------------------------------------------------------------------------
(* Properties                                                              *)

PushPcs == {"idle", "pushHead", "pushTail", "pushCas", "pushWait", "pushStore"}
BatchPcs == {"idle", "takeHead", "takeTail", "takeCas", "takeSlot"}

\* Every variable has its type; in particular each producer is in Push, each
\* consumer in Pop or BatchPop, and only Pop reads a slot before clearing it.
TypeOK ==
  /\ head \in Nat /\ tail \in Nat
  /\ buffer \in [Slots -> Items \cup {NONE}]
  /\ pc \in [Threads -> PushPcs \cup BatchPcs \cup {"popClear"}]
  /\ \A p \in Producers : pc[p] \in PushPcs
  /\ \A c \in Batchers : pc[c] \in BatchPcs
  /\ \A c \in Poppers : pc[c] \in BatchPcs \cup {"popClear"}
  /\ rh \in [Threads -> Nat] /\ rt \in [Threads -> Nat]
  /\ item \in [Threads -> Items \cup {NONE}]
  /\ \A p \in Producers : pc[p] # "idle" => item[p] \in Items
  /\ \A c \in Poppers : pc[c] = "popClear" => item[c] \in Items
  /\ want \in [Consumers -> Nat \ {0}]
  /\ offered \subseteq Items /\ pushed \subseteq Items
  /\ out \in Seq(Items)

\* The producers' and the consumers' counters never pass each other and never
\* drift further apart than the capacity, although every thread compares
\* copies of them that may be stale (ringbuffer.go Push, Pop, BatchPop).
Bounded == tail <= head /\ head <= tail + Cap

\* Producer p owns position rh[p] from its successful compare-and-swap on.
Writing(p) == pc[p] \in {"pushWait", "pushStore"}

Taking(c) == pc[c] \in {"takeSlot", "popClear"}

\* The positions consumer c has claimed and not emptied yet.
Claimed(c) == IF Taking(c) THEN rt[c] .. rh[c] - 1 ELSE {}

\* Two producers never own one position, two consumers never claim one, and
\* what is owned or claimed lies below head, or below tail: the exclusive
\* ownership that the compare-and-swaps of head and tail are there to give.
ClaimsDisjoint ==
  /\ \A p \in Producers : Writing(p) => rh[p] < head
  /\ \A p, q \in Producers :
       p # q /\ Writing(p) /\ Writing(q) => rh[p] # rh[q]
  /\ \A c \in Consumers : \A n \in Claimed(c) : n < tail
  /\ \A c, d \in Consumers : c # d => Claimed(c) \cap Claimed(d) = {}

\* Why ownership is exclusive, in a form every step preserves: the copies of
\* the counters are old values of them, a producer about to claim has seen
\* fewer than Cap items, and the claims of consumers are ordered intervals.
Ownership ==
  /\ Bounded
  /\ \A p \in Producers :
       /\ rh[p] <= head /\ rt[p] <= tail
       /\ pc[p] = "pushCas" => rh[p] - rt[p] < Cap
       /\ Writing(p) => rh[p] < head
       /\ \A q \in Producers \ {p} : Writing(p) /\ Writing(q) => rh[p] # rh[q]
  /\ \A c \in Consumers :
       /\ pc[c] \in {"takeTail", "takeCas"} => rh[c] <= head
       /\ pc[c] = "takeCas" => rt[c] < rh[c]
       /\ Taking(c) => rt[c] < rh[c] /\ rh[c] <= tail
       /\ \A d \in Consumers \ {c} :
            Taking(c) /\ Taking(d) => rh[c] <= rt[d] \/ rh[d] <= rt[c]

\* The items in the slots, and those returned to a consumer.
Stored == {buffer[s] : s \in Slots} \ {NONE}
Delivered == {out[i] : i \in 1 .. Len(out)}

\* "each element is consumed only once" (ringbuffer.go:105): no pointer is
\* returned by two calls, nor returned and still in the buffer.
AtMostOnce ==
  /\ \A i, j \in 1 .. Len(out) : out[i] = out[j] => i = j
  /\ Stored \cap Delivered = {}

\* Why it is consumed once: a pointer is in one place at a time, with the
\* producer that pushes it, in one slot, or at one place of the history.
OnePlace ==
  /\ \A p \in Producers : pc[p] # "idle" =>
       /\ item[p] \in offered /\ item[p] \notin Stored \cup Delivered
       /\ \A q \in Producers \ {p} : pc[q] # "idle" => item[q] # item[p]
  /\ Stored \cup Delivered \subseteq offered
  /\ \A s, t \in Slots : buffer[s] # NONE /\ s # t => buffer[s] # buffer[t]
  /\ AtMostOnce

\* An item whose Push returned true is in the buffer or has been returned to
\* a consumer: nothing that was accepted disappears.
NothingLost == pushed \subseteq Stored \cup Delivered

\* Push returns false ("queue full", ringbuffer.go:58) only in a state where
\* the queue holds Cap claimed positions.
RejectOnlyWhenFull ==
  [][\A p \in Producers :
       pc[p] = "pushTail" /\ pc'[p] = "idle" => head - tail >= Cap]_vars

\* Every accepted item is eventually returned to some consumer.
AllDelivered == \A it \in Items : it \in pushed ~> it \in Delivered

\* A consumer never spins for ever on a position it claimed: the producer
\* that owns the position stores into it (ringbuffer.go:93, 132).
ClaimsFinish == \A c \in Consumers : pc[c] = "takeSlot" ~> pc[c] = "idle"

\* What the ring promises to its users: an unordered buffer that delivers
\* each stored item exactly once (module DeliveryBag) ...
Bag == INSTANCE DeliveryBag WITH bag <- Stored, out <- out

\* ... which every step of Push and BatchPop respects.
ImplementsBag == Bag!Spec

\* With one producer and one consumer it is a first-in first-out queue: the
\* positions stored and not yet taken run from Front to Back - 1.
Front == IF \E c \in Consumers : Taking(c)
         THEN rt[CHOOSE c \in Consumers : Taking(c)] ELSE tail
Back == IF \E p \in Producers : Writing(p) THEN head - 1 ELSE head

Fifo == INSTANCE FifoQueue WITH
  queue <- [i \in 1 .. Back - Front |-> buffer[Slot(Front + i - 1)]], out <- out

\* The consumer gets the items in the order of the Push calls.
ImplementsFifo == Fifo!Spec
=============================================================================
