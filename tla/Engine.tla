------------------------------- MODULE Engine -------------------------------
(***************************************************************************)
(* The matching engine of app/matching/internal/engin: concurrent          *)
(* ProcessOrder calls, the workers, the result processor, CancelOrder and  *)
(* Start/Stop.  The queues are the ring buffers of module RingBuffer, here *)
(* sequences that a Push or a BatchPop changes in one step; with several   *)
(* producers a Push may also put its item in another place, lose another   *)
(* item or be refused without need, as the ring may.  Match is one step    *)
(* whose outcome is chosen freely (module OrderBook has its inside); an    *)
(* order is its id, and an order object (a pointer into orderPool) holds   *)
(* an id, or 0 once Reset.                                                 *)
(*                                                                         *)
(* The order books reference orders through orderMap, level.Orders and     *)
(* seqMaps; "resting" stands for all three.                                *)
(***************************************************************************)
EXTENDS Integers, Sequences, FiniteSets, SequencesExt

CONSTANTS
  Callers,    \* goroutines inside ProcessOrder (one per gRPC request)
  Workers,    \* matching workers (32 in the configuration)
  Ids,        \* order ids clients use; a client may send one again
  Symbols,    \* the configured symbols
  UNKNOWN,    \* a symbol that is not configured
  Ptrs,       \* order objects; enough of them that allocation never fails
  QueueCap,   \* capacity of an input queue (65536)
  OutCap,     \* capacity of the output queue (1024 * 1024)
  BatchSize,  \* orders or results taken by one BatchPop (128)
  Cancels,    \* whether anybody calls CancelOrder
  Stops,      \* whether anybody calls Stop
  NONE        \* no object, no id

ASSUME EngineAssumption ==
  /\ Ids \subseteq Nat \ {0}
  /\ NONE \notin Ids \cup Ptrs
  /\ UNKNOWN \notin Symbols
  /\ QueueCap \in Nat /\ OutCap \in Nat /\ BatchSize \in Nat \ {0}
  /\ Cancels \in BOOLEAN /\ Stops \in BOOLEAN
  /\ IsFiniteSet(Ptrs) /\ IsFiniteSet(Workers)

VARIABLES
  processed,  \* the idempotency marks
  states,     \* orderStates: "none" when the id has no entry
  obj,        \* the id in each order object
  pool,       \* how often orderPool holds each object
  inq,        \* the input queues
  outq,       \* the output queue
  resting,    \* the object the order book keeps for each id
  cpc,        \* next step of each caller
  cid,        \* its order's id
  csym,       \* its order's symbol
  cptr,       \* the object it holds
  wpc,        \* next step of each worker
  batch,      \* the objects a worker has popped and not yet returned
  result,     \* the match result a worker has in hand
  rpc,        \* next step of the result processor
  rbatch,     \* the results it has popped and not yet handled
  run,        \* "new", "live", "stopping" (context cancelled) or "stopped"
  cancelling, \* the id CancelOrder took off the book and has not yet marked
  accepted,   \* history: ids whose push succeeded, in order
  matched,    \* history: the ids passed to Match, in order
  overwritten, \* history: the ids that a Push a lap later took out of a slot
  dropped,    \* history: the ids a worker had popped when it ended
  raced       \* history: an object went to the pool while a worker had it

callVars == <<cpc, cid, csym, cptr>>
workVars == <<wpc, batch, result, rpc, rbatch>>
histories == <<accepted, overwritten, matched, dropped, raced>>
vars == <<processed, states, obj, pool, inq, outq, resting, callVars, workVars,
          run, cancelling, histories>>

Elems(s) == {s[n] : n \in 1 .. Len(s)}

\* PutOrderToPool: Reset, then Put.
PutOrderToPool(p) ==
  /\ obj' = [obj EXCEPT ![p] = 0]
  /\ pool' = [pool EXCEPT ![p] = @ + 1]

-----------------------------------------------------------------------------
(* The rings                                                               *)

Several(S) == \E a, b \in S : a # b

\* How much a queue may hold.  Several producers fill their slots in any order,
\* and what a BatchPop took while it waits for the rest of its claim counts as
\* queued until it returns.
InCap ==
  QueueCap + IF Several(Callers) THEN Cardinality(Workers) * (BatchSize - 1) ELSE 0
OutSum == OutCap + IF Several(Workers) THEN BatchSize - 1 ELSE 0

\* A queue that takes one item too many.
HasRoomLate(q, cap) == Len(q) <= cap

HasRoom(q, cap) == Len(q) < cap

\* A Push by one of the goroutines S, told by the queue after it.  The place is
\* that of the position claimed, not that of the store.
Entered(q, x, cap, S) ==
  {InsertAt(q, i, x) :
     i \in {j \in 1 .. Len(q) + 1 : HasRoom(q, cap) /\ (Several(S) \/ j = Len(q) + 1)}}

\* Two producers a lap apart see the same slot empty: the second store takes
\* the place of an item whose Push returned true (run RingLapLoss).
Lapped(q, i, x) == [q EXCEPT ![i] = x]

\* Copies of head and tail that others have outdated may look full.
MayRefuse(q, cap, S) == Several(S) \/ ~HasRoom(q, cap)

-----------------------------------------------------------------------------
(* ProcessOrder                                                            *)

Step(c, l) == cpc' = [cpc EXCEPT ![c] = l]

\* An idempotency check that is a plain Load, stored later.
FreshAlways(id) == id = id

Fresh(id) == id \notin processed

\* LoadOrStore of the mark; a duplicate is rejected and changes nothing.
Begin(c, id, sym) ==
  /\ cpc[c] = "idle" /\ Fresh(id)
  /\ processed' = processed \cup {id}
  /\ cid' = [cid EXCEPT ![c] = id]
  /\ csym' = [csym EXCEPT ![c] = sym]
  /\ Step(c, IF sym \in Symbols THEN "state" ELSE "unmark")
  /\ UNCHANGED <<states, obj, pool, inq, outq, resting, cptr, workVars, run,
                 cancelling, histories>>

StoreState(c) ==
  /\ cpc[c] = "state"
  /\ states' = [states EXCEPT ![cid[c]] = "pending"]
  /\ Step(c, "get")
  /\ UNCHANGED <<processed, obj, pool, inq, outq, resting, cid, csym, cptr,
                 workVars, run, cancelling, histories>>

\* A pool that hands out an object and keeps it.
PoolKeeps(p) == pool

PoolWithout(p) == [pool EXCEPT ![p] = @ - 1]

GetOrder(c, p) ==
  /\ cpc[c] = "get" /\ pool[p] > 0
  /\ pool' = PoolWithout(p)
  /\ obj' = [obj EXCEPT ![p] = cid[c]]
  /\ cptr' = [cptr EXCEPT ![c] = p]
  /\ Step(c, "push")
  /\ UNCHANGED <<processed, states, inq, outq, resting, cid, csym, workVars, run,
                 cancelling, histories>>

\* Success ends the call; nothing tells a caller that the engine is stopped.
PushReturnsTrue(c) ==
  /\ accepted' = Append(accepted, cid[c])
  /\ cptr' = [cptr EXCEPT ![c] = NONE]
  /\ Step(c, "idle")

Enter(c) ==
  /\ inq' \in {[inq EXCEPT ![csym[c]] = q] :
                q \in Entered(inq[csym[c]], cptr[c], InCap, Callers)}
  /\ PushReturnsTrue(c)
  /\ UNCHANGED overwritten

Overwrite(c) ==
  /\ Several(Callers)
  /\ \E i \in 1 .. Len(inq[csym[c]]) :
       /\ inq' = [inq EXCEPT ![csym[c]] = Lapped(@, i, cptr[c])]
       /\ overwritten' = overwritten \cup {obj[inq[csym[c]][i]]}
  /\ PushReturnsTrue(c)

Refuse(c) ==
  /\ MayRefuse(inq[csym[c]], InCap, Callers)
  /\ Step(c, "putBack")
  /\ UNCHANGED <<inq, accepted, cptr, overwritten>>

Push(c) ==
  /\ cpc[c] = "push"
  /\ Enter(c) \/ Overwrite(c) \/ Refuse(c)
  /\ UNCHANGED <<processed, states, obj, pool, outq, resting, cid, csym, workVars,
                 run, cancelling, matched, dropped, raced>>

PutBack(c) ==
  /\ cpc[c] = "putBack"
  /\ PutOrderToPool(cptr[c])
  /\ cptr' = [cptr EXCEPT ![c] = NONE]
  /\ Step(c, "unmark")
  /\ UNCHANGED <<processed, states, inq, outq, resting, cid, csym, workVars, run,
                 cancelling, histories>>

\* The rollback of the mark, before that of the state.
Unmark(c) ==
  /\ cpc[c] = "unmark"
  /\ processed' = processed \ {cid[c]}
  /\ Step(c, IF csym[c] \in Symbols THEN "unstate" ELSE "idle")
  /\ UNCHANGED <<states, obj, pool, inq, outq, resting, cid, csym, cptr, workVars,
                 run, cancelling, histories>>

DeleteState(c) ==
  /\ cpc[c] = "unstate"
  /\ states' = [states EXCEPT ![cid[c]] = "none"]
  /\ Step(c, "idle")
  /\ UNCHANGED <<processed, obj, pool, inq, outq, resting, cid, csym, cptr,
                 workVars, run, cancelling, histories>>

-----------------------------------------------------------------------------
(* The workers                                                             *)

Goto(w, l) == wpc' = [wpc EXCEPT ![w] = l]

\* A BatchPop that moves the queue's front one order too far.
QueueSkips(s, n) == [inq EXCEPT ![s] = SubSeq(@, n + 2, Len(@))]

QueueAfter(s, n) == [inq EXCEPT ![s] = SubSeq(@, n + 1, Len(@))]

\* processBatch: BatchPop of one of the queues (a map, visited in any order)
\* with what is left of a budget of BatchSize.  The look at the context and the
\* pop are one step: what a worker pops after a cancellation it has not seen is
\* dropped at its next look, as if it had popped before.  BatchPop claims its
\* positions and waits for each slot; the step is the moment all are filled.
Poll(w, s, n) ==
  /\ wpc[w] = "poll" /\ run = "live"
  /\ n \in 1 .. BatchSize /\ n <= Len(inq[s])
  /\ batch' = [batch EXCEPT ![w] = SubSeq(inq[s], 1, n)]
  /\ inq' = QueueAfter(s, n)
  /\ Goto(w, "match")
  /\ UNCHANGED <<processed, states, obj, pool, outq, resting, callVars, result, rpc,
                 rbatch, run, cancelling, histories>>

\* A worker that takes the last order of its batch.
CurrentLast(w) == batch[w][Len(batch[w])]

\* The order a worker is at.
Current(w) == batch[w][1]

\* Match, unless the context is done.  A resting order's object is kept by
\* the order book; the result refers to the object as well.
Match(w, trades, rests) ==
  /\ wpc[w] = "match" /\ run = "live"
  /\ matched' = Append(matched, obj[Current(w)])
  /\ resting' = IF rests THEN [resting EXCEPT ![obj[Current(w)]] = Current(w)]
                ELSE resting
  /\ result' = [result EXCEPT ![w] = [ptr |-> Current(w), trades |-> trades]]
  /\ Goto(w, "send")
  /\ UNCHANGED <<processed, states, obj, pool, inq, outq, callVars, batch, rpc,
                 rbatch, run, cancelling, accepted, overwritten, dropped, raced>>

\* A result without trades or quantity is not sent (the quantity is read from
\* the object, reset or not).
WorthSending(w) == result[w].trades \/ obj[result[w].ptr] # 0

\* An output queue that refuses drops the result.
Send(w) ==
  /\ wpc[w] = "send"
  /\ \/ /\ WorthSending(w)
        /\ \/ outq' \in Entered(outq, result[w], OutSum, Workers)
           \/ /\ Several(Workers)
              /\ \E i \in 1 .. Len(outq) : outq' = Lapped(outq, i, result[w])
     \/ /\ ~WorthSending(w) \/ MayRefuse(outq, OutSum, Workers)
        /\ outq' = outq
  /\ Goto(w, "release")
  /\ UNCHANGED <<processed, states, obj, pool, inq, resting, callVars, batch, result,
                 rpc, rbatch, run, cancelling, histories>>

\* The object goes back to the pool, resting or not; then the next order.
Release(w) ==
  /\ wpc[w] = "release"
  /\ PutOrderToPool(Current(w))
  /\ batch' = [batch EXCEPT ![w] = Tail(@)]
  /\ result' = [result EXCEPT ![w] = NONE]
  /\ Goto(w, IF Len(batch[w]) = 1 THEN "poll" ELSE "match")
  /\ UNCHANGED <<processed, states, inq, outq, resting, callVars, rpc, rbatch, run,
                 cancelling, histories>>

\* A done context ends the worker between two orders: the rest of its batch
\* is dropped.
WorkerExit(w) ==
  /\ wpc[w] \in {"poll", "match"} /\ run = "stopping"
  /\ dropped' = dropped \cup {obj[p] : p \in Elems(batch[w])}
  /\ batch' = [batch EXCEPT ![w] = <<>>]
  /\ Goto(w, "exited")
  /\ UNCHANGED <<processed, states, obj, pool, inq, outq, resting, callVars, result,
                 rpc, rbatch, run, cancelling, accepted, overwritten, matched, raced>>

-----------------------------------------------------------------------------
(* The result processor                                                    *)

TakeResults(n) ==
  /\ rpc = "poll" /\ run = "live"
  /\ n \in 1 .. BatchSize /\ n <= Len(outq)
  /\ rbatch' = SubSeq(outq, 1, n)
  /\ outq' = SubSeq(outq, n + 1, Len(outq))
  /\ rpc' = "handle"
  /\ UNCHANGED <<processed, states, obj, pool, inq, resting, callVars, wpc, batch,
                 result, run, cancelling, histories>>

\* handleMatchResult reads the symbol of the result's order, for metrics.
HandleResult ==
  /\ rpc = "handle"
  /\ rbatch' = Tail(rbatch)
  /\ rpc' = IF Len(rbatch) = 1 THEN "poll" ELSE "handle"
  /\ UNCHANGED <<processed, states, obj, pool, inq, outq, resting, callVars, wpc,
                 batch, result, run, cancelling, histories>>

\* A result processor that looks at the context in the middle of a batch only.
MayExitBusy == rpc = "handle"

MayExit == rpc = "poll"

ResultsExit ==
  /\ MayExit /\ run = "stopping"
  /\ rpc' = "exited"
  /\ UNCHANGED <<processed, states, obj, pool, inq, outq, resting, callVars, wpc,
                 batch, result, rbatch, run, cancelling, histories>>

-----------------------------------------------------------------------------
(* Start, Stop and CancelOrder                                             *)

Start ==
  /\ run = "new" \/ run = "stopped"
  /\ run' = "live"
  /\ wpc' = [w \in Workers |-> "poll"]
  /\ rpc' = "poll"
  /\ UNCHANGED <<processed, states, obj, pool, inq, outq, resting, callVars, batch,
                 result, rbatch, cancelling, histories>>

\* Cancels the context; the engine's mutex is held until StopEnd.
StopBegin ==
  /\ Stops /\ run = "live"
  /\ run' = "stopping"
  /\ UNCHANGED <<processed, states, obj, pool, inq, outq, resting, callVars, workVars,
                 cancelling, histories>>

\* wg.Wait returns.
StopEnd ==
  /\ run = "stopping"
  /\ \A w \in Workers : wpc[w] = "exited"
  /\ rpc = "exited"
  /\ run' = "stopped"
  /\ UNCHANGED <<processed, states, obj, pool, inq, outq, resting, callVars, workVars,
                 cancelling, histories>>

\* The book's CancelOrder finds the order only while the object it kept still
\* carries the id; it removes it and returns the object to the pool.
CancelOrder(id) ==
  /\ Cancels /\ cancelling = NONE
  /\ resting[id] # NONE /\ obj[resting[id]] = id
  /\ PutOrderToPool(resting[id])
  /\ resting' = [resting EXCEPT ![id] = NONE]
  /\ cancelling' = id
  /\ raced' = (raced \/ \E w \in Workers : resting[id] \in Elems(batch[w]))
  /\ UNCHANGED <<processed, states, inq, outq, callVars, workVars, run, accepted,
                 overwritten, matched, dropped>>

MarkCancelled ==
  /\ cancelling # NONE
  /\ states' = [states EXCEPT ![cancelling] = IF @ = "none" THEN @ ELSE "cancelled"]
  /\ cancelling' = NONE
  /\ UNCHANGED <<processed, obj, pool, inq, outq, resting, callVars, workVars, run,
                 histories>>

-----------------------------------------------------------------------------

Init ==
  /\ processed = {} /\ states = [id \in Ids |-> "none"]
  /\ obj = [p \in Ptrs |-> 0] /\ pool = [p \in Ptrs |-> 1]
  /\ inq = [s \in Symbols |-> <<>>] /\ outq = <<>>
  /\ resting = [id \in Ids |-> NONE]
  /\ cpc = [c \in Callers |-> "idle"] /\ cid = [c \in Callers |-> NONE]
  /\ csym = [c \in Callers |-> UNKNOWN] /\ cptr = [c \in Callers |-> NONE]
  /\ wpc = [w \in Workers |-> "exited"]
  /\ batch = [w \in Workers |-> <<>>] /\ result = [w \in Workers |-> NONE]
  /\ rpc = "exited" /\ rbatch = <<>>
  /\ run = "new" /\ cancelling = NONE
  /\ accepted = <<>> /\ overwritten = {}
  /\ matched = <<>> /\ dropped = {} /\ raced = FALSE

CallStep(c) ==
  \/ StoreState(c) \/ (\E p \in Ptrs : GetOrder(c, p)) \/ Push(c)
  \/ PutBack(c) \/ Unmark(c) \/ DeleteState(c)

WorkerStep(w) ==
  \/ \E s \in Symbols, n \in 1 .. BatchSize : Poll(w, s, n)
  \/ \E trades, rests \in BOOLEAN : Match(w, trades, rests)
  \/ Send(w) \/ Release(w) \/ WorkerExit(w)

ResultStep == (\E n \in 1 .. BatchSize : TakeResults(n)) \/ HandleResult \/ ResultsExit

Next ==
  \/ \E c \in Callers :
       CallStep(c) \/ \E id \in Ids, s \in Symbols \cup {UNKNOWN} : Begin(c, id, s)
  \/ \E w \in Workers : WorkerStep(w)
  \/ ResultStep
  \/ Start \/ StopBegin \/ StopEnd
  \/ (\E id \in Ids : CancelOrder(id)) \/ MarkCancelled

Spec == Init /\ [][Next]_vars

\* Goroutines that can run do run, and the service starts its engine
\* (serviceContext.go); nobody has to call ProcessOrder, Stop or CancelOrder.
Fairness ==
  /\ \A c \in Callers : WF_vars(CallStep(c))
  /\ \A w \in Workers : WF_vars(WorkerStep(w))
  /\ WF_vars(ResultStep)
  /\ WF_vars(run = "new" /\ Start)
  /\ WF_vars(StopEnd)

FairSpec == Spec /\ Fairness

-----------------------------------------------------------------------------
(* Properties                                                              *)

CallPcs == {"idle", "state", "get", "push", "putBack", "unmark", "unstate"}
Results == [ptr : Ptrs, trades : BOOLEAN]

\* The type of every variable, and the capacity of the queues.
TypeOK ==
  /\ processed \subseteq Ids
  /\ states \in [Ids -> {"none", "pending", "cancelled"}]
  /\ obj \in [Ptrs -> Ids \cup {0}] /\ pool \in [Ptrs -> Nat]
  /\ inq \in [Symbols -> Seq(Ptrs)]
  /\ \A s \in Symbols : Len(inq[s]) <= InCap
  /\ outq \in Seq(Results) /\ Len(outq) <= OutSum
  /\ resting \in [Ids -> Ptrs \cup {NONE}]
  /\ cpc \in [Callers -> CallPcs] /\ cid \in [Callers -> Ids \cup {NONE}]
  /\ csym \in [Callers -> Symbols \cup {UNKNOWN}]
  /\ cptr \in [Callers -> Ptrs \cup {NONE}]
  /\ wpc \in [Workers -> {"poll", "match", "send", "release", "exited"}]
  /\ batch \in [Workers -> Seq(Ptrs)]
  /\ result \in [Workers -> Results \cup {NONE}]
  /\ rpc \in {"poll", "handle", "exited"} /\ rbatch \in Seq(Results)
  /\ run \in {"new", "live", "stopping", "stopped"}
  /\ cancelling \in Ids \cup {NONE}
  /\ accepted \in Seq(Ids) /\ overwritten \subseteq Ids \cup {0}
  /\ matched \in Seq(Ids \cup {0})
  /\ dropped \subseteq Ids \cup {0} /\ raced \in BOOLEAN

\* An order object has one holder on its way through the engine: the pool, the
\* call that fills it, one place of one input queue, or one worker; until a
\* CancelOrder hits an order between its match and the return of its object.
OneHolder ==
  ~raced => \A p \in Ptrs :
    pool[p] + Cardinality({c \in Callers : cptr[c] = p})
      + Cardinality({x \in Symbols \X (1 .. InCap) :
                       x[2] <= Len(inq[x[1]]) /\ inq[x[1]][x[2]] = p})
      + Cardinality({x \in Workers \X (1 .. BatchSize) :
                       x[2] <= Len(batch[x[1]]) /\ batch[x[1]][x[2]] = p}) <= 1

\* A call that holds the idempotency mark of its order.
Marks(c) == cpc[c] \in {"state", "get", "push", "putBack", "unmark"}

\* Idempotency: whatever duplicates, retries and rollbacks happen, no id is
\* accepted twice ("duplicate order", engin.go:188).
AcceptedOnce ==
  \A m, n \in 1 .. Len(accepted) : accepted[m] = accepted[n] => m = n

\* Why: a mark belongs to one call in progress or to an accepted order.
OneMark ==
  /\ \A c \in Callers : Marks(c) =>
       /\ cid[c] \in processed /\ cid[c] \notin Elems(accepted)
       /\ \A d \in Callers \ {c} : Marks(d) => cid[d] # cid[c]
  /\ Elems(accepted) \subseteq processed
  /\ AcceptedOnce

\* The orders that are accepted are matched once, across stops and restarts: no
\* object is handed to two workers or reused on its way, so that no id is passed
\* to Match twice, and what is matched had been accepted.
MatchedOnce ==
  ~raced =>
    /\ \A m, n \in 1 .. Len(matched) : matched[m] = matched[n] => m = n
    /\ Elems(matched) \subseteq Elems(accepted)

\* What may be lost: an accepted order is in an input queue, in the batch of a
\* worker, or has been matched, or it was in the batch of a worker that a stop
\* ended, or a Push a lap later overwrote it, which takes several callers.
AcceptedKept ==
  ~raced =>
    /\ ~Several(Callers) => overwritten = {}
    /\ \A id \in Elems(accepted) :
         \/ id \in Elems(matched) \cup dropped \cup overwritten
         \/ \E s \in Symbols : \E p \in Elems(inq[s]) : obj[p] = id
         \/ \E w \in Workers : \E p \in Elems(batch[w]) : obj[p] = id

\* With a single caller and a single worker the orders of a single symbol are
\* matched in the order in which they were accepted, so that time priority is
\* that of the requests, before and after a restart; only a stop makes an order
\* lose its turn.  (Two callers may fill their slots in another order than they
\* claimed them; two workers race for the book's mutex with their batches.)
MatchedInOrder ==
  /\ ~Several(Callers) /\ ~raced
  /\ Cardinality(Workers) = 1 /\ Cardinality(Symbols) = 1
  =>
    \A n \in 1 .. Len(accepted), k \in 1 .. Len(matched) :
      accepted[n] = matched[k] =>
        \A m \in 1 .. n - 1 :
          accepted[m] \in dropped \cup {matched[i] : i \in 1 .. k - 1}

\* With one caller every accepted order is eventually matched, unless the engine
\* is stopped or was stopped with the order in a worker's hands.
AcceptedMatched ==
  \A id \in Ids :
    id \in Elems(accepted) ~>
      id \in Elems(matched) \cup dropped \/ run # "live" \/ raced

\* Stop returns: every worker and the result processor see the context.
StopReturns == run = "stopping" ~> run = "stopped"

\* orderMap is "orderID -> *Order" (hybird.go:19): the object the book keeps
\* for an id is that order's.
RestingIntact ==
  \A id \in Ids : resting[id] # NONE => obj[resting[id]] = id
=============================================================================
