------------------------------ MODULE OrderFlow ------------------------------
(***************************************************************************)
(* An order on its way through the three services: the gateway's handler   *)
(* checks it and calls the order service, whose handler gives it an id     *)
(* from the clock and calls the matching service, whose handler marks the  *)
(* id and pushes the order into the queue of its symbol.                   *)
(*                                                                         *)
(* Each call may be answered, or fail: by a timeout (the deadline of the   *)
(* gateway's request is that of both calls), by a lost connection, by the  *)
(* death of the service called.  A handler does not notice that its caller *)
(* has given up until it makes a call itself; the matching handler makes   *)
(* none.  A client that tries again sends a new request, which gets an id  *)
(* of its own.  Module Engine has the inside of the matching service.      *)
(***************************************************************************)
EXTENDS Integers, FiniteSets

CONSTANTS
  Requests,  \* HTTP requests
  Clock,     \* readings of the wall clock in nanoseconds: the ids
  QueueCap,  \* capacity of the input queue of a symbol
  MaxLives,  \* bound on the lives of the matching service
  NOID       \* no id

ASSUME FlowAssumption ==
  /\ NOID \notin Clock /\ QueueCap \in Nat /\ MaxLives \in Nat \ {0}

\* What a request asks for: an order that is valid, that the gateway refuses,
\* or whose symbol is not configured; or a batch of orders.
Forms == {"valid", "invalid", "unknown", "batch"}

VARIABLES
  form,      \* the form of each request, chosen when it is sent
  gpc,       \* the gateway's handler
  opc,       \* the order service's handler
  mpc,       \* the matching service's handler
  oid,       \* the id given to the order
  answer,    \* the order the gateway's answer names: its id and status
  life,      \* the process of the matching service
  marks,     \* its idempotency marks
  queue,     \* the requests whose order is in its input queue
  accepted,  \* history: who was pushed under which id in which life
  matched    \* history: the requests whose order was matched

vars == <<form, gpc, opc, mpc, oid, answer, life, marks, queue, accepted, matched>>

callers == <<form, gpc, opc, oid, answer>>
service == <<life, marks, queue, accepted, matched>>

-----------------------------------------------------------------------------
(* The gateway                                                             *)

\* The handlers of orders and of batches; only a single order is checked.
Send(r, f) ==
  /\ gpc[r] = "idle"
  /\ form' = [form EXCEPT ![r] = f]
  /\ IF f = "invalid"
     THEN gpc' = [gpc EXCEPT ![r] = "error"] /\ UNCHANGED opc
     ELSE /\ gpc' = [gpc EXCEPT ![r] = "wait"]
          /\ opc' = [opc EXCEPT ![r] = "start"]
  /\ UNCHANGED <<mpc, oid, answer, service>>

\* determineOrderStatus of an order with that much of it traded.
DetermineOrderStatus(filled, all) ==
  IF filled = 0 THEN "pending" ELSE IF filled = all THEN "filled" ELSE "partial"

\* The matching service answers without trades, before the order is matched.
Status == DetermineOrderStatus(0, 1)

\* The answer names the order; that to a batch names none.
Named(r) ==
  IF form[r] = "batch" THEN {} ELSE {[id |-> oid[r], status |-> Status]}

GatewayAnswer(r) ==
  /\ gpc[r] = "wait" /\ opc[r] \in {"ok", "error"}
  /\ gpc' = [gpc EXCEPT ![r] = opc[r]]
  /\ answer' = IF opc[r] = "ok" THEN [answer EXCEPT ![r] = Named(r)] ELSE answer
  /\ UNCHANGED <<form, opc, mpc, oid, service>>

\* The call fails, whatever the order service does about it.
GatewayGivesUp(r) ==
  /\ gpc[r] = "wait"
  /\ gpc' = [gpc EXCEPT ![r] = "error"]
  /\ UNCHANGED <<form, opc, mpc, oid, answer, service>>

-----------------------------------------------------------------------------
(* The order service                                                       *)

\* CreateOrder: the id is what the clock reads, which two requests may share.
\* CreateBatchOrder answers at once, with nothing done.
CreateOrder(r, id) ==
  /\ opc[r] = "start" /\ form[r] # "batch"
  /\ oid' = [oid EXCEPT ![r] = id]
  /\ opc' = [opc EXCEPT ![r] = "call"]
  /\ UNCHANGED <<form, gpc, mpc, answer, service>>

CreateBatchOrder(r) ==
  /\ opc[r] = "start" /\ form[r] = "batch"
  /\ opc' = [opc EXCEPT ![r] = "ok"]
  /\ UNCHANGED <<form, gpc, mpc, oid, answer, service>>

\* A call under a context that is done fails at once.
CallMatch(r) ==
  /\ opc[r] = "call"
  /\ IF gpc[r] = "wait"
     THEN /\ opc' = [opc EXCEPT ![r] = "wait"]
          /\ mpc' = [mpc EXCEPT ![r] = "mark"]
     ELSE opc' = [opc EXCEPT ![r] = "error"] /\ UNCHANGED mpc
  /\ UNCHANGED <<form, gpc, oid, answer, service>>

\* A duplicate taken for the order itself.
SucceedsIfKnown(r) == mpc[r] = "accepted" \/ oid[r] \in marks

\* Every error of the matching service is "server internal error".
Succeeds(r) == mpc[r] = "accepted"

OrderAnswer(r) ==
  /\ opc[r] = "wait" /\ mpc[r] \in {"accepted", "refused"}
  /\ opc' = [opc EXCEPT ![r] = IF Succeeds(r) THEN "ok" ELSE "error"]
  /\ UNCHANGED <<form, gpc, mpc, oid, answer, service>>

\* A call without deadline to a service that never breaks.
WaitsForEver(r) == FALSE

\* A call may fail at any time.
MayFail(r) == TRUE

OrderGivesUp(r) ==
  /\ opc[r] = "wait" /\ MayFail(r)
  /\ opc' = [opc EXCEPT ![r] = "error"]
  /\ UNCHANGED <<form, gpc, mpc, oid, answer, service>>

-----------------------------------------------------------------------------
(* The matching service                                                    *)

Goto(r, l) == mpc' = [mpc EXCEPT ![r] = l]

\* An idempotency check that comes too late to refuse anything.
IsNewAlways(r) == oid[r] \in Clock

IsNew(r) == oid[r] \notin marks

\* LoadOrStore of the mark, and the symbol's queue.
Mark(r) ==
  /\ mpc[r] = "mark"
  /\ IF IsNew(r)
     THEN /\ marks' = marks \cup {oid[r]}
          /\ Goto(r, IF form[r] = "valid" THEN "push" ELSE "unmark")
     ELSE Goto(r, "refused") /\ UNCHANGED marks
  /\ UNCHANGED <<callers, life, queue, accepted, matched>>

\* A queue that takes one order too many.
HasRoomLate(q) == Cardinality(q) <= QueueCap

HasRoom(q) == Cardinality(q) < QueueCap

Push(r) ==
  /\ mpc[r] = "push"
  /\ IF HasRoom(queue)
     THEN /\ queue' = queue \cup {r}
          /\ accepted' = accepted \cup {[req |-> r, id |-> oid[r], life |-> life]}
          /\ Goto(r, "accepted")
     ELSE Goto(r, "unmark") /\ UNCHANGED <<queue, accepted>>
  /\ UNCHANGED <<callers, life, marks, matched>>

\* A rollback that forgets the mark.
MarksKept(r) == marks

MarksWithout(r) == marks \ {oid[r]}

Unmark(r) ==
  /\ mpc[r] = "unmark"
  /\ marks' = MarksWithout(r)
  /\ Goto(r, "refused")
  /\ UNCHANGED <<callers, life, queue, accepted, matched>>

\* A worker takes the order out of the queue and matches it.
Match(r) ==
  /\ r \in queue
  /\ queue' = queue \ {r}
  /\ matched' = matched \cup {r}
  /\ UNCHANGED <<callers, mpc, life, marks, accepted>>

\* The matching service dies and is started again: marks, queues and books are
\* gone, its handlers never answer.
Restart ==
  /\ life < MaxLives
  /\ life' = life + 1
  /\ marks' = {} /\ queue' = {}
  /\ mpc' = [r \in Requests |->
               IF mpc[r] \in {"mark", "push", "unmark"} THEN "lost" ELSE mpc[r]]
  /\ UNCHANGED <<callers, accepted, matched>>

-----------------------------------------------------------------------------

Init ==
  /\ form = [r \in Requests |-> "valid"]
  /\ gpc = [r \in Requests |-> "idle"]
  /\ opc = [r \in Requests |-> "idle"]
  /\ mpc = [r \in Requests |-> "idle"]
  /\ oid = [r \in Requests |-> NOID]
  /\ answer = [r \in Requests |-> {}]
  /\ life = 1 /\ marks = {} /\ queue = {} /\ accepted = {} /\ matched = {}

GatewayStep(r) == GatewayAnswer(r) \/ GatewayGivesUp(r)

OrderStep(r) ==
  \/ \E id \in Clock : CreateOrder(r, id)
  \/ CreateBatchOrder(r) \/ CallMatch(r) \/ OrderAnswer(r) \/ OrderGivesUp(r)

MatchingStep(r) == Mark(r) \/ Push(r) \/ Unmark(r)

Next ==
  \/ \E r \in Requests :
       \/ \E f \in Forms : Send(r, f)
       \/ GatewayStep(r) \/ OrderStep(r) \/ MatchingStep(r) \/ Match(r)
  \/ Restart

Spec == Init /\ [][Next]_vars

\* Handlers run; calls have deadlines.
FairSpec ==
  /\ Spec
  /\ \A r \in Requests :
       WF_vars(GatewayStep(r)) /\ WF_vars(OrderStep(r)) /\ WF_vars(MatchingStep(r))

-----------------------------------------------------------------------------
(* Properties                                                              *)

Acceptances == [req : Requests, id : Clock, life : 1 .. MaxLives]

\* The type of every variable, and the capacity of the queue.
TypeOK ==
  /\ form \in [Requests -> Forms]
  /\ gpc \in [Requests -> {"idle", "wait", "ok", "error"}]
  /\ opc \in [Requests -> {"idle", "start", "call", "wait", "ok", "error"}]
  /\ mpc \in [Requests -> {"idle", "mark", "push", "unmark", "accepted", "refused", "lost"}]
  /\ oid \in [Requests -> Clock \cup {NOID}]
  /\ answer \in [Requests -> SUBSET [id : Clock, status : {"pending", "partial", "filled"}]]
  /\ life \in 1 .. MaxLives
  /\ marks \subseteq Clock
  /\ queue \subseteq Requests /\ Cardinality(queue) <= QueueCap
  /\ accepted \subseteq Acceptances /\ matched \subseteq Requests

\* Whatever times out, dies or collides: a request enters the engine at most
\* once, only as a valid order, and in one life of the engine no two orders
\* have one id, although the clock gives one id to several requests.
AcceptedDistinct ==
  /\ \A a \in accepted : form[a.req] = "valid"
  /\ \A a, b \in accepted : a.req = b.req \/ (a.life = b.life /\ a.id = b.id) => a = b

\* A success is the request's own: the order it names was accepted for this
\* request and under this id, not for another one that shares the id, and its
\* status is not ahead of the engine.  (An error says nothing: the order may
\* have been accepted, before or after.)
SuccessIsOwn ==
  \A r \in Requests : gpc[r] = "ok" =>
    \A o \in answer[r] :
      /\ \E a \in accepted : a.req = r /\ a.id = o.id
      /\ o.status # "pending" => r \in matched

\* Refusals leave nothing behind: each mark is that of an order accepted in
\* this life, or of just one call that still has to push it or to roll back,
\* so that an id is not blocked by an order that never entered.
MarksOwned ==
  \A id \in marks :
    LET calls == {r \in Requests : oid[r] = id /\ mpc[r] \in {"push", "unmark"}}
        taken == {a \in accepted : a.id = id /\ a.life = life}
    IN  Cardinality(calls) + Cardinality(taken) = 1

\* Every request is answered and every handler comes to its end, also when the
\* service it waits for has died.
AllEnd ==
  \A r \in Requests :
    gpc[r] = "wait" ~>
      /\ gpc[r] \in {"ok", "error"} /\ opc[r] \in {"ok", "error"}
      /\ mpc[r] \notin {"mark", "push", "unmark"}
=============================================================================
