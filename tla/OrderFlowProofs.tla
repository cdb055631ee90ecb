-------------------------- MODULE OrderFlowProofs --------------------------
(***************************************************************************)
(* Proofs about OrderFlow, for any number of requests and clock readings,  *)
(* any capacity of the queue and any number of lives.                      *)
(*                                                                         *)
(* The argument: a mark is held by the one call that still has to push or  *)
(* to roll back, or by the one order that was accepted under it in this    *)
(* life (MarksHeld).  So a push adds an order whose id no other order of   *)
(* this life has.  An id is given once, before the call that uses it, and  *)
(* "accepted" is the end of that call (Stages, Entered), so what an answer *)
(* names is what was accepted (Answers).                                   *)
(***************************************************************************)
EXTENDS OrderFlow, FiniteSetTheorems, TLAPS

\* How far the three handlers of a request may have come.
Stages ==
  \A r \in Requests :
    /\ gpc[r] = "idle" => opc[r] = "idle"
    /\ opc[r] \in {"idle", "start", "call"} => mpc[r] = "idle" /\ answer[r] = {}
    /\ opc[r] = "start" => form[r] # "invalid"
    /\ opc[r] = "call" \/ mpc[r] # "idle" =>
         form[r] \in {"valid", "unknown"} /\ oid[r] \in Clock
    /\ mpc[r] = "push" => form[r] = "valid"
    /\ opc[r] = "ok" => form[r] = "batch" \/ mpc[r] = "accepted"

\* The accepted orders are those of the calls that ended that way.
Entered ==
  /\ \A a \in accepted :
       /\ mpc[a.req] = "accepted" /\ a.id = oid[a.req]
       /\ form[a.req] = "valid" /\ a.life <= life
  /\ \A r \in Requests : mpc[r] = "accepted" => \E a \in accepted : a.req = r
  /\ \A a, b \in accepted : a.req = b.req => a = b

\* A call that holds the mark of its id.
Holds(r) == mpc[r] \in {"push", "unmark"}

\* Who holds a mark, and that nobody else does.
MarksHeld ==
  /\ \A r \in Requests : Holds(r) => oid[r] \in marks
  /\ \A r, s \in Requests : Holds(r) /\ Holds(s) /\ oid[r] = oid[s] => r = s
  /\ \A a \in accepted : a.life = life =>
       /\ a.id \in marks
       /\ \A r \in Requests : Holds(r) => oid[r] # a.id
  /\ \A a, b \in accepted : a.life = b.life /\ a.id = b.id => a = b
  /\ \A id \in marks :
       \/ \E r \in Requests : Holds(r) /\ oid[r] = id
       \/ \E a \in accepted : a.life = life /\ a.id = id

\* What an answer names.
Answers ==
  \A r \in Requests : \A o \in answer[r] :
    opc[r] = "ok" /\ mpc[r] = "accepted" /\ o = [id |-> oid[r], status |-> "pending"]

FlowInv ==
  TypeOK /\ IsFiniteSet(queue) /\ Stages /\ Entered /\ MarksHeld /\ Answers

LEMMA FlowInit == Init => FlowInv
<1> SUFFICES ASSUME Init PROVE FlowInv
  OBVIOUS
<1>1. TypeOK
  <2>1. Cardinality(queue) <= QueueCap
    BY FS_EmptySet, FlowAssumption DEF Init
  <2> QED
    BY <2>1, FlowAssumption DEF Init, TypeOK, Forms
<1>2. IsFiniteSet(queue)
  BY FS_EmptySet DEF Init
<1>3. Stages /\ Entered /\ MarksHeld /\ Answers
  BY DEF Init, Stages, Entered, MarksHeld, Holds, Answers
<1> QED
  BY <1>1, <1>2, <1>3 DEF FlowInv

\* The steps of the gateway, and the order service's up to its call: nothing
\* that is in the matching service changes.
LEMMA CallersKeepInv ==
  ASSUME FlowInv, NEW r \in Requests,
         \/ \E f \in Forms : Send(r, f)
         \/ GatewayAnswer(r) \/ GatewayGivesUp(r)
         \/ \E id \in Clock : CreateOrder(r, id)
         \/ CreateBatchOrder(r) \/ CallMatch(r) \/ OrderAnswer(r) \/ OrderGivesUp(r)
  PROVE  FlowInv'
<1> USE DEF FlowInv
<1>1. ASSUME NEW f \in Forms, Send(r, f) PROVE FlowInv'
  <2>1. TypeOK' /\ IsFiniteSet(queue)'
    BY <1>1 DEF Send, TypeOK, service
  <2>2. Stages'
    BY <1>1 DEF Send, TypeOK, Stages, Forms, service
  <2>3. Entered' /\ Answers'
    BY <1>1 DEF Send, TypeOK, Stages, Entered, Answers, service
  <2>4. MarksHeld'
    BY <1>1 DEF Send, MarksHeld, Holds, service
  <2> QED
    BY <2>1, <2>2, <2>3, <2>4
<1>2. CASE GatewayAnswer(r)
  <2>1. TypeOK' /\ IsFiniteSet(queue)'
    BY <1>2 DEF GatewayAnswer, TypeOK, Stages, Named, Status, DetermineOrderStatus, service
  <2>2. Stages'
    BY <1>2 DEF GatewayAnswer, TypeOK, Stages, service
  <2>3. Answers'
    BY <1>2 DEF GatewayAnswer, TypeOK, Stages, Answers, Named, Status,
                DetermineOrderStatus, service
  <2>4. Entered' /\ MarksHeld'
    BY <1>2 DEF GatewayAnswer, Entered, MarksHeld, Holds, service
  <2> QED
    BY <2>1, <2>2, <2>3, <2>4
<1>3. CASE GatewayGivesUp(r)
  BY <1>3 DEF GatewayGivesUp, TypeOK, Stages, Entered, MarksHeld, Holds, Answers, service
<1>4. ASSUME NEW id \in Clock, CreateOrder(r, id) PROVE FlowInv'
  <2>1. TypeOK' /\ IsFiniteSet(queue)'
    BY <1>4 DEF CreateOrder, TypeOK, service
  <2>2. Stages'
    BY <1>4 DEF CreateOrder, TypeOK, Stages, Forms, service
  <2>3. Entered' /\ Answers'
    BY <1>4 DEF CreateOrder, TypeOK, Stages, Entered, Acceptances, Answers, service
  <2>4. MarksHeld'
    BY <1>4 DEF CreateOrder, TypeOK, Stages, MarksHeld, Holds, service
  <2> QED
    BY <2>1, <2>2, <2>3, <2>4
<1>5. CASE CreateBatchOrder(r)
  BY <1>5 DEF CreateBatchOrder, TypeOK, Stages, Entered, MarksHeld, Holds, Answers, service
<1>6. CASE CallMatch(r)
  <2>1. TypeOK' /\ IsFiniteSet(queue)'
    BY <1>6 DEF CallMatch, TypeOK, service
  <2>2. Stages'
    BY <1>6 DEF CallMatch, TypeOK, Stages, service
  <2>3. Entered' /\ Answers'
    BY <1>6 DEF CallMatch, TypeOK, Stages, Entered, Acceptances, Answers, service
  <2>4. MarksHeld'
    BY <1>6 DEF CallMatch, TypeOK, Stages, MarksHeld, Holds, service
  <2> QED
    BY <2>1, <2>2, <2>3, <2>4
<1>7. CASE OrderAnswer(r)
  <2>1. TypeOK' /\ IsFiniteSet(queue)'
    BY <1>7 DEF OrderAnswer, TypeOK, service
  <2>2. Stages'
    BY <1>7 DEF OrderAnswer, Succeeds, TypeOK, Stages, service
  <2>3. Entered' /\ Answers' /\ MarksHeld'
    BY <1>7 DEF OrderAnswer, TypeOK, Entered, Answers, MarksHeld, Holds, service
  <2> QED
    BY <2>1, <2>2, <2>3
<1>8. CASE OrderGivesUp(r)
  BY <1>8 DEF OrderGivesUp, TypeOK, Stages, Entered, MarksHeld, Holds, Answers, service
<1> QED
  BY <1>1, <1>2, <1>3, <1>4, <1>5, <1>6, <1>7, <1>8

\* The steps of the matching service.
LEMMA ServiceKeepsInv ==
  ASSUME FlowInv, NEW r \in Requests,
         Mark(r) \/ Push(r) \/ Unmark(r) \/ Match(r)
  PROVE  FlowInv'
<1> USE DEF FlowInv
<1>1. CASE Mark(r)
  <2>1. TypeOK' /\ IsFiniteSet(queue)'
    BY <1>1 DEF Mark, Goto, TypeOK, Stages, callers
  <2>2. Stages'
    BY <1>1 DEF Mark, Goto, TypeOK, Stages, callers
  <2>3. Entered' /\ Answers'
    BY <1>1 DEF Mark, Goto, TypeOK, Entered, Acceptances, Answers, callers
  <2>4. CASE IsNew(r)
    <3>1. /\ marks' = marks \cup {oid[r]} /\ oid[r] \notin marks
          /\ mpc' = [mpc EXCEPT ![r] = IF form[r] = "valid" THEN "push" ELSE "unmark"]
          /\ UNCHANGED <<oid, life, accepted>>
      BY <1>1, <2>4 DEF Mark, Goto, IsNew, callers
    <3>2. \A s \in Requests : Holds(s)' <=> s = r \/ Holds(s)
      BY <1>1, <3>1 DEF Mark, Holds, TypeOK
    <3> QED
      BY <2>1, <2>2, <2>3, <3>1, <3>2 DEF MarksHeld
  <2>5. CASE ~IsNew(r)
    <3>1. MarksHeld'
      BY <1>1, <2>5 DEF Mark, Goto, TypeOK, MarksHeld, Holds, callers
    <3> QED
      BY <2>1, <2>2, <2>3, <3>1
  <2> QED
    BY <2>4, <2>5
<1>2. CASE Push(r)
  <2>1. CASE HasRoom(queue)
    <3> DEFINE new == [req |-> r, id |-> oid[r], life |-> life]
    <3>1. /\ mpc[r] = "push" /\ mpc' = [mpc EXCEPT ![r] = "accepted"]
          /\ queue' = queue \cup {r} /\ accepted' = accepted \cup {new}
          /\ UNCHANGED <<callers, life, marks, matched>>
      BY <1>2, <2>1 DEF Push, Goto
    <3>2. IsFiniteSet(queue') /\ Cardinality(queue') <= QueueCap
      <4>1. /\ IsFiniteSet(queue \cup {r})
            /\ Cardinality(queue \cup {r}) =
                 IF r \in queue THEN Cardinality(queue) ELSE Cardinality(queue) + 1
        BY FS_AddElement
      <4>2. Cardinality(queue) \in Nat
        BY FS_CardinalityType
      <4> QED
        BY <2>1, <3>1, <4>1, <4>2, FlowAssumption DEF HasRoom
    <3>3. TypeOK' /\ IsFiniteSet(queue)'
      BY <3>1, <3>2 DEF TypeOK, Stages, Acceptances, callers
    <3>4. Stages' /\ Answers'
      BY <3>1 DEF TypeOK, Stages, Answers, callers
    <3>5. Entered'
      <4>1. new.req = r /\ new.id = oid[r] /\ new.life = life /\ form[r] = "valid"
        BY <3>1 DEF Stages
      <4>2. /\ mpc'[r] = "accepted" /\ UNCHANGED <<oid, form, life>>
            /\ \A s \in Requests : s # r => mpc'[s] = mpc[s]
        BY <3>1 DEF TypeOK, callers
      <4>3. \A a \in accepted : a.req \in Requests /\ a.req # r
        BY <3>1 DEF TypeOK, Entered, Acceptances
      <4>4. life \in Nat
        BY FlowAssumption DEF TypeOK
      <4> HIDE DEF new
      <4>5. \A a \in accepted' :
              /\ mpc'[a.req] = "accepted" /\ a.id = oid'[a.req]
              /\ form'[a.req] = "valid" /\ a.life <= life'
        BY <3>1, <4>1, <4>2, <4>3, <4>4 DEF Entered
      <4>6. \A s \in Requests : mpc'[s] = "accepted" => \E a \in accepted' : a.req = s
        BY <3>1, <4>1, <4>2 DEF Entered
      <4>7. \A a, b \in accepted' : a.req = b.req => a = b
        BY <3>1, <4>1, <4>3 DEF Entered
      <4> QED
        BY <4>5, <4>6, <4>7 DEF Entered
    <3>6. MarksHeld'
      <4>1. /\ Holds(r) /\ ~Holds(r)'
            /\ \A s \in Requests : s # r => (Holds(s)' <=> Holds(s))
        BY <3>1 DEF Holds, TypeOK
      <4>2. UNCHANGED <<oid, marks, life>>
        BY <3>1 DEF callers
      <4>3. new.id = oid[r] /\ new.life = life
        OBVIOUS
      <4>4. \A a \in accepted : a.life = life => a.id # new.id
        BY <4>1 DEF MarksHeld
      <4> HIDE DEF new
      <4>5. \A a \in accepted' : a.life = life' =>
              a.id \in marks' /\ \A s \in Requests : Holds(s)' => oid'[s] # a.id
        BY <3>1, <4>1, <4>2, <4>3 DEF MarksHeld
      <4>6. \A a, b \in accepted' : a.life = b.life /\ a.id = b.id => a = b
        BY <3>1, <4>3, <4>4 DEF MarksHeld
      <4>7. \A id \in marks' :
              \/ \E s \in Requests : Holds(s)' /\ oid'[s] = id
              \/ \E a \in accepted' : a.life = life' /\ a.id = id
        BY <3>1, <4>1, <4>2, <4>3 DEF MarksHeld
      <4> QED
        BY <4>1, <4>2, <4>5, <4>6, <4>7 DEF MarksHeld
    <3> QED
      BY <3>3, <3>4, <3>5, <3>6
  <2>2. CASE ~HasRoom(queue)
    BY <1>2, <2>2 DEF Push, Goto, TypeOK, Stages, Entered, Acceptances, MarksHeld, Holds,
                      Answers, callers
  <2> QED
    BY <2>1, <2>2
<1>3. CASE Unmark(r)
  <2>1. TypeOK' /\ IsFiniteSet(queue)'
    BY <1>3 DEF Unmark, MarksWithout, Goto, TypeOK, callers
  <2>2. Stages'
    BY <1>3 DEF Unmark, Goto, TypeOK, Stages, callers
  <2>3. Entered' /\ Answers'
    BY <1>3 DEF Unmark, Goto, TypeOK, Entered, Acceptances, Answers, callers
  <2>4. MarksHeld'
    <3>1. /\ Holds(r) /\ ~Holds(r)'
          /\ \A s \in Requests : s # r => (Holds(s)' <=> Holds(s))
      BY <1>3 DEF Unmark, Goto, Holds, TypeOK
    <3>2. marks' = marks \ {oid[r]} /\ UNCHANGED <<oid, life, accepted>>
      BY <1>3 DEF Unmark, MarksWithout, callers
    <3> QED
      BY <3>1, <3>2 DEF MarksHeld
  <2> QED
    BY <2>1, <2>2, <2>3, <2>4
<1>4. CASE Match(r)
  <2>1. /\ IsFiniteSet(queue \ {r})
        /\ Cardinality(queue \ {r}) =
             IF r \in queue THEN Cardinality(queue) - 1 ELSE Cardinality(queue)
    BY FS_RemoveElement
  <2>2. IsFiniteSet(queue') /\ Cardinality(queue') <= QueueCap
    <3>1. Cardinality(queue) \in Nat
      BY FS_CardinalityType
    <3> QED
      BY <1>4, <2>1, <3>1, FlowAssumption DEF Match, TypeOK
  <2>3. TypeOK' /\ IsFiniteSet(queue)'
    BY <1>4, <2>2 DEF Match, TypeOK, callers
  <2>4. Stages' /\ Entered' /\ MarksHeld' /\ Answers'
    BY <1>4 DEF Match, Stages, Entered, MarksHeld, Holds, Answers, callers
  <2> QED
    BY <2>3, <2>4
<1> QED
  BY <1>1, <1>2, <1>3, <1>4

\* A restart: nobody holds a mark, and no order was accepted in the new life.
LEMMA RestartKeepsInv ==
  ASSUME FlowInv, Restart
  PROVE  FlowInv'
<1> USE DEF FlowInv
<1>1. TypeOK' /\ IsFiniteSet(queue)'
  BY FS_EmptySet, FlowAssumption DEF Restart, TypeOK, Acceptances, callers
<1>2. Stages' /\ Answers'
  BY DEF Restart, TypeOK, Stages, Answers, callers
<1>3. Entered'
  BY FlowAssumption DEF Restart, TypeOK, Entered, Acceptances, callers
<1>4. MarksHeld'
  <2>1. \A r \in Requests : ~Holds(r)'
    BY DEF Restart, Holds, TypeOK
  <2>2. \A a \in accepted' : a.life # life'
    BY FlowAssumption DEF Restart, Entered, TypeOK, Acceptances
  <2> QED
    BY <2>1, <2>2 DEF Restart, MarksHeld
<1> QED
  BY <1>1, <1>2, <1>3, <1>4

LEMMA FlowNext == FlowInv /\ [Next]_vars => FlowInv'
<1> SUFFICES ASSUME FlowInv, [Next]_vars PROVE FlowInv'
  OBVIOUS
<1>1. ASSUME NEW r \in Requests, NEW f \in Forms, Send(r, f) PROVE FlowInv'
  BY <1>1, CallersKeepInv
<1>2. ASSUME NEW r \in Requests, GatewayStep(r) \/ OrderStep(r) PROVE FlowInv'
  BY <1>2, CallersKeepInv DEF GatewayStep, OrderStep
<1>3. ASSUME NEW r \in Requests, MatchingStep(r) \/ Match(r) PROVE FlowInv'
  BY <1>3, ServiceKeepsInv DEF MatchingStep
<1>4. CASE Restart
  BY <1>4, RestartKeepsInv
<1>5. CASE UNCHANGED vars
  BY <1>5 DEF FlowInv, vars, TypeOK, Stages, Entered, MarksHeld, Holds, Answers
<1> QED
  BY <1>1, <1>2, <1>3, <1>4, <1>5 DEF Next

LEMMA FlowInvariant == Spec => []FlowInv
<1> QED
  BY FlowInit, FlowNext, PTL DEF Spec

-----------------------------------------------------------------------------
(* The theorems                                                            *)

\* Every handler's steps keep the types, and the queue its capacity.
THEOREM FlowTypeCorrect == Spec => []TypeOK
<1>1. FlowInv => TypeOK
  BY DEF FlowInv
<1> QED
  BY <1>1, FlowInvariant, PTL

\* No request is accepted twice, and no two orders of one life of the engine
\* have one id, although the clock hands out equal ids (sequencer.go:8,
\* engin.go:188).
THEOREM FlowAcceptsOnce == Spec => []AcceptedDistinct
<1>1. FlowInv => AcceptedDistinct
  BY DEF FlowInv, Entered, MarksHeld, AcceptedDistinct
<1> QED
  BY <1>1, FlowInvariant, PTL

\* A success names the request's own order, accepted under the id it names,
\* and reports it pending until it is matched (createOrderLogic.go:50-73).
THEOREM FlowSuccessIsOwn == Spec => []SuccessIsOwn
<1>1. FlowInv => SuccessIsOwn
  BY DEF FlowInv, Entered, Answers, SuccessIsOwn
<1> QED
  BY <1>1, FlowInvariant, PTL

\* A mark is held by exactly one call in progress or accepted order of this
\* life (the rollback of engin.go:194 and 214).
THEOREM FlowMarksOwned == Spec => []MarksOwned
<1>1. ASSUME FlowInv PROVE MarksOwned
  <2> SUFFICES ASSUME NEW id \in marks
               PROVE  Cardinality({r \in Requests : oid[r] = id /\ mpc[r] \in {"push", "unmark"}})
                       + Cardinality({a \in accepted : a.id = id /\ a.life = life}) = 1
    BY DEF MarksOwned
  <2> DEFINE calls == {r \in Requests : oid[r] = id /\ mpc[r] \in {"push", "unmark"}}
             taken == {a \in accepted : a.id = id /\ a.life = life}
  <2>1. MarksHeld
    BY <1>1 DEF FlowInv
  <2>2. CASE \E r \in Requests : Holds(r) /\ oid[r] = id
    <3>1. PICK r \in Requests : Holds(r) /\ oid[r] = id
      BY <2>2
    <3>2. calls = {r} /\ taken = {}
      BY <2>1, <3>1 DEF MarksHeld, Holds
    <3>3. Cardinality(calls) = 1 /\ Cardinality(taken) = 0
      BY <3>2, FS_Singleton, FS_EmptySet
    <3> QED
      BY <3>3
  <2>3. CASE ~\E r \in Requests : Holds(r) /\ oid[r] = id
    <3>1. PICK a \in accepted : a.life = life /\ a.id = id
      BY <2>1, <2>3 DEF MarksHeld
    <3>2. calls = {} /\ taken = {a}
      BY <2>1, <2>3, <3>1 DEF MarksHeld, Holds
    <3>3. Cardinality(calls) = 0 /\ Cardinality(taken) = 1
      BY <3>2, FS_Singleton, FS_EmptySet
    <3> QED
      BY <3>3
  <2> QED
    BY <2>2, <2>3
<1> QED
  BY <1>1, FlowInvariant, PTL
=============================================================================
