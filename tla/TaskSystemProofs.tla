--------------------------- MODULE TaskSystemProofs ---------------------------
(***************************************************************************)
(* What TaskSystem guarantees for any set of tasks, clients and requests.  *)
(***************************************************************************)
EXTENDS TaskSystem, SequenceTheorems, TLAPS

(* The four statements keep the columns well typed.                        *)
RowsOK ==
    /\ status \in [Task -> Status]
    /\ plan_todo \in [Task -> Seq(Nat)]
    /\ plan_parent \in [Task -> Task \cup {NoTask}]

LEMMA InsertRowsOK ==
  ASSUME RowsOK, NEW t \in Task, NEW p \in Task \cup {NoTask}, Insert(t, p)
  PROVE  RowsOK'
<1>1. << >> \in Seq(Nat)  BY EmptySeq
<1>2. QED  BY <1>1 DEF RowsOK, Insert, Status, Lifecycle!Status, Lifecycle!RowStatus

LEMMA DeleteRowsOK ==
  ASSUME RowsOK, NEW t \in Task, Delete(t)
  PROVE  RowsOK'
<1>1. << >> \in Seq(Nat)  BY EmptySeq
<1>2. QED  BY <1>1 DEF RowsOK, Delete, Status, Lifecycle!Status, Lifecycle!RowStatus

LEMMA SetStatusRowsOK ==
  ASSUME RowsOK, NEW t \in Task, NEW new \in Status, SetStatus(t, new)
  PROVE  RowsOK'
BY DEF RowsOK, SetStatus

LEMMA SetTodoRowsOK ==
  ASSUME RowsOK, NEW t \in Task, NEW todo \in Seq(Nat), SetTodo(t, todo)
  PROVE  RowsOK'
BY DEF RowsOK, SetTodo

(* A request that moves on to a statement it is equipped for stays one.    *)
CallsOK ==
    /\ pc \in [Client -> Returned \cup Running]
    /\ req \in [Client -> Request \cup {NoRequest}]
    /\ CallOK

LEMMA GotoCallsOK ==
  ASSUME CallsOK, NEW c \in Client, pc[c] \in Running,
         NEW l \in Returned \cup Running, Goto(c, l),
         l \in {"discard", "resume_read", "resume_write"} => req[c].resume \in Task,
         l \in Running \ {"resume_read", "resume_write"} => req[c].task \in Task
  PROVE  CallsOK'
BY DEF CallsOK, CallOK, Goto, Returned, Running

LEMMA RequestFields ==
  ASSUME NEW r \in Request
  PROVE  /\ r.task \in Task \cup {NoTask} /\ r.resume \in Task \cup {NoTask}
         /\ r.plan \in Nat /\ r.to \in Lifecycle!RowStatus
         /\ ~r.complete => r.task # NoTask
         /\ NewStatus(r) \in Lifecycle!RowStatus
BY ConstantsOK DEF ConstantsOK, Requests, NewStatus, Lifecycle!RowStatus

LEMMA AfterActivationOK ==
  ASSUME NEW r \in Request
  PROVE  LET l == AfterActivation(r) IN
         /\ l \in Returned \cup Running
         /\ l \in {"discard", "resume_read", "resume_write"} => r.resume \in Task
         /\ l \in Running \ {"resume_read", "resume_write"} => r.task \in Task
BY RequestFields DEF AfterActivation, Returned, Running

LEMMA DivNat ==
  ASSUME NEW n \in Nat, NEW d \in Nat \ {0}
  PROVE  n \div d \in Nat
OBVIOUS

LEMMA MinuteNat ==
  ASSUME NEW n \in Second
  PROVE  Minute(n) \in Nat
<1>1. n \in Nat  BY DEF Second
<1>2. SecondsPerMinute \in Nat \ {0}  BY ConstantsOK DEF ConstantsOK
<1>3. QED  BY <1>1, <1>2, DivNat DEF Minute

LEMMA PlanStepsSeq ==
  ASSUME NEW n \in Nat, nextStep \in Nat \ {0}
  PROVE  PlanSteps(n) \in Seq(Nat)
<1>1. PlanSteps(n) \in [1 .. n -> Nat]
  BY DEF PlanSteps
<1>2. QED  BY <1>1, SeqDef

(* The statements a request is at.                                         *)
LEMMA StatementTypeOK ==
  ASSUME TypeOK, NEW c \in Client, Statement(c)
  PROVE  TypeOK'
<1> DEFINE r == req[c]
<1>1. pc[c] \in Running => r \in Request
  BY DEF TypeOK, CallOK
<1>2. CallsOK /\ RowsOK
  BY DEF TypeOK, CallsOK, RowsOK
<1> USE DEF At
<1> SUFFICES CallsOK' /\ RowsOK' /\ UNCHANGED <<dispatch, now, dispatched>>
             /\ anchors' \subseteq (Task \X Nat) /\ nextStep' \in Nat \ {0}
  BY DEF TypeOK, CallsOK, RowsOK, dispatch
<1> USE DEF At
<1>3. CASE ActivateRead(c)
  <2>1. pc[c] \in Running /\ r \in Request /\ r.task \in Task
    BY <1>1, <1>3 DEF ActivateRead, Running, TypeOK, CallOK
  <2>2. CallsOK'
    BY <1>2, <1>3, <2>1, AfterActivationOK, GotoCallsOK DEF ActivateRead, Running, Returned
  <2>3. QED  BY <1>2, <1>3, <2>2 DEF ActivateRead, rows, history, TypeOK, RowsOK
<1>4. CASE ActivateWrite(c)
  <2>1. pc[c] \in Running /\ r \in Request /\ r.task \in Task
    BY <1>1, <1>4 DEF ActivateWrite, Running, TypeOK, CallOK
  <2>2. CallsOK'
    BY <1>2, <1>4, <2>1, AfterActivationOK, GotoCallsOK DEF ActivateWrite
  <2>3. RowsOK'
    BY <1>2, <1>4, <2>1, SetStatusRowsOK
       DEF ActivateWrite, Status, Lifecycle!Status, Lifecycle!RowStatus
  <2>4. QED  BY <1>4, <2>2, <2>3 DEF ActivateWrite, history, TypeOK
<1>5. CASE DiscardCurrent(c)
  <2>1. pc[c] \in Running /\ r \in Request /\ r.task \in Task /\ r.resume \in Task
    BY <1>1, <1>5 DEF DiscardCurrent, Running, TypeOK, CallOK
  <2>2. CallsOK'
    BY <1>2, <1>5, <2>1, GotoCallsOK DEF DiscardCurrent, Running, Returned
  <2>3. RowsOK'
    BY <1>2, <1>5, <2>1, DeleteRowsOK DEF DiscardCurrent
  <2>4. QED  BY <1>5, <2>2, <2>3 DEF DiscardCurrent, history, TypeOK
<1>6. CASE ResumeRead(c)
  <2>1. pc[c] \in Running /\ r \in Request /\ r.resume \in Task
    BY <1>1, <1>6 DEF ResumeRead, Running, TypeOK, CallOK
  <2>2. CallsOK'
    BY <1>2, <1>6, <2>1, GotoCallsOK DEF ResumeRead, Running, Returned
  <2>3. QED  BY <1>2, <1>6, <2>2 DEF ResumeRead, rows, history, TypeOK, RowsOK
<1>7. CASE ResumeWrite(c)
  <2>1. pc[c] \in Running /\ r \in Request /\ r.resume \in Task
    BY <1>1, <1>7 DEF ResumeWrite, Running, TypeOK, CallOK
  <2>2. CallsOK'
    BY <1>2, <1>7, <2>1, GotoCallsOK DEF ResumeWrite, Running, Returned
  <2>3. RowsOK'
    BY <1>2, <1>7, <2>1, SetStatusRowsOK
       DEF ResumeWrite, Status, Lifecycle!Status, Lifecycle!RowStatus
  <2>4. QED  BY <1>7, <2>2, <2>3 DEF ResumeWrite, history, TypeOK
<1>8. CASE SetPlan(c)
  <2>1. pc[c] \in Running /\ r \in Request /\ r.task \in Task
    BY <1>1, <1>8 DEF SetPlan, Running, TypeOK, CallOK
  <2>2. CallsOK'
    BY <1>2, <1>8, <2>1, GotoCallsOK DEF SetPlan, Running, Returned
  <2>3. r.plan \in Nat /\ nextStep \in Nat \ {0}
    BY <2>1, RequestFields DEF TypeOK
  <2>4. PlanSteps(r.plan) \in Seq(Nat)
    BY <2>3, PlanStepsSeq
  <2>5. RowsOK'
    BY <1>2, <1>8, <2>1, <2>4, SetTodoRowsOK DEF SetPlan
  <2>6. QED  BY <1>8, <2>2, <2>3, <2>5 DEF SetPlan, TypeOK
<1>9. CASE StatusRead(c)
  <2>1. pc[c] \in Running /\ r \in Request /\ r.task \in Task
    BY <1>1, <1>9 DEF StatusRead, Running, TypeOK, CallOK
  <2>2. CallsOK'
    BY <1>2, <1>9, <2>1, GotoCallsOK DEF StatusRead, Running, Returned
  <2>3. QED  BY <1>2, <1>9, <2>2 DEF StatusRead, rows, history, TypeOK, RowsOK
<1>10. CASE StatusWrite(c)
  <2>1. pc[c] \in Running /\ r \in Request /\ r.task \in Task
    BY <1>1, <1>10 DEF StatusWrite, Running, TypeOK, CallOK
  <2>2. CallsOK'
    BY <1>2, <1>10, <2>1, GotoCallsOK DEF StatusWrite, Running, Returned
  <2>3. NewStatus(r) \in Status
    BY <2>1, RequestFields DEF Status, Lifecycle!Status
  <2>4. RowsOK'
    BY <1>2, <1>10, <2>1, <2>3, SetStatusRowsOK DEF StatusWrite
  <2>5. QED  BY <1>10, <2>2, <2>4 DEF StatusWrite, history, TypeOK
<1>11. CASE CreateAnchor(c)
  <2>1. pc[c] \in Running /\ r \in Request /\ r.task \in Task
    BY <1>1, <1>11 DEF CreateAnchor, Running, TypeOK, CallOK
  <2>2. CallsOK'
    BY <1>2, <1>11, <2>1, GotoCallsOK DEF CreateAnchor, Running, Returned
  <2>3. Minute(now) \in Nat
    BY MinuteNat DEF TypeOK
  <2>4. anchors' \subseteq (Task \X Nat)
    BY <1>11, <2>1, <2>3 DEF CreateAnchor, TypeOK
  <2>5. QED  BY <1>2, <1>11, <2>2, <2>4 DEF CreateAnchor, rows, history, TypeOK, RowsOK
<1>12. CASE CreateRegenTask(c)
  <2>1. pc[c] \in Running /\ r \in Request /\ r.task \in Task
    BY <1>1, <1>12 DEF CreateRegenTask, Running, TypeOK, CallOK
  <2>2. CallsOK'
    BY <1>2, <1>12, <2>1, GotoCallsOK DEF CreateRegenTask, Running, Returned
  <2>3. RegenId[now] \in Task
    BY ConstantsOK DEF ConstantsOK, TypeOK
  <2>4. RowsOK'
    BY <1>2, <1>12, <2>3, InsertRowsOK DEF CreateRegenTask, rows, RowsOK
  <2>5. QED  BY <1>12, <2>2, <2>4 DEF CreateRegenTask, history, TypeOK
<1>13. QED
  BY <1>3, <1>4, <1>5, <1>6, <1>7, <1>8, <1>9, <1>10, <1>11, <1>12 DEF Statement

(* The first statement of a call.                                          *)
LEMMA CallTypeOK ==
  ASSUME TypeOK, NEW c \in Client, NEW r \in Request, Call(c, r)
  PROVE  TypeOK'
<1> DEFINE l == FirstStatement(r)
<1>1. /\ l \in Running
      /\ l \in {"discard", "resume_read", "resume_write"} => r.resume \in Task
      /\ l \in Running \ {"resume_read", "resume_write"} => r.task \in Task
  <2>1. CASE r.complete /\ r.task = NoTask
    <3>1. l = AfterActivation(r)  BY <2>1 DEF FirstStatement
    <3>2. QED  BY <3>1, AfterActivationOK DEF Call
  <2>2. CASE ~(r.complete /\ r.task = NoTask)
    BY <2>2, RequestFields DEF FirstStatement, Running
  <2>3. QED  BY <2>1, <2>2
<1>2. CallOK'
  BY <1>1 DEF Call, TypeOK, CallOK
<1>3. pc' \in [Client -> Returned \cup Running] /\ req' \in [Client -> Request \cup {NoRequest}]
  BY <1>1 DEF Call, TypeOK
<1>4. QED
  BY <1>2, <1>3 DEF Call, TypeOK, rows, dispatch, history

LEMMA AbortTypeOK ==
  ASSUME TypeOK, NEW c \in Client, Abort(c)
  PROVE  TypeOK'
<1>1. CallsOK /\ pc[c] \in Running /\ req[c] \in Request
  BY DEF TypeOK, CallsOK, CallOK, Abort
<1>2. CallsOK'
  <2>1. CASE Goto(c, "err")
    BY <1>1, <2>1, GotoCallsOK DEF Returned, Running
  <2>2. CASE Goto(c, AfterActivation(req[c]))
    BY <1>1, <2>2, GotoCallsOK, AfterActivationOK
  <2>3. CASE Goto(c, "ok")
    BY <1>1, <2>3, GotoCallsOK DEF Returned, Running
  <2>4. QED  BY <2>1, <2>2, <2>3 DEF Abort
<1>3. QED
  BY <1>2 DEF Abort, CallsOK, TypeOK, rows, dispatch, history

(* The dispatcher.                                                         *)
LEMMA DispatchTypeOK ==
  ASSUME TypeOK, Dispatch
  PROVE  TypeOK'
<1> USE DEF calls, rows, history
<1>0. RowsOK /\ CallOK
  BY DEF TypeOK, RowsOK
<1>1. CASE TickStart
  BY <1>0, <1>1 DEF TickStart, TypeOK, CallOK, PlanPending
<1>2. CASE \E p \in Task : SkipPlanner(p)
  BY <1>0, <1>2 DEF SkipPlanner, TypeOK, CallOK
<1>3. CASE \E p \in Task : VisitPlanner(p)
  BY <1>0, <1>3 DEF VisitPlanner, TypeOK, CallOK
<1>4. CASE PopRead
  BY <1>0, <1>4 DEF PopRead, TypeOK, CallOK
<1>5. CASE PopWrite
  <2>1. planner \in Task /\ held \in Seq(Nat) /\ held # << >>
    BY <1>5 DEF PopWrite, TypeOK
  <2>2. Tail(held) \in Seq(Nat)
    BY <2>1, HeadTailProperties
  <2>3. RowsOK'
    BY <1>0, <1>5, <2>1, <2>2, SetTodoRowsOK DEF PopWrite
  <2>4. QED  BY <1>0, <1>5, <2>1, <2>3 DEF PopWrite, RowsOK, TypeOK, CallOK
<1>6. CASE CreateExecutor
  <2> DEFINE e == ExecutorId[<<planner, now>>]
  <2>1. planner \in Task /\ now \in Second /\ held \in Seq(Nat) /\ held # << >>
    BY <1>6 DEF CreateExecutor, TypeOK
  <2>2. e \in Task
    BY <2>1, ConstantsOK DEF ConstantsOK
  <2>3. << >> \in Seq(Nat) /\ Head(held) \in Nat
    BY <2>1, HeadTailProperties, EmptySeq
  <2>4. CASE Exists(e)
    BY <1>0, <1>6, <2>3, <2>4 DEF CreateExecutor, TypeOK, CallOK
  <2>5. CASE ~Exists(e)
    <3>1. RowsOK'
      BY <1>0, <1>6, <2>1, <2>2, <2>5, InsertRowsOK DEF CreateExecutor
    <3>2. <<planner, Head(held)>> \in Task \X Nat
      BY <2>1, <2>3
    <3>3. dispatched' \in Seq(Task \X Nat)
      <4> DEFINE x == <<planner, Head(held)>>
      <4>1. dispatched' = Append(dispatched, x)
        BY <1>6, <2>5 DEF CreateExecutor
      <4>2. x \in Task \X Nat /\ dispatched \in Seq(Task \X Nat)
        BY <3>2 DEF TypeOK
      <4> HIDE DEF x
      <4>3. Append(dispatched, x) \in Seq(Task \X Nat)
        BY <4>2, AppendProperties
      <4>4. QED  BY <4>1, <4>3
    <3>4. QED
      BY <1>0, <1>6, <2>3, <2>5, <3>1, <3>3 DEF CreateExecutor, RowsOK, TypeOK, CallOK
  <2>6. QED  BY <2>4, <2>5
<1>7. CASE TickEnd
  BY <1>0, <1>7 DEF TickEnd, TypeOK, CallOK
<1>8. QED
  BY <1>1, <1>2, <1>3, <1>4, <1>5, <1>6, <1>7 DEF Dispatch

(* TypeOK is inductive, so the columns, the program counters and the       *)
(* dispatcher's locals have their shape in every reachable state.          *)
THEOREM TypeCorrect == Spec => []TypeOK
<1>1. Init => TypeOK
  <2> SUFFICES ASSUME Init PROVE TypeOK
    OBVIOUS
  <2>1. << >> \in Seq(Nat) /\ << >> \in Seq(Task \X Nat)
    BY EmptySeq
  <2>2. MaxNow \in Nat
    BY ConstantsOK DEF ConstantsOK
  <2>3. RowsOK
    BY <2>1 DEF Init, RowsOK, Status, Lifecycle!Status
  <2>4. CallOK /\ pc \in [Client -> Returned \cup Running]
    BY DEF Init, CallOK, Returned, Running
  <2>5. now \in Second
    BY <2>2 DEF Init, Second
  <2>6. /\ req \in [Client -> Request \cup {NoRequest}]
        /\ planner \in Task \cup {NoTask} /\ held \in Seq(Nat)
        /\ dispatched \in Seq(Task \X Nat) /\ nextStep \in Nat \ {0}
    BY <2>1 DEF Init
  <2>7. QED
    BY <2>3, <2>4, <2>5, <2>6 DEF Init, RowsOK, TypeOK
<1>2. TypeOK /\ [Next]_vars => TypeOK'
  <2> SUFFICES ASSUME TypeOK, [Next]_vars PROVE TypeOK'
    OBVIOUS
  <2>1. ASSUME NEW t \in RuntimeTask, CreateTask(t) PROVE TypeOK'
    <3>1. t \in Task /\ RowsOK
      BY ConstantsOK DEF ConstantsOK, TypeOK, RowsOK
    <3>2. RowsOK'
      BY <2>1, <3>1, InsertRowsOK DEF CreateTask
    <3>3. QED
      BY <2>1, <3>2 DEF CreateTask, RowsOK, TypeOK, CallOK, calls, dispatch, history
  <2>2. ASSUME NEW c \in Client, NEW r \in Request, Call(c, r) PROVE TypeOK'
    BY <2>2, CallTypeOK
  <2>3. ASSUME NEW c \in Client, Statement(c) PROVE TypeOK'
    BY <2>3, StatementTypeOK
  <2>4. ASSUME NEW c \in Client, Abort(c) PROVE TypeOK'
    BY <2>4, AbortTypeOK
  <2>5. CASE Dispatch
    BY <2>5, DispatchTypeOK
  <2>6. CASE DispatchAborts
    <3>1. << >> \in Seq(Nat)  BY EmptySeq
    <3>2. QED
      BY <2>6, <3>1 DEF DispatchAborts, StopDispatch, TypeOK, CallOK, rows, calls, history
  <2>7. CASE AdvanceClock
    <3>1. MaxNow \in Nat
      BY ConstantsOK DEF ConstantsOK
    <3>2. now' \in Second
      BY <2>7, <3>1 DEF AdvanceClock, TypeOK, Second
    <3>3. QED
      BY <2>7, <3>2 DEF AdvanceClock, TypeOK, CallOK, rows, calls, history
  <2>8. CASE Crash
    <3>1. << >> \in Seq(Nat)  BY EmptySeq
    <3>2. QED
      BY <2>8, <3>1
         DEF Crash, StopDispatch, TypeOK, CallOK, Returned, Running, rows, history
  <2>9. CASE UNCHANGED vars
    BY <2>9 DEF TypeOK, CallOK, vars, rows, calls, dispatch, history
  <2>10. QED
    BY <2>1, <2>2, <2>3, <2>4, <2>5, <2>6, <2>7, <2>8, <2>9 DEF Next
<1>3. QED  BY <1>1, <1>2, PTL DEF Spec

-------------------------------------------------------------------------------
(* The order of dispatch.  First the steps that leave the dispatcher where *)
(* it is: the only todo they may store is one of new steps.                *)
LEMMA NewTodoKeepsOrder ==
  ASSUME TypeOK, DispatchInv, NEW t \in Task, NEW s \in Seq(Nat),
         plan_todo' = plan_todo \/ plan_todo' = [plan_todo EXCEPT ![t] = s],
         nextStep' \in Nat, nextStep <= nextStep',
         Increasing(s),
         \A k \in DOMAIN s : nextStep <= s[k] /\ s[k] < nextStep',
         NoRowNoTodo',
         UNCHANGED <<dispatched, planner, held, spc>>
  PROVE  DispatchInv'
<1>1. /\ nextStep \in Nat
      /\ \A i \in DOMAIN dispatched : dispatched[i][2] \in Nat
      /\ \A p \in Task : \A k \in DOMAIN plan_todo[p] : plan_todo[p][k] \in Nat
      /\ held \in Seq(Nat) /\ held # << >> => 1 \in DOMAIN held
      /\ \A k \in DOMAIN held : held[k] \in Nat
  <2>1. \A i \in DOMAIN dispatched : dispatched[i] \in Task \X Nat
    BY ElementOfSeq, LenProperties DEF TypeOK
  <2>2. \A p \in Task : \A k \in DOMAIN plan_todo[p] : plan_todo[p][k] \in Nat
    BY ElementOfSeq, LenProperties DEF TypeOK
  <2>3. held # << >> => 1 \in DOMAIN held
    BY EmptySeq, LenProperties DEF TypeOK
  <2>4. \A k \in DOMAIN held : held[k] \in Nat
    BY ElementOfSeq, LenProperties DEF TypeOK
  <2>5. QED  BY <2>1, <2>2, <2>3, <2>4 DEF TypeOK
<1>2. \A i \in DOMAIN dispatched : dispatched[i][2] < nextStep'
  BY <1>1 DEF DispatchInv
<1>3. \A p \in Task : Increasing(plan_todo'[p]) /\ ToCome(plan_todo[p], p)'
  <2> TAKE p \in Task
  <2>1. CASE plan_todo'[p] = plan_todo[p]
    BY <1>1, <2>1 DEF DispatchInv, ToCome
  <2>2. CASE plan_todo'[p] = s
    BY <1>1, <2>2 DEF DispatchInv, ToCome
  <2>3. QED  BY <2>1, <2>2 DEF TypeOK
<1>4. spc \in {"pop_write", "create"} => Increasing(held) /\ ToCome(held, planner)'
  BY <1>1 DEF DispatchInv, ToCome
<1>5. ASSUME spc = "create", NEW k \in DOMAIN plan_todo'[planner]
      PROVE  held[1] < plan_todo'[planner][k]
  <2>1. planner \in Task /\ 1 \in DOMAIN held /\ held[1] < nextStep
    BY <1>1, <1>5 DEF TypeOK, DispatchInv, ToCome
  <2>2. CASE plan_todo'[planner] = plan_todo[planner]
    BY <1>5, <2>2 DEF DispatchInv
  <2>3. CASE plan_todo'[planner] = s
    BY <1>1, <1>5, <2>1, <2>3
  <2>4. QED  BY <2>1, <2>2, <2>3 DEF TypeOK
<1>6. DispatchInOrder'
  BY DEF DispatchInv, DispatchInOrder
<1>7. QED
  BY <1>2, <1>3, <1>4, <1>5, <1>6 DEF DispatchInv

(* Neither status changes nor a dispatcher that lets go of what it held    *)
(* matter.                                                                 *)
LEMMA NoTodoKeepsOrder ==
  ASSUME TypeOK, DispatchInv, NoRowNoTodo',
         UNCHANGED <<plan_todo, nextStep, dispatched>>,
         \/ UNCHANGED <<planner, held, spc>>
         \/ spc' \notin {"pop_write", "create"}
  PROVE  DispatchInv'
BY DEF DispatchInv, DispatchInOrder, Increasing, ToCome

LEMMA EmptyTodoKeepsOrder ==
  ASSUME TypeOK, DispatchInv, NEW t \in Task,
         plan_todo' = [plan_todo EXCEPT ![t] = << >>],
         NoRowNoTodo',
         UNCHANGED <<nextStep, dispatched, planner, held, spc>>
  PROVE  DispatchInv'
<1>1. << >> \in Seq(Nat) /\ DOMAIN << >> = {}
  BY EmptySeq
<1>2. Increasing(<< >>)
  BY <1>1 DEF Increasing
<1>3. nextStep' \in Nat /\ nextStep <= nextStep'
  BY DEF TypeOK
<1>4. QED  BY <1>1, <1>2, <1>3, NewTodoKeepsOrder

LEMMA SetStatusKeepsRows ==
  ASSUME TypeOK, NoRowNoTodo, NEW t \in Task, NEW new \in Lifecycle!RowStatus,
         SetStatus(t, new)
  PROVE  NoRowNoTodo'
BY DEF TypeOK, NoRowNoTodo, SetStatus, Exists, Lifecycle!RowStatus

LEMMA StatementKeepsOrder ==
  ASSUME TypeOK, DispatchInv, NEW c \in Client, Statement(c)
  PROVE  DispatchInv'
<1> DEFINE r == req[c]
<1> USE DEF At
<1>1. CASE ActivateRead(c) \/ ResumeRead(c) \/ StatusRead(c) \/ CreateAnchor(c)
  <2>1. UNCHANGED <<rows, dispatch, history>>
    BY <1>1 DEF ActivateRead, ResumeRead, StatusRead, CreateAnchor
  <2>2. NoRowNoTodo'
    BY <2>1 DEF DispatchInv, NoRowNoTodo, rows
  <2>3. QED  BY <2>1, <2>2, NoTodoKeepsOrder DEF rows, dispatch, history
<1>2. CASE ActivateWrite(c) \/ ResumeWrite(c) \/ StatusWrite(c)
  <2>1. PICK t \in Task, new \in Lifecycle!RowStatus : SetStatus(t, new)
    <3>1. pc[c] \in Running /\ r \in Request
      BY <1>2 DEF ActivateWrite, ResumeWrite, StatusWrite, Running, TypeOK, CallOK
    <3>2. CASE ActivateWrite(c)
      BY <3>1, <3>2 DEF ActivateWrite, TypeOK, CallOK, Lifecycle!RowStatus
    <3>3. CASE ResumeWrite(c)
      BY <3>1, <3>3 DEF ResumeWrite, TypeOK, CallOK, Lifecycle!RowStatus
    <3>4. CASE StatusWrite(c)
      BY <3>1, <3>4, RequestFields DEF StatusWrite, TypeOK, CallOK
    <3>5. QED  BY <1>2, <3>2, <3>3, <3>4
  <2>2. NoRowNoTodo'
    BY <2>1, SetStatusKeepsRows DEF DispatchInv
  <2>3. UNCHANGED <<plan_todo, nextStep, dispatched, planner, held, spc>>
    BY <1>2, <2>1
       DEF ActivateWrite, ResumeWrite, StatusWrite, SetStatus, dispatch, history
  <2>4. QED  BY <2>2, <2>3, NoTodoKeepsOrder
<1>3. CASE DiscardCurrent(c)
  <2>1. r.task \in Task
    BY <1>3 DEF DiscardCurrent, TypeOK, CallOK, Running
  <2>2. NoRowNoTodo' /\ plan_todo' = [plan_todo EXCEPT ![r.task] = << >>]
    BY <1>3, <2>1 DEF DiscardCurrent, Delete, TypeOK, DispatchInv, NoRowNoTodo
  <2>3. QED
    BY <1>3, <2>1, <2>2, EmptyTodoKeepsOrder DEF DiscardCurrent, dispatch, history
<1>4. CASE SetPlan(c)
  <2> DEFINE s == PlanSteps(r.plan)
  <2>1. r.task \in Task /\ r.plan \in Nat /\ nextStep \in Nat \ {0}
    BY <1>4, RequestFields DEF SetPlan, TypeOK, CallOK, Running
  <2>2. s \in Seq(Nat)
    BY <2>1, PlanStepsSeq
  <2>3. Increasing(s) /\ \A k \in DOMAIN s : nextStep <= s[k] /\ s[k] < nextStep + r.plan
    BY <2>1 DEF PlanSteps, Increasing
  <2>4. CASE Exists(r.task)
    <3>1. plan_todo' = [plan_todo EXCEPT ![r.task] = s] /\ nextStep' = nextStep + r.plan
      BY <1>4, <2>4 DEF SetPlan, SetTodo
    <3>2. NoRowNoTodo'
      BY <1>4, <2>1, <2>4, <3>1
         DEF SetPlan, SetTodo, Exists, TypeOK, DispatchInv, NoRowNoTodo
    <3>3. nextStep' \in Nat /\ nextStep <= nextStep'
      BY <2>1, <3>1
    <3>4. QED
      BY <1>4, <2>1, <2>2, <2>3, <3>1, <3>2, <3>3, NewTodoKeepsOrder DEF SetPlan, dispatch
  <2>5. CASE ~Exists(r.task)
    <3>1. NoRowNoTodo'
      BY <1>4, <2>5 DEF SetPlan, SetTodo, DispatchInv, NoRowNoTodo
    <3>2. QED
      BY <1>4, <2>5, <3>1, NoTodoKeepsOrder DEF SetPlan, SetTodo, dispatch
  <2>6. QED  BY <2>4, <2>5
<1>5. CASE CreateRegenTask(c)
  <2> DEFINE t == RegenId[now]
  <2>1. t \in Task
    BY ConstantsOK DEF ConstantsOK, TypeOK
  <2>2. CASE Exists(t)
    <3>1. NoRowNoTodo'
      BY <1>5, <2>2 DEF CreateRegenTask, rows, DispatchInv, NoRowNoTodo
    <3>2. QED
      BY <1>5, <2>2, <3>1, NoTodoKeepsOrder DEF CreateRegenTask, rows, dispatch, history
  <2>3. CASE ~Exists(t)
    <3>1. NoRowNoTodo' /\ plan_todo' = [plan_todo EXCEPT ![t] = << >>]
      BY <1>5, <2>1, <2>3
         DEF CreateRegenTask, Insert, TypeOK, DispatchInv, NoRowNoTodo
    <3>2. QED
      BY <1>5, <2>1, <3>1, EmptyTodoKeepsOrder DEF CreateRegenTask, dispatch, history
  <2>4. QED  BY <2>2, <2>3
<1>6. QED
  BY <1>1, <1>2, <1>3, <1>4, <1>5 DEF Statement

(* The dispatcher pops the least step of a todo, and dispatches it before  *)
(* it reads the next.                                                      *)
LEMMA PopWriteKeepsOrder ==
  ASSUME TypeOK, DispatchInv, PopWrite
  PROVE  DispatchInv'
<1>1. /\ planner \in Task /\ held \in Seq(Nat) /\ held # << >>
      /\ Increasing(held) /\ ToCome(held, planner)
  BY DEF PopWrite, TypeOK, DispatchInv
<1> DEFINE s == Tail(held)
<1>2. /\ s \in Seq(Nat)
      /\ \A k \in DOMAIN s : k \in Nat /\ 1 < k + 1 /\ k + 1 \in DOMAIN held /\ s[k] = held[k + 1]
      /\ 1 \in DOMAIN held
  <2>1. s \in Seq(Nat) /\ Len(s) = Len(held) - 1 /\ \A k \in 1 .. Len(s) : s[k] = held[k + 1]
    BY <1>1, HeadTailProperties
  <2>2. DOMAIN s = 1 .. Len(s) /\ DOMAIN held = 1 .. Len(held) /\ Len(held) \in Nat \ {0}
    BY <1>1, <2>1, LenProperties, EmptySeq
  <2>3. QED  BY <2>1, <2>2
<1> HIDE DEF s
<1>3. Increasing(s) /\ \A k \in DOMAIN s : held[1] < s[k]
  <2>1. \A i, j \in DOMAIN held : i < j => held[i] < held[j]
    BY <1>1 DEF Increasing
  <2>2. \A k \in DOMAIN s : held[1] < s[k]
    BY <1>2, <2>1
  <2>3. ASSUME NEW i \in DOMAIN s, NEW j \in DOMAIN s, i < j
        PROVE  s[i] < s[j]
    BY <1>2, <2>1, <2>3
  <2>4. QED  BY <2>2, <2>3 DEF Increasing
<1>4. ToCome(s, planner)
  BY <1>1, <1>2 DEF ToCome
<1>5. plan_todo' = IF Exists(planner) THEN [plan_todo EXCEPT ![planner] = s] ELSE plan_todo
  BY DEF PopWrite, SetTodo, s
<1>6. UNCHANGED <<status, held, planner, nextStep, dispatched>> /\ spc' = "create"
  BY DEF PopWrite, SetTodo, history
<1>7. NoRowNoTodo'
  BY <1>1, <1>5, <1>6 DEF TypeOK, DispatchInv, NoRowNoTodo, Exists
<1>8. \A p \in Task : Increasing(plan_todo'[p]) /\ ToCome(plan_todo[p], p)'
  <2>1. \A p \in Task : plan_todo'[p] = plan_todo[p] \/ (p = planner /\ plan_todo'[p] = s)
    BY <1>1, <1>5 DEF TypeOK
  <2>2. TAKE p \in Task
  <2>3. CASE plan_todo'[p] = plan_todo[p]
    BY <1>6, <2>3 DEF DispatchInv, ToCome
  <2>4. CASE p = planner /\ plan_todo'[p] = s
    BY <1>3, <1>4, <1>6, <2>4 DEF ToCome
  <2>5. QED  BY <2>1, <2>3, <2>4
<1>9. \A k \in DOMAIN plan_todo'[planner] : held[1] < plan_todo'[planner][k]
  <2>1. CASE Exists(planner)
    BY <1>1, <1>3, <1>5, <2>1 DEF TypeOK
  <2>2. CASE ~Exists(planner)
    <3>1. plan_todo'[planner] = << >>
      BY <1>1, <1>5, <2>2 DEF DispatchInv, NoRowNoTodo, Exists
    <3>2. QED  BY <3>1, EmptySeq
  <2>3. QED  BY <2>1, <2>2
<1>10. QED
  BY <1>1, <1>6, <1>7, <1>8, <1>9 DEF DispatchInv, DispatchInOrder, ToCome

LEMMA CreateExecutorKeepsOrder ==
  ASSUME TypeOK, DispatchInv, CreateExecutor
  PROVE  DispatchInv'
<1> DEFINE e == ExecutorId[<<planner, now>>]
           x == <<planner, Head(held)>>
<1>1. /\ planner \in Task /\ now \in Second /\ held \in Seq(Nat) /\ held # << >>
      /\ ToCome(held, planner)
      /\ \A k \in DOMAIN plan_todo[planner] : held[1] < plan_todo[planner][k]
  BY DEF CreateExecutor, TypeOK, DispatchInv
<1>2. e \in Task
  BY <1>1, ConstantsOK DEF ConstantsOK
<1>3. Head(held) \in Nat /\ Head(held) = held[1] /\ 1 \in DOMAIN held
  BY <1>1, HeadTailProperties, LenProperties, EmptySeq
<1>4. spc' \notin {"pop_write", "create"}
  BY DEF CreateExecutor
<1>5. CASE Exists(e)
  <2>1. UNCHANGED <<status, plan_todo, nextStep, dispatched>>
    BY <1>5 DEF CreateExecutor, rows
  <2>2. NoRowNoTodo'
    BY <2>1 DEF DispatchInv, NoRowNoTodo
  <2>3. QED  BY <1>4, <2>1, <2>2, NoTodoKeepsOrder
<1>6. CASE ~Exists(e)
  <2>1. /\ Insert(e, planner) /\ UNCHANGED nextStep
        /\ dispatched' = Append(dispatched, x)
    BY <1>6 DEF CreateExecutor
  <2>2. NoRowNoTodo' /\ plan_todo' = [plan_todo EXCEPT ![e] = << >>]
    BY <1>2, <2>1 DEF Insert, TypeOK, DispatchInv, NoRowNoTodo
  <2>3. \A p \in Task : plan_todo'[p] \in {plan_todo[p], << >>}
    BY <2>2 DEF TypeOK
  <2>4. x \in Task \X Nat /\ dispatched \in Seq(Task \X Nat) /\ nextStep \in Nat
    BY <1>1, <1>3 DEF TypeOK
  <2>5. x[1] = planner /\ x[2] = held[1]
    BY <1>3
  <2> HIDE DEF x
  <2>6. /\ Len(dispatched) \in Nat /\ DOMAIN dispatched = 1 .. Len(dispatched)
        /\ DOMAIN dispatched' = 1 .. Len(dispatched) + 1
        /\ \A i \in DOMAIN dispatched : dispatched'[i] = dispatched[i]
        /\ dispatched'[Len(dispatched) + 1] = x
    BY <2>1, <2>4, AppendProperties, LenProperties
  <2>7. held[1] < nextStep
        /\ \A i \in DOMAIN dispatched : dispatched[i][1] = planner => dispatched[i][2] < held[1]
    BY <1>1, <1>3 DEF ToCome
  <2>8. DispatchInOrder'
    BY <2>5, <2>6, <2>7 DEF DispatchInv, DispatchInOrder
  <2>9. \A i \in DOMAIN dispatched' : dispatched'[i][2] < nextStep'
    BY <2>1, <2>5, <2>6, <2>7 DEF DispatchInv
  <2>10. \A p \in Task : Increasing(plan_todo'[p]) /\ ToCome(plan_todo[p], p)'
    <3> TAKE p \in Task
    <3>1. CASE plan_todo'[p] = plan_todo[p]
      BY <1>1, <2>1, <2>5, <2>6, <3>1 DEF DispatchInv, ToCome
    <3>2. CASE plan_todo'[p] = << >>
      BY <3>2, EmptySeq DEF Increasing, ToCome
    <3>3. QED  BY <2>3, <3>1, <3>2
  <2>11. QED  BY <1>4, <2>2, <2>8, <2>9, <2>10 DEF DispatchInv
<1>7. QED  BY <1>5, <1>6

LEMMA DispatchInvariant == Spec => []DispatchInv
<1>1. Init => DispatchInv
  <2>1. << >> \in Seq(Nat) /\ DOMAIN << >> = {}
    BY EmptySeq
  <2>2. QED
    BY <2>1 DEF Init, DispatchInv, DispatchInOrder, NoRowNoTodo, Increasing, ToCome
<1>2. TypeOK /\ DispatchInv /\ [Next]_vars => DispatchInv'
  <2> SUFFICES ASSUME TypeOK, DispatchInv, [Next]_vars PROVE DispatchInv'
    OBVIOUS
  <2>1. ASSUME NEW t \in RuntimeTask, CreateTask(t) PROVE DispatchInv'
    <3>1. t \in Task
      BY ConstantsOK DEF ConstantsOK
    <3>2. NoRowNoTodo' /\ plan_todo' = [plan_todo EXCEPT ![t] = << >>]
      BY <2>1, <3>1 DEF CreateTask, Insert, TypeOK, DispatchInv, NoRowNoTodo
    <3>3. QED
      BY <2>1, <3>1, <3>2, EmptyTodoKeepsOrder DEF CreateTask, dispatch, history
  <2>2. ASSUME NEW c \in Client, Statement(c) PROVE DispatchInv'
    BY <2>2, StatementKeepsOrder
  <2>3. CASE PopWrite
    BY <2>3, PopWriteKeepsOrder
  <2>4. CASE CreateExecutor
    BY <2>4, CreateExecutorKeepsOrder
  <2>5. CASE PopRead
    <3>1. planner \in Task
      BY <2>5 DEF PopRead, TypeOK
    <3>2. QED
      BY <2>5, <3>1
         DEF PopRead, DispatchInv, DispatchInOrder, NoRowNoTodo, Increasing, ToCome,
             rows, history
  <2>6. CASE UNCHANGED <<rows, history>>
             /\ (UNCHANGED <<planner, held, spc>> \/ spc' \notin {"pop_write", "create"})
    <3>1. NoRowNoTodo'
      BY <2>6 DEF DispatchInv, NoRowNoTodo, rows
    <3>2. QED  BY <2>6, <3>1, NoTodoKeepsOrder DEF rows, history
  <2>7. QED
    BY <2>1, <2>2, <2>3, <2>4, <2>5, <2>6
       DEF Next, Call, Abort, Dispatch, TickStart, SkipPlanner, VisitPlanner, TickEnd,
           DispatchAborts, StopDispatch, AdvanceClock, Crash, vars, dispatch
<1>3. QED  BY <1>1, <1>2, TypeCorrect, PTL DEF Spec

(* Over any number of tasks, planners, concurrent calls, failures and      *)
(* restarts, a planner's steps are dispatched in the order in which they   *)
(* were submitted, each at most once.                                      *)
THEOREM DispatchOrder == Spec => []DispatchInOrder
<1>1. DispatchInv => DispatchInOrder
  BY DEF DispatchInv
<1>2. QED  BY <1>1, DispatchInvariant, PTL

-------------------------------------------------------------------------------
(* The life cycle.  With calls that touch one task kept apart, no other    *)
(* process writes the status a handler has checked: the dispatcher, the    *)
(* runtime and the regeneration tasks only add rows.                       *)
RowAdded == \E t \in Task : status[t] = "absent" /\ status' = [status EXCEPT ![t] = "pending"]

LEMMA RowAddedIsCreate ==
  ASSUME RowAdded
  PROVE  /\ Lifecycle!Next
         /\ \A t \in Task : status[t] # "absent" => status'[t] = status[t]
<1>1. PICK t \in Task : status[t] = "absent" /\ status' = [status EXCEPT ![t] = "pending"]
  BY DEF RowAdded
<1>2. Lifecycle!Next
  BY <1>1 DEF Lifecycle!Next, Lifecycle!Create
<1>3. QED  BY <1>1, <1>2

(* A check made by c outlives the steps of the others.                     *)
LEMMA OthersKeepCheck ==
  ASSUME TypeOK, CheckStillHolds, NEW c \in Client, UNCHANGED <<pc[c], req[c]>>,
         \A t \in Touches(req[c]) : status[t] # "absent" => status'[t] = status[t]
  PROVE  /\ pc'[c] = "activate_write" => Allowed(req[c].task, "active")'
         /\ pc'[c] = "resume_write" => Allowed(req[c].resume, "active")'
         /\ pc'[c] = "status_write" => Allowed(req[c].task, NewStatus(req[c]))'
<1>1. \A t \in Task, new \in {"active", "sleep", "finished"} \cup {NewStatus(req[c])} :
        t \in Touches(req[c]) /\ Allowed(t, new) => Allowed(t, new)'
  BY DEF Allowed, VALID_TRANSITIONS, Lifecycle!VALID_TRANSITIONS
<1>2. /\ pc[c] \in {"activate_write", "status_write"} => req[c].task \in Touches(req[c]) /\ req[c].task \in Task
      /\ pc[c] = "resume_write" => req[c].resume \in Touches(req[c]) /\ req[c].resume \in Task
  BY ConstantsOK DEF ConstantsOK, TypeOK, CallOK, Touches, Running
<1>3. NewStatus(req[c])' = NewStatus(req[c])
  BY DEF NewStatus
<1>4. QED
  BY <1>1, <1>2, <1>3 DEF CheckStillHolds, Allowed

(* What one step of client c's call leaves to the invariants: the life     *)
(* cycle is kept, only rows the call touches change, and a check that has  *)
(* just been made holds.                                                   *)
OwnStep(c) ==
    /\ [Lifecycle!Next]_status
    /\ \A t \in Task : status[t] # "absent" /\ t \notin Touches(req[c]) => status'[t] = status[t]
    /\ \A d \in Client \ {c} : UNCHANGED <<pc[d], req[d]>>
    /\ pc'[c] \in Running => req'[c] = req[c]
    /\ pc'[c] = "activate_write" => Allowed(req[c].task, "active")'
    /\ pc'[c] = "resume_write" => Allowed(req[c].resume, "active")'
    /\ pc'[c] = "status_write" => Allowed(req[c].task, NewStatus(req[c]))'

LEMMA GotoFrame ==
  ASSUME TypeOK, NEW c \in Client, NEW l \in Returned \cup Running, Goto(c, l)
  PROVE  /\ \A d \in Client \ {c} : UNCHANGED <<pc[d], req[d]>>
         /\ pc'[c] = l
         /\ pc'[c] \in Running => req'[c] = req[c]
BY DEF TypeOK, Goto, Returned, Running

LEMMA ReadOwnStep ==
  ASSUME TypeOK, NEW c \in Client, ActivateRead(c) \/ ResumeRead(c) \/ StatusRead(c)
  PROVE  OwnStep(c)
<1> DEFINE r == req[c]
<1> USE DEF At
<1>1. pc[c] \in Running /\ r \in Request /\ status' = status
  BY DEF ActivateRead, ResumeRead, StatusRead, Running, TypeOK, CallOK, rows
<1>2. PICK l \in Returned \cup Running :
        /\ Goto(c, l)
        /\ l = "activate_write" => Allowed(r.task, "active")
        /\ l = "resume_write" => Allowed(r.resume, "active")
        /\ l = "status_write" => Allowed(r.task, NewStatus(r))
  <2>1. AfterActivation(r) \in {"discard", "resume_read", "ok", "set_plan", "status_read"}
    BY DEF AfterActivation
  <2>2. QED
    BY <1>1, <2>1 DEF ActivateRead, ResumeRead, StatusRead, Returned, Running
<1>3. /\ \A d \in Client \ {c} : UNCHANGED <<pc[d], req[d]>>
      /\ pc'[c] = l
      /\ pc'[c] \in Running => req'[c] = r
  BY <1>2, GotoFrame
<1>4. l = "activate_write" => Allowed(req[c].task, "active")'
  BY <1>1, <1>2, <1>3 DEF Allowed, Running
<1>5. l = "resume_write" => Allowed(req[c].resume, "active")'
  BY <1>1, <1>2, <1>3 DEF Allowed, Running
<1>6. l = "status_write" => Allowed(req[c].task, NewStatus(req[c]))'
  BY <1>1, <1>2, <1>3 DEF Allowed, Running, NewStatus
<1>7. QED  BY <1>1, <1>3, <1>4, <1>5, <1>6 DEF OwnStep

(* A write makes the transition that was checked.                          *)
LEMMA WriteOwnStep ==
  ASSUME TypeOK, NEW c \in Client, NEW t \in Touches(req[c]) \cap Task,
         NEW new \in Lifecycle!RowStatus, Allowed(t, new), SetStatus(t, new),
         NEW l \in Returned \cup Running, Goto(c, l),
         l \notin {"activate_write", "resume_write", "status_write"}
  PROVE  OwnStep(c)
<1>1. status' = [status EXCEPT ![t] = new]
  BY DEF SetStatus, Exists, Allowed, VALID_TRANSITIONS, Lifecycle!VALID_TRANSITIONS
<1>2. Lifecycle!Next
  BY <1>1 DEF Lifecycle!Next, Lifecycle!Move, Allowed, VALID_TRANSITIONS
<1>3. QED  BY <1>1, <1>2, GotoFrame DEF OwnStep

LEMMA StatementOwnStep ==
  ASSUME TypeOK, CheckStillHolds, NEW c \in Client, Statement(c)
  PROVE  OwnStep(c)
<1> DEFINE r == req[c]
<1> USE DEF At
<1>1. pc[c] \in Running /\ r \in Request
  BY DEF Statement, ActivateRead, ActivateWrite, DiscardCurrent, ResumeRead, ResumeWrite,
         SetPlan, StatusRead, StatusWrite, CreateAnchor, CreateRegenTask,
         Running, TypeOK, CallOK
<1>2. NoTask \notin Task
  BY ConstantsOK DEF ConstantsOK
<1>3. CASE ActivateRead(c) \/ ResumeRead(c) \/ StatusRead(c)
  BY <1>3, ReadOwnStep
<1>4. CASE ActivateWrite(c)
  <2>1. r.task \in Touches(r) \cap Task /\ Allowed(r.task, "active")
    BY <1>2, <1>4 DEF ActivateWrite, CheckStillHolds, TypeOK, CallOK, Running, Touches
  <2>2. AfterActivation(r) \in Returned \cup Running
        /\ AfterActivation(r) \notin {"activate_write", "resume_write", "status_write"}
    BY DEF AfterActivation, Returned, Running
  <2>3. QED
    BY <1>4, <2>1, <2>2, WriteOwnStep DEF ActivateWrite, Lifecycle!RowStatus
<1>5. CASE ResumeWrite(c)
  <2>1. r.resume \in Touches(r) \cap Task /\ Allowed(r.resume, "active")
    BY <1>2, <1>5 DEF ResumeWrite, CheckStillHolds, TypeOK, CallOK, Running, Touches
  <2>2. QED
    BY <1>5, <2>1, WriteOwnStep DEF ResumeWrite, Lifecycle!RowStatus, Returned, Running
<1>6. CASE StatusWrite(c)
  <2>1. r.task \in Touches(r) \cap Task /\ Allowed(r.task, NewStatus(r))
    BY <1>2, <1>6 DEF StatusWrite, CheckStillHolds, TypeOK, CallOK, Running, Touches
  <2>2. NewStatus(r) \in Lifecycle!RowStatus
    BY <1>1, RequestFields
  <2>3. QED
    BY <1>6, <2>1, <2>2, WriteOwnStep DEF StatusWrite, Returned, Running
<1>7. CASE DiscardCurrent(c)
  <2>1. r.task \in Touches(r) \cap Task /\ status' = [status EXCEPT ![r.task] = "absent"]
    BY <1>2, <1>7 DEF DiscardCurrent, Delete, TypeOK, CallOK, Running, Touches
  <2>2. [Lifecycle!Next]_status
    BY <2>1 DEF TypeOK, Lifecycle!Next, Lifecycle!Discard
  <2>3. Goto(c, "resume_read")
    BY <1>7 DEF DiscardCurrent
  <2>4. QED
    BY <2>1, <2>2, <2>3, GotoFrame DEF OwnStep, Returned, Running
<1>8. CASE SetPlan(c) \/ CreateAnchor(c)
  <2>1. status' = status
    BY <1>8 DEF SetPlan, SetTodo, CreateAnchor, rows
  <2>2. PICK l \in Returned \cup Running :
          Goto(c, l) /\ l \notin {"activate_write", "resume_write", "status_write"}
    BY <1>8 DEF SetPlan, CreateAnchor, Returned, Running
  <2>3. QED  BY <2>1, <2>2, GotoFrame DEF OwnStep
<1>9. CASE CreateRegenTask(c)
  <2>1. RegenId[now] \in Task
    BY ConstantsOK DEF ConstantsOK, TypeOK
  <2>2. status' = status \/ RowAdded
    BY <1>9, <2>1 DEF CreateRegenTask, rows, Insert, Exists, RowAdded
  <2>3. /\ [Lifecycle!Next]_status
        /\ \A t \in Task : status[t] # "absent" => status'[t] = status[t]
    BY <2>2, RowAddedIsCreate
  <2>4. Goto(c, "ok")
    BY <1>9 DEF CreateRegenTask
  <2>5. QED  BY <2>3, <2>4, GotoFrame DEF OwnStep, Returned, Running
<1>10. QED
  BY <1>3, <1>4, <1>5, <1>6, <1>7, <1>8, <1>9 DEF Statement

(* The invariant behind the life cycle: calls in progress are about        *)
(* different tasks, so no check goes stale before its write.               *)
LifecycleInv == CallsApart /\ CheckStillHolds

LEMMA StatementKeepsApart ==
  ASSUME TypeOK, LifecycleInv, NEW c \in Client, Statement(c)
  PROVE  LifecycleInv'
<1>1. OwnStep(c)
  BY StatementOwnStep DEF LifecycleInv
<1>2. pc[c] \in Running
  BY DEF Statement, ActivateRead, ActivateWrite, DiscardCurrent, ResumeRead, ResumeWrite,
         SetPlan, StatusRead, StatusWrite, CreateAnchor, CreateRegenTask, At, Running
<1>3. CallsApart'
  <2> SUFFICES ASSUME NEW d \in Client, NEW e \in Client, d # e,
                      pc'[d] \in Running, pc'[e] \in Running
               PROVE  Touches(req'[d]) \cap Touches(req'[e]) = {}
    BY DEF CallsApart, Touches
  <2>1. \A x \in {d, e} : pc[x] \in Running /\ req'[x] = req[x]
    BY <1>1, <1>2 DEF OwnStep
  <2>2. QED  BY <2>1 DEF LifecycleInv, CallsApart
<1>4. ASSUME NEW d \in Client \ {c}
      PROVE  /\ pc'[d] = "activate_write" => Allowed(req[d].task, "active")'
             /\ pc'[d] = "resume_write" => Allowed(req[d].resume, "active")'
             /\ pc'[d] = "status_write" => Allowed(req[d].task, NewStatus(req[d]))'
  <2>1. UNCHANGED <<pc[d], req[d]>>
    BY <1>1 DEF OwnStep
  <2>2. CASE pc[d] \in Running
    <3>1. Touches(req[c]) \cap Touches(req[d]) = {}
      BY <1>2, <2>2 DEF LifecycleInv, CallsApart
    <3>2. Touches(req[d]) \subseteq Task
      BY <2>2, RequestFields DEF TypeOK, CallOK, Touches
    <3>3. \A t \in Touches(req[d]) : status[t] # "absent" => status'[t] = status[t]
      BY <1>1, <3>1, <3>2 DEF OwnStep
    <3>4. QED  BY <2>1, <3>3, OthersKeepCheck DEF LifecycleInv
  <2>3. CASE pc[d] \notin Running
    BY <2>1, <2>3 DEF Running
  <2>4. QED  BY <2>2, <2>3
<1>5. CheckStillHolds'
  BY <1>1, <1>4 DEF CheckStillHolds, OwnStep
<1>6. QED  BY <1>3, <1>5 DEF LifecycleInv

(* A call begins, or gives up, without touching a row: it is at no write   *)
(* that it has not already checked.                                        *)
LEMMA CallKeepsApart ==
  ASSUME TypeOK, LifecycleInv, OneCallPerTask, NEW c \in Client,
         (\E r \in Request : Call(c, r)) \/ Abort(c)
  PROVE  LifecycleInv'
<1>1. status' = status /\ \A d \in Client \ {c} : UNCHANGED <<pc[d], req[d]>>
  BY DEF Call, Abort, Goto, TypeOK, rows
<1>2. pc'[c] \notin {"activate_write", "resume_write", "status_write"}
  <2>1. \A r \in Request : FirstStatement(r) \notin {"activate_write", "resume_write", "status_write"}
    BY DEF FirstStatement, AfterActivation
  <2>2. AfterActivation(req[c]) \notin {"activate_write", "resume_write", "status_write"}
    BY DEF AfterActivation
  <2>3. QED  BY <2>1, <2>2 DEF Call, Abort, Goto, TypeOK
<1>3. \A d \in Client \ {c} : pc'[d] \in Running /\ pc'[c] \in Running
        => Touches(req'[d]) \cap Touches(req'[c]) = {}
  <2>1. CASE \E r \in Request : Call(c, r)
    BY <1>1, <2>1 DEF Call, TypeOK
  <2>2. CASE Abort(c)
    <3>1. pc'[c] \in Running => pc[c] \in Running /\ req'[c] = req[c]
      BY <2>2 DEF Abort, Goto, TypeOK, Returned, Running
    <3>2. QED  BY <1>1, <3>1 DEF LifecycleInv, CallsApart
  <2>3. QED  BY <2>1, <2>2
<1>4. CallsApart'
  <2> SUFFICES ASSUME NEW d \in Client, NEW e \in Client, d # e,
                      pc'[d] \in Running, pc'[e] \in Running
               PROVE  Touches(req'[d]) \cap Touches(req'[e]) = {}
    BY DEF CallsApart, Touches
  <2>1. CASE d # c /\ e # c
    BY <1>1, <2>1 DEF LifecycleInv, CallsApart
  <2>2. CASE d = c \/ e = c
    BY <1>3, <2>2
  <2>3. QED  BY <2>1, <2>2
<1>5. CheckStillHolds'
  BY <1>1, <1>2, OthersKeepCheck DEF LifecycleInv, CheckStillHolds
<1>6. QED  BY <1>4, <1>5 DEF LifecycleInv

(* Everything else leaves the calls alone, and only adds rows.             *)
LEMMA EnvironmentKeepsApart ==
  ASSUME TypeOK, LifecycleInv, UNCHANGED calls, status' = status \/ RowAdded
  PROVE  LifecycleInv'
<1>1. \A t \in Task : status[t] # "absent" => status'[t] = status[t]
  BY RowAddedIsCreate
<1>2. CallsApart'
  BY DEF LifecycleInv, CallsApart, Touches, calls
<1>3. ASSUME NEW d \in Client
      PROVE  /\ pc'[d] = "activate_write" => Allowed(req[d].task, "active")'
             /\ pc'[d] = "resume_write" => Allowed(req[d].resume, "active")'
             /\ pc'[d] = "status_write" => Allowed(req[d].task, NewStatus(req[d]))'
  <2>1. UNCHANGED <<pc[d], req[d]>>
    BY DEF calls
  <2>2. CASE pc[d] \in Running
    <3>1. Touches(req[d]) \subseteq Task
      BY <2>2, RequestFields DEF TypeOK, CallOK, Touches
    <3>2. QED  BY <1>1, <2>1, <3>1, OthersKeepCheck DEF LifecycleInv
  <2>3. CASE pc[d] \notin Running
    BY <2>1, <2>3 DEF Running
  <2>4. QED  BY <2>2, <2>3
<1>4. QED  BY <1>2, <1>3 DEF LifecycleInv, CheckStillHolds

(* Every step keeps the calls apart and is a step of the life cycle.       *)
LEMMA LifecycleStep ==
  ASSUME OneCallPerTask, TypeOK, LifecycleInv, [Next]_vars
  PROVE  LifecycleInv' /\ [Lifecycle!Next]_status
<1>1. ASSUME NEW c \in Client, Statement(c)
      PROVE  LifecycleInv' /\ [Lifecycle!Next]_status
  BY <1>1, StatementKeepsApart, StatementOwnStep DEF LifecycleInv, OwnStep
<1>2. ASSUME NEW c \in Client, (\E r \in Request : Call(c, r)) \/ Abort(c)
      PROVE  LifecycleInv' /\ [Lifecycle!Next]_status
  <2>1. status' = status
    BY <1>2 DEF Call, Abort, rows
  <2>2. QED  BY <1>2, <2>1, CallKeepsApart
<1>3. CASE Crash
  <2>1. status' = status /\ \A c \in Client : pc'[c] \notin Running
    BY <1>3 DEF Crash, TypeOK, rows, Returned, Running
  <2>2. QED
    BY <2>1 DEF LifecycleInv, CallsApart, CheckStillHolds, Running
<1>4. ASSUME UNCHANGED calls, status' = status \/ RowAdded
      PROVE  LifecycleInv' /\ [Lifecycle!Next]_status
  BY <1>4, EnvironmentKeepsApart, RowAddedIsCreate
<1>5. CASE CreateExecutor
  <2>1. ExecutorId[<<planner, now>>] \in Task
    BY <1>5, ConstantsOK DEF ConstantsOK, CreateExecutor, TypeOK
  <2>2. UNCHANGED calls /\ (status' = status \/ RowAdded)
    BY <1>5, <2>1 DEF CreateExecutor, Insert, Exists, RowAdded, rows
  <2>3. QED  BY <1>4, <2>2
<1>6. ASSUME NEW t \in RuntimeTask, CreateTask(t)
      PROVE  LifecycleInv' /\ [Lifecycle!Next]_status
  <2>1. t \in Task
    BY ConstantsOK DEF ConstantsOK
  <2>2. UNCHANGED calls /\ RowAdded
    BY <1>6, <2>1 DEF CreateTask, Insert, Exists, RowAdded
  <2>3. QED  BY <1>4, <2>2
<1>7. CASE \/ TickStart \/ (\E p \in Task : SkipPlanner(p) \/ VisitPlanner(p))
           \/ PopRead \/ PopWrite \/ TickEnd
           \/ DispatchAborts \/ AdvanceClock \/ UNCHANGED vars
  <2>1. UNCHANGED calls /\ status' = status
    BY <1>7 DEF TickStart, SkipPlanner, VisitPlanner, PopRead, PopWrite, SetTodo, TickEnd,
                DispatchAborts, AdvanceClock, vars, rows
  <2>2. QED  BY <1>4, <2>1
<1>8. QED
  BY <1>1, <1>2, <1>3, <1>5, <1>6, <1>7 DEF Next, Dispatch

LEMMA LifecycleInvariant ==
  ASSUME OneCallPerTask
  PROVE  Spec => []LifecycleInv
<1>1. Init => LifecycleInv
  BY DEF Init, LifecycleInv, CallsApart, CheckStillHolds, Returned, Running
<1>2. TypeOK /\ LifecycleInv /\ [Next]_vars => LifecycleInv'
  BY LifecycleStep
<1>3. QED  BY <1>1, <1>2, TypeCorrect, PTL DEF Spec

(* If callers keep calls that touch one task apart, then whatever the      *)
(* dispatcher, the runtime, failures and restarts do in between, what a    *)
(* handler checked is true when it writes, and the task table implements   *)
(* the life cycle of TaskLifecycle.                                        *)
THEOREM LifecycleImplemented ==
  ASSUME OneCallPerTask
  PROVE  Spec => []CheckStillHolds /\ LifecycleSpec
<1>1. Init => Lifecycle!Init
  BY DEF Init, Lifecycle!Init
<1>2. TypeOK /\ LifecycleInv /\ [Next]_vars => [Lifecycle!Next]_status
  BY LifecycleStep
<1>3. LifecycleInv => CheckStillHolds
  BY DEF LifecycleInv
<1>4. QED
  BY <1>1, <1>2, <1>3, TypeCorrect, LifecycleInvariant, PTL
     DEF Spec, LifecycleSpec, Lifecycle!Spec

(* The hazard by itself, without that proviso.  c is at a write whose      *)
(* status check no longer holds.                                           *)
Stale(c) ==
    \/ pc[c] = "activate_write" /\ ~Allowed(req[c].task, "active")
    \/ pc[c] = "resume_write" /\ ~Allowed(req[c].resume, "active")
    \/ pc[c] = "status_write" /\ ~Allowed(req[c].task, NewStatus(req[c]))

Checked(c) == IF pc[c] = "resume_write" THEN req[c].resume ELSE req[c].task

RowWrite(d) == ActivateWrite(d) \/ DiscardCurrent(d) \/ ResumeWrite(d) \/ StatusWrite(d)

\* Of the rows there are, a call changes those it names, in four statements.
LEMMA StatementFrame ==
  ASSUME TypeOK, NEW d \in Client, Statement(d)
  PROVE  /\ \A c \in Client \ {d} : UNCHANGED <<pc[c], req[c]>>
         /\ \A t \in Task : status[t] # "absent" /\ status'[t] # status[t]
                            => RowWrite(d) /\ t \in Touches(req[d])
<1> USE DEF At
<1>1. pc[d] \in Running /\ req[d] \in Request /\ NoTask \notin Task
  BY ConstantsOK DEF Statement, ActivateRead, ActivateWrite, DiscardCurrent, ResumeRead,
     ResumeWrite, SetPlan, StatusRead, StatusWrite, CreateAnchor, CreateRegenTask, Running,
     TypeOK, CallOK, ConstantsOK
<1>2. \A c \in Client \ {d} : UNCHANGED <<pc[c], req[c]>>
  BY DEF Statement, ActivateRead, ActivateWrite, DiscardCurrent, ResumeRead,
     ResumeWrite, SetPlan, StatusRead, StatusWrite, CreateAnchor, CreateRegenTask, Goto, TypeOK
<1>3. CASE ActivateRead(d) \/ ResumeRead(d) \/ StatusRead(d) \/ SetPlan(d) \/ CreateAnchor(d)
  BY <1>2, <1>3 DEF ActivateRead, ResumeRead, StatusRead, SetPlan, SetTodo, CreateAnchor, rows
<1>4. CASE CreateRegenTask(d)
  BY <1>2, <1>4 DEF CreateRegenTask, Insert, Exists, rows, TypeOK
<1>5. CASE ActivateWrite(d) \/ DiscardCurrent(d) \/ StatusWrite(d)
  <2>1. req[d].task \in Task /\ req[d].task \in Touches(req[d])
    BY <1>1, <1>5 DEF ActivateWrite, DiscardCurrent, StatusWrite, TypeOK, CallOK, Running, Touches
  <2>2. \A t \in Task : t # req[d].task => status'[t] = status[t]
    BY <1>5, <2>1 DEF ActivateWrite, DiscardCurrent, StatusWrite, SetStatus, Delete, TypeOK
  <2>3. QED  BY <1>2, <1>5, <2>1, <2>2 DEF RowWrite
<1>6. CASE ResumeWrite(d)
  <2>1. req[d].resume \in Task /\ req[d].resume \in Touches(req[d])
    BY <1>1, <1>6 DEF ResumeWrite, TypeOK, CallOK, Running, Touches
  <2>2. \A t \in Task : t # req[d].resume => status'[t] = status[t]
    BY <1>6, <2>1 DEF ResumeWrite, SetStatus, TypeOK
  <2>3. QED  BY <1>2, <1>6, <2>1, <2>2 DEF RowWrite
<1>7. QED  BY <1>3, <1>4, <1>5, <1>6 DEF Statement

\* A call arrives at a write only by a check that holds in that very step.
LEMMA OwnStepFresh ==
  ASSUME TypeOK, NEW c \in Client, Statement(c)
  PROVE  ~Stale(c)'
<1> USE DEF At
<1>1. CASE ActivateRead(c) \/ ResumeRead(c) \/ StatusRead(c)
  BY <1>1, ReadOwnStep DEF OwnStep, Stale
<1>2. \A r : AfterActivation(r) \notin {"activate_write", "resume_write", "status_write"}
  BY DEF AfterActivation
<1>3. CASE ~(ActivateRead(c) \/ ResumeRead(c) \/ StatusRead(c))
  <2>1. pc'[c] \notin {"activate_write", "resume_write", "status_write"}
    BY <1>2, <1>3 DEF Statement, ActivateWrite, DiscardCurrent, ResumeWrite, SetPlan, StatusWrite,
       CreateAnchor, CreateRegenTask, Goto, TypeOK
  <2>2. QED  BY <2>1 DEF Stale
<1>4. QED  BY <1>1, <1>3

\* As long as the call stays where it is, only its row matters.
LEMMA StaleByRow ==
  ASSUME TypeOK, NEW c \in Client, UNCHANGED <<pc[c], req[c]>>, ~Stale(c), Stale(c)'
  PROVE  /\ Checked(c) \in Task /\ status[Checked(c)] # "absent"
         /\ status'[Checked(c)] # status[Checked(c)]
<1>1. pc[c] \in {"activate_write", "resume_write", "status_write"}
  BY DEF Stale
<1>2. Checked(c) \in Task
  BY <1>1 DEF Checked, TypeOK, CallOK, Running
<1>3. PICK new \in {"active", NewStatus(req[c])} :
        Allowed(Checked(c), new) /\ ~(<<status'[Checked(c)], new>> \in VALID_TRANSITIONS)
  <2>1. NewStatus(req[c])' = NewStatus(req[c])
    BY DEF NewStatus
  <2>2. CASE pc[c] = "activate_write"
    BY <2>2 DEF Stale, Checked, Allowed
  <2>3. CASE pc[c] = "resume_write"
    BY <2>3 DEF Stale, Checked, Allowed
  <2>4. CASE pc[c] = "status_write"
    BY <2>1, <2>4 DEF Stale, Checked, Allowed
  <2>5. QED  BY <1>1, <2>2, <2>3, <2>4
<1>4. QED
  BY <1>2, <1>3 DEF Allowed, VALID_TRANSITIONS, Lifecycle!VALID_TRANSITIONS

LEMMA StaleStep ==
  ASSUME TypeOK, [Next]_vars, NEW c \in Client, ~Stale(c), Stale(c)'
  PROVE  \E d \in Client \ {c} : RowWrite(d) /\ Checked(c) \in Touches(req[d])
<1>1. ASSUME NEW d \in Client, Statement(d)
      PROVE  \E e \in Client \ {c} : RowWrite(e) /\ Checked(c) \in Touches(req[e])
  <2>1. d # c
    BY <1>1, OwnStepFresh
  <2>2. QED  BY <1>1, <2>1, StatementFrame, StaleByRow
<1>2. ASSUME NEW d \in Client, (\E r \in Request : Call(d, r)) \/ Abort(d)
      PROVE  FALSE
  <2>1. status' = status /\ \A e \in Client \ {d} : UNCHANGED <<pc[e], req[e]>>
    BY <1>2 DEF Call, Abort, Goto, TypeOK, rows
  <2>2. pc'[d] \notin {"activate_write", "resume_write", "status_write"}
    <3>1. \A r : FirstStatement(r) \notin {"activate_write", "resume_write", "status_write"}
      BY DEF FirstStatement, AfterActivation
    <3>2. \A r : AfterActivation(r) \notin {"activate_write", "resume_write", "status_write"}
      BY DEF AfterActivation
    <3>3. QED  BY <1>2, <3>1, <3>2 DEF Call, Abort, Goto, TypeOK
  <2>3. d # c
    BY <2>2 DEF Stale
  <2>4. QED  BY <2>1, <2>3, StaleByRow
<1>3. CASE Crash
  BY <1>3 DEF Crash, Stale, TypeOK, Returned, Running
<1>4. ASSUME UNCHANGED calls, status' = status \/ RowAdded PROVE FALSE
  <2>1. \A t \in Task : status[t] # "absent" => status'[t] = status[t]
    BY <1>4, RowAddedIsCreate
  <2>2. UNCHANGED <<pc[c], req[c]>>
    BY <1>4 DEF calls
  <2>3. QED  BY <2>1, <2>2, StaleByRow
<1>5. CASE CreateExecutor
  <2>1. ExecutorId[<<planner, now>>] \in Task
    BY <1>5, ConstantsOK DEF ConstantsOK, CreateExecutor, TypeOK
  <2>2. UNCHANGED calls /\ (status' = status \/ RowAdded)
    BY <1>5, <2>1 DEF CreateExecutor, Insert, Exists, RowAdded, rows
  <2>3. QED  BY <1>4, <2>2
<1>6. ASSUME NEW t \in RuntimeTask, CreateTask(t) PROVE FALSE
  <2>1. t \in Task
    BY ConstantsOK DEF ConstantsOK
  <2>2. UNCHANGED calls /\ RowAdded
    BY <1>6, <2>1 DEF CreateTask, Insert, Exists, RowAdded
  <2>3. QED  BY <1>4, <2>2
<1>7. CASE \/ TickStart \/ (\E p \in Task : SkipPlanner(p) \/ VisitPlanner(p))
           \/ PopRead \/ PopWrite \/ TickEnd
           \/ DispatchAborts \/ AdvanceClock \/ UNCHANGED vars
  <2>1. UNCHANGED calls /\ status' = status
    BY <1>7 DEF TickStart, SkipPlanner, VisitPlanner, PopRead, PopWrite, SetTodo, TickEnd,
                DispatchAborts, AdvanceClock, vars, rows
  <2>2. QED  BY <1>4, <2>1
<1>8. QED
  BY <1>1, <1>2, <1>3, <1>5, <1>6, <1>7 DEF Next, Dispatch

(* tasks.rs:209-230.  Whether or not callers keep calls apart, a check     *)
(* goes stale before its write in one way only: another call that names    *)
(* the row writes its status or discards it in between.  The dispatcher,   *)
(* the runtime, regeneration tasks, failures and restarts never do it.     *)
THEOREM ChecksGoStale ==
  Spec => [][\A c \in Client : ~Stale(c) /\ Stale(c)' =>
               \E d \in Client \ {c} : RowWrite(d) /\ Checked(c) \in Touches(req[d])]_vars
<1>1. TypeOK /\ [Next]_vars =>
        [\A c \in Client : ~Stale(c) /\ Stale(c)' =>
           \E d \in Client \ {c} : RowWrite(d) /\ Checked(c) \in Touches(req[d])]_vars
  BY StaleStep
<1>2. QED  BY <1>1, TypeCorrect, PTL DEF Spec

-------------------------------------------------------------------------------
(* A success is real.  How far a call has come says what kind of call it   *)
(* is and what it has already done; since no other call touches its tasks, *)
(* what it has done is still so when it reports success.                   *)
AnchorOnFile(r) == \E m \in 0 .. Minute(MaxNow) : <<r.task, m>> \in anchors

Underway(c) ==
    LET r == req[c] IN
    /\ pc[c] \in {"activate_read", "activate_write"} => r.complete
    /\ pc[c] \in {"discard", "resume_read", "resume_write"} => r.complete /\ r.resume # NoTask
    /\ pc[c] \in {"set_plan", "status_read", "status_write", "anchor", "regen"} =>
         ~(r.complete /\ r.resume # NoTask)
    /\ pc[c] \in {"anchor", "regen"} => status[r.task] = NewStatus(r)
    /\ pc[c] = "regen" => AnchorOnFile(r)

UnderwayInv == \A c \in Client : Underway(c)

(* A minute of the clock's is a minute up to the last one.                 *)
LEMMA DivMonotone ==
  ASSUME NEW m \in Nat, NEW n \in Nat, m <= n, NEW d \in Nat \ {0}
  PROVE  m \div d <= n \div d
OBVIOUS

LEMMA MinuteInRange ==
  ASSUME NEW n \in Second
  PROVE  Minute(n) \in 0 .. Minute(MaxNow)
<1>1. n \in Nat /\ MaxNow \in Nat /\ n <= MaxNow /\ SecondsPerMinute \in Nat \ {0}
  BY ConstantsOK DEF ConstantsOK, Second
<1>2. Minute(n) \in Nat /\ Minute(MaxNow) \in Nat
  BY <1>1, DivNat DEF Minute
<1>3. Minute(n) <= Minute(MaxNow)
  BY <1>1, DivMonotone DEF Minute
<1>4. QED  BY <1>2, <1>3

LEMMA OthersKeepUnderway ==
  ASSUME TypeOK, NEW c \in Client, Underway(c), UNCHANGED <<pc[c], req[c]>>,
         anchors \subseteq anchors',
         pc[c] \in Running =>
           \A t \in Touches(req[c]) : status[t] # "absent" => status'[t] = status[t]
  PROVE  Underway(c)'
<1>1. ASSUME pc[c] \in {"anchor", "regen"}
      PROVE  status'[req[c].task] = NewStatus(req[c])
  <2>1. pc[c] \in Running /\ req[c] \in Request /\ req[c].task \in Task
    BY <1>1 DEF TypeOK, CallOK, Running
  <2>2. req[c].task \in Touches(req[c])
    BY <2>1, ConstantsOK DEF ConstantsOK, Touches
  <2>3. status[req[c].task] = NewStatus(req[c]) /\ NewStatus(req[c]) # "absent"
    BY <1>1, <2>1, RequestFields DEF Underway, Lifecycle!RowStatus
  <2>4. QED  BY <2>1, <2>2, <2>3
<1>2. pc[c] = "regen" => AnchorOnFile(req[c])'
  BY DEF Underway, AnchorOnFile, Minute
<1>3. QED  BY <1>1, <1>2 DEF Underway, NewStatus

(* One step of the call itself.                                            *)
LEMMA EndedIsUnderway ==
  ASSUME NEW c \in Client, pc'[c] \in Returned
  PROVE  Underway(c)'
BY DEF Underway, Returned

LEMMA ActivatedUnderway ==
  ASSUME TypeOK, NEW c \in Client, pc[c] \in {"activate_read", "activate_write"},
         Underway(c), Goto(c, AfterActivation(req[c]))
  PROVE  Underway(c)' /\ pc'[c] # "ok"
<1> DEFINE r == req[c]
<1>1. r \in Request /\ r.task \in Task /\ r.complete
  BY DEF TypeOK, CallOK, Running, Underway
<1>2. r.task # NoTask
  BY <1>1, ConstantsOK DEF ConstantsOK
<1>3. AfterActivation(r) = IF r.resume # NoTask THEN "discard"
                           ELSE IF r.plan > 0 THEN "set_plan" ELSE "status_read"
  BY <1>2 DEF AfterActivation
<1>4. pc'[c] = AfterActivation(r) /\ req'[c] = r
  BY <1>3 DEF Goto, TypeOK, Returned
<1>5. QED  BY <1>1, <1>3, <1>4 DEF Underway

LEMMA OwnStatementUnderway ==
  ASSUME TypeOK, CheckStillHolds, NEW c \in Client, Underway(c), Statement(c),
         NEW r \in Request, req[c] = r
  PROVE  Underway(c)' /\ (pc'[c] = "ok" => Fulfilled(r)')
<1> USE DEF At
<1>1. CASE ActivateRead(c)
  <2>1. CASE Allowed(r.task, "active")
    BY <1>1, <2>1 DEF ActivateRead, Underway, Goto, TypeOK, Returned
  <2>2. CASE ~Allowed(r.task, "active")
    BY <1>1, <2>2, ActivatedUnderway DEF ActivateRead
  <2>3. QED  BY <2>1, <2>2
<1>2. CASE ActivateWrite(c)
  BY <1>2, ActivatedUnderway DEF ActivateWrite
<1>3. CASE DiscardCurrent(c)
  BY <1>3 DEF DiscardCurrent, Underway, Goto, TypeOK, Returned
<1>4. CASE ResumeRead(c)
  BY <1>4 DEF ResumeRead, Underway, Goto, TypeOK, Returned
<1>5. CASE ResumeWrite(c)
  <2>1. pc'[c] = "ok" /\ r.complete /\ r.resume # NoTask /\ r.resume \in Task
    BY <1>5 DEF ResumeWrite, Underway, Goto, TypeOK, CallOK, Running
  <2>2. Exists(r.resume)
    BY <1>5
       DEF ResumeWrite, CheckStillHolds, Allowed, VALID_TRANSITIONS,
           Lifecycle!VALID_TRANSITIONS, Exists
  <2>3. status'[r.resume] = "active"
    BY <1>5, <2>1, <2>2 DEF ResumeWrite, SetStatus, TypeOK
  <2>4. QED  BY <2>1, <2>3, EndedIsUnderway DEF Fulfilled, Returned
<1>6. CASE SetPlan(c)
  BY <1>6 DEF SetPlan, Underway, Goto, TypeOK, Returned
<1>7. CASE StatusRead(c)
  BY <1>7 DEF StatusRead, Underway, Goto, TypeOK, Returned
<1>8. CASE StatusWrite(c)
  <2>1. r.task \in Task /\ ~(r.complete /\ r.resume # NoTask)
    BY <1>8 DEF StatusWrite, Underway, TypeOK, CallOK, Running
  <2>2. Exists(r.task)
    BY <1>8
       DEF StatusWrite, CheckStillHolds, Allowed, VALID_TRANSITIONS,
           Lifecycle!VALID_TRANSITIONS, Exists
  <2>3. status'[r.task] = NewStatus(r)
    BY <1>8, <2>1, <2>2 DEF StatusWrite, SetStatus, TypeOK
  <2>4. pc'[c] = IF r.anchor THEN "anchor" ELSE "ok"
    BY <1>8 DEF StatusWrite, Goto, TypeOK
  <2>5. CASE r.anchor
    <3>1. pc'[c] = "anchor" /\ req'[c] = r
      BY <1>8, <2>5 DEF StatusWrite, Goto, TypeOK, Returned
    <3>2. QED  BY <2>1, <2>3, <3>1 DEF Underway, NewStatus
  <2>6. CASE ~r.anchor
    BY <2>1, <2>3, <2>4, <2>6, EndedIsUnderway DEF Fulfilled, NewStatus, Returned
  <2>7. QED  BY <2>5, <2>6
<1>9. CASE CreateAnchor(c)
  <2>1. /\ r.task \in Task /\ ~(r.complete /\ r.resume # NoTask)
        /\ status'[r.task] = NewStatus(r)
    BY <1>9 DEF CreateAnchor, Underway, TypeOK, CallOK, Running, rows
  <2>2. Minute(now) \in 0 .. Minute(MaxNow) /\ <<r.task, Minute(now)>> \in anchors'
    BY <1>9, MinuteInRange DEF CreateAnchor, TypeOK
  <2>3. PICK l \in {"ok", "regen", "err"} : Goto(c, l)
    BY <1>9 DEF CreateAnchor
  <2>4. pc'[c] = l /\ (l = "regen" => req'[c] = r)
    BY <2>3 DEF Goto, TypeOK, Returned
  <2>5. AnchorOnFile(r)'
    BY <2>2 DEF AnchorOnFile, Minute
  <2>6. pc'[c] = "ok" => Fulfilled(r)'
    BY <2>1, <2>5 DEF Fulfilled, AnchorOnFile, NewStatus
  <2>7. Underway(c)'
    <3>1. CASE l = "regen"
      BY <2>1, <2>4, <2>5, <3>1 DEF Underway, NewStatus, AnchorOnFile
    <3>2. CASE l # "regen"
      BY <2>4, <3>2, EndedIsUnderway DEF Returned
    <3>3. QED  BY <3>1, <3>2
  <2>8. QED  BY <2>6, <2>7
<1>10. CASE CreateRegenTask(c)
  <2>1. /\ r.task \in Task /\ ~(r.complete /\ r.resume # NoTask)
        /\ status[r.task] = NewStatus(r) /\ AnchorOnFile(r)
    BY <1>10 DEF CreateRegenTask, Underway, TypeOK, CallOK, Running
  <2>2. NewStatus(r) # "absent"
    BY RequestFields DEF Lifecycle!RowStatus
  <2>3. status'[r.task] = status[r.task] /\ anchors' = anchors
    BY <1>10, <2>1, <2>2 DEF CreateRegenTask, Exists, Insert, rows, TypeOK
  <2>4. pc'[c] = "ok"
    BY <1>10 DEF CreateRegenTask, Goto, TypeOK
  <2>5. Fulfilled(r)'
    BY <2>1, <2>3 DEF Fulfilled, AnchorOnFile, NewStatus, Minute
  <2>6. QED  BY <2>4, <2>5, EndedIsUnderway DEF Returned
<1>11. QED
  BY <1>1, <1>2, <1>3, <1>4, <1>5, <1>6, <1>7, <1>8, <1>9, <1>10 DEF Statement

LEMMA AbortUnderway ==
  ASSUME TypeOK, NEW c \in Client, Underway(c), Abort(c), NEW r \in Request, req[c] = r
  PROVE  Underway(c)' /\ (pc'[c] = "ok" => Fulfilled(r)')
<1>1. CASE Goto(c, "err")
  BY <1>1, EndedIsUnderway DEF Goto, TypeOK, Returned
<1>2. CASE pc[c] \in {"activate_read", "activate_write"} /\ Goto(c, AfterActivation(req[c]))
  BY <1>2, ActivatedUnderway
<1>3. CASE pc[c] = "regen" /\ Goto(c, "ok")
  <2>1. /\ ~(r.complete /\ r.resume # NoTask)
        /\ status[r.task] = NewStatus(r) /\ AnchorOnFile(r)
    BY <1>3 DEF Underway
  <2>2. Fulfilled(r)'
    BY <2>1 DEF Abort, Fulfilled, AnchorOnFile, NewStatus, Minute, rows
  <2>3. pc'[c] = "ok"
    BY <1>3 DEF Goto, TypeOK
  <2>4. QED  BY <2>2, <2>3, EndedIsUnderway DEF Returned
<1>4. QED  BY <1>1, <1>2, <1>3 DEF Abort

LEMMA CallUnderway ==
  ASSUME TypeOK, NEW c \in Client, NEW r \in Request, Call(c, r)
  PROVE  Underway(c)'
<1>1. pc'[c] = FirstStatement(r) /\ req'[c] = r /\ FirstStatement(r) \notin Returned
  BY DEF Call, TypeOK
<1>2. CASE ~r.complete
  BY <1>1, <1>2 DEF FirstStatement, Underway
<1>3. CASE r.complete /\ r.task # NoTask
  BY <1>1, <1>3 DEF FirstStatement, Underway
<1>4. CASE r.complete /\ r.task = NoTask
  BY <1>1, <1>4 DEF FirstStatement, AfterActivation, Underway, Returned
<1>5. QED  BY <1>2, <1>3, <1>4

LEMMA UnderwayStep ==
  ASSUME OneCallPerTask, TypeOK, LifecycleInv, UnderwayInv, [Next]_vars
  PROVE  /\ UnderwayInv'
         /\ \A c \in Client, r \in Request :
              pc[c] \in Running /\ req[c] = r /\ pc'[c] = "ok" => Fulfilled(r)'
<1> DEFINE Promise(c, r) ==
             pc[c] \in Running /\ req[c] = r /\ pc'[c] = "ok" => Fulfilled(r)'
<1> SUFFICES UnderwayInv' /\ \A c \in Client, r \in Request : Promise(c, r)
  OBVIOUS
\* The calls that the step does not belong to go on as they were.
<1>1. ASSUME NEW c \in Client, UNCHANGED <<pc[c], req[c]>>, anchors \subseteq anchors',
             pc[c] \in Running =>
               \A t \in Touches(req[c]) : status[t] # "absent" => status'[t] = status[t]
      PROVE  Underway(c)' /\ \A r \in Request : Promise(c, r)
  <2>1. Underway(c)'
    BY <1>1, OthersKeepUnderway DEF UnderwayInv
  <2>2. pc[c] \in Running => pc'[c] # "ok"
    BY <1>1 DEF Running
  <2>3. QED  BY <2>1, <2>2
<1> HIDE DEF Promise
<1>2. ASSUME NEW c \in Client, Statement(c)
      PROVE  UnderwayInv' /\ \A d \in Client, r \in Request : Promise(d, r)
  <2>1. OwnStep(c) /\ pc[c] \in Running /\ req[c] \in Request
    <3>1. pc[c] \in Running
      BY <1>2 DEF Statement, ActivateRead, ActivateWrite, DiscardCurrent, ResumeRead, ResumeWrite,
                  SetPlan, StatusRead, StatusWrite, CreateAnchor, CreateRegenTask, At, Running
    <3>2. QED  BY <1>2, <3>1, StatementOwnStep DEF LifecycleInv, TypeOK, CallOK
  <2>2. Underway(c)' /\ \A r \in Request : Promise(c, r)
    BY <1>2, <2>1, OwnStatementUnderway DEF LifecycleInv, UnderwayInv, Promise
  <2>3. anchors \subseteq anchors'
    BY <1>2 DEF Statement, ActivateRead, ActivateWrite, DiscardCurrent, ResumeRead, ResumeWrite,
                SetPlan, StatusRead, StatusWrite, CreateAnchor, CreateRegenTask
  <2>4. ASSUME NEW d \in Client \ {c}
        PROVE  Underway(d)' /\ \A r \in Request : Promise(d, r)
    <3>1. UNCHANGED <<pc[d], req[d]>>
      BY <2>1 DEF OwnStep
    <3>2. ASSUME pc[d] \in Running
          PROVE  \A t \in Touches(req[d]) : status[t] # "absent" => status'[t] = status[t]
      <4>1. Touches(req[c]) \cap Touches(req[d]) = {}
        BY <2>1, <3>2 DEF LifecycleInv, CallsApart
      <4>2. Touches(req[d]) \subseteq Task
        BY <3>2, RequestFields DEF TypeOK, CallOK, Touches
      <4>3. QED  BY <2>1, <4>1, <4>2 DEF OwnStep
    <3>3. QED  BY <1>1, <2>3, <3>1, <3>2
  <2>5. QED  BY <2>2, <2>4 DEF UnderwayInv
<1>3. ASSUME NEW c \in Client, Abort(c)
      PROVE  UnderwayInv' /\ \A d \in Client, r \in Request : Promise(d, r)
  <2>1. Underway(c)' /\ \A r \in Request : Promise(c, r)
    BY <1>3, AbortUnderway DEF UnderwayInv, Promise, Abort, TypeOK, CallOK
  <2>2. \A d \in Client \ {c} : UNCHANGED <<pc[d], req[d]>>
    BY <1>3 DEF Abort, Goto, TypeOK
  <2>3. anchors' = anchors /\ status' = status
    BY <1>3 DEF Abort, rows
  <2>4. QED  BY <1>1, <2>1, <2>2, <2>3 DEF UnderwayInv
<1>4. ASSUME NEW c \in Client, NEW q \in Request, Call(c, q)
      PROVE  UnderwayInv' /\ \A d \in Client, r \in Request : Promise(d, r)
  <2>1. Underway(c)' /\ \A r \in Request : Promise(c, r)
    BY <1>4, CallUnderway DEF Call, Promise, Returned, Running
  <2>2. \A d \in Client \ {c} : UNCHANGED <<pc[d], req[d]>>
    BY <1>4 DEF Call, TypeOK
  <2>3. anchors' = anchors /\ status' = status
    BY <1>4 DEF Call, rows
  <2>4. QED  BY <1>1, <2>1, <2>2, <2>3 DEF UnderwayInv
<1>5. CASE Crash
  <2>1. \A c \in Client : pc'[c] \in Returned /\ (pc[c] \in Running => pc'[c] # "ok")
    BY <1>5 DEF Crash, TypeOK, Returned, Running
  <2>2. QED  BY <2>1, EndedIsUnderway DEF UnderwayInv, Promise
<1>6. ASSUME UNCHANGED <<calls, anchors>>, status' = status \/ RowAdded
      PROVE  UnderwayInv' /\ \A d \in Client, r \in Request : Promise(d, r)
  <2>1. \A t \in Task : status[t] # "absent" => status'[t] = status[t]
    BY <1>6, RowAddedIsCreate
  <2>2. ASSUME NEW c \in Client, pc[c] \in Running
        PROVE  Touches(req[c]) \subseteq Task
    BY <2>2, RequestFields DEF TypeOK, CallOK, Touches
  <2>3. QED  BY <1>1, <1>6, <2>1, <2>2 DEF UnderwayInv, calls
<1>7. CASE CreateExecutor
  <2>1. ExecutorId[<<planner, now>>] \in Task
    BY <1>7, ConstantsOK DEF ConstantsOK, CreateExecutor, TypeOK
  <2>2. UNCHANGED <<calls, anchors>> /\ (status' = status \/ RowAdded)
    BY <1>7, <2>1 DEF CreateExecutor, Insert, Exists, RowAdded, rows
  <2>3. QED  BY <1>6, <2>2
<1>8. ASSUME NEW t \in RuntimeTask, CreateTask(t)
      PROVE  UnderwayInv' /\ \A d \in Client, r \in Request : Promise(d, r)
  <2>1. t \in Task
    BY ConstantsOK DEF ConstantsOK
  <2>2. UNCHANGED <<calls, anchors>> /\ RowAdded
    BY <1>8, <2>1 DEF CreateTask, Insert, Exists, RowAdded
  <2>3. QED  BY <1>6, <2>2
<1>9. CASE \/ TickStart \/ (\E p \in Task : SkipPlanner(p) \/ VisitPlanner(p))
           \/ PopRead \/ PopWrite \/ TickEnd
           \/ DispatchAborts \/ AdvanceClock \/ UNCHANGED vars
  <2>1. UNCHANGED <<calls, anchors>> /\ status' = status
    BY <1>9 DEF TickStart, SkipPlanner, VisitPlanner, PopRead, PopWrite, SetTodo, TickEnd,
                DispatchAborts, AdvanceClock, vars, rows
  <2>2. QED  BY <1>6, <2>1
<1>10. QED
  BY <1>2, <1>3, <1>4, <1>5, <1>7, <1>8, <1>9 DEF Next, Dispatch

(* With calls on one task kept apart, logos_complete never reports a       *)
(* success it has not brought about: when a call ends well the resumed     *)
(* task is awake, or the planner or task is in its new status and its      *)
(* anchor on file, whatever failed, was cancelled or restarted before.     *)
THEOREM SuccessReal ==
  ASSUME OneCallPerTask
  PROVE  Spec => SuccessIsReal
<1>1. Init => UnderwayInv
  BY DEF Init, UnderwayInv, Underway
<1>2. TypeOK /\ LifecycleInv /\ UnderwayInv /\ [Next]_vars
        => /\ UnderwayInv'
           /\ [\A c \in Client, r \in Request :
                 pc[c] \in Running /\ req[c] = r /\ pc'[c] = "ok" => Fulfilled(r)']_vars
  BY UnderwayStep
<1>3. QED
  BY <1>1, <1>2, TypeCorrect, LifecycleInvariant, PTL DEF Spec, SuccessIsReal

-------------------------------------------------------------------------------
(* No step is lost.  As long as no statement fails and no call revises or  *)
(* discards a plan that still has steps, a todo that is not empty changes  *)
(* in one way only: the dispatcher pops it, and it holds what it popped.   *)
NoRevision ==
    \A c \in Client : pc[c] \in {"set_plan", "discard"} => plan_todo[req[c].task] = << >>

HandsInv ==
    /\ spc \notin {"pop_write", "create"} => held = << >>
    /\ spc = "pop_write" => plan_todo[planner] = held
    /\ spc = "create" => StepsIn(Tail(held)) \subseteq StepsIn(plan_todo[planner])

TodosKept == \A p \in Task : plan_todo[p] # << >> => plan_todo'[p] = plan_todo[p]

LEMMA NoStepsInEmpty == StepsIn(<< >>) = {}
BY EmptySeq DEF StepsIn

(* A step is kept in a todo, in the dispatcher's hands or on record.       *)
KeptIn(n, todo, hand, record) ==
    \/ \E p \in Task : n \in StepsIn(todo[p])
    \/ n \in StepsIn(hand)
    \/ \E i \in DOMAIN record : n = record[i][2]

LEMMA StepsKeptIs ==
  /\ \A n : n \in StepsKept <=> KeptIn(n, plan_todo, held, dispatched)
  /\ \A n : n \in StepsKept' <=> KeptIn(n, plan_todo', held', dispatched')
<1> DEFINE T == { StepsIn(plan_todo[p]) : p \in Task }
           U == { StepsIn(plan_todo'[p]) : p \in Task }
           R == { dispatched[i][2] : i \in DOMAIN dispatched }
           S == { dispatched'[i][2] : i \in DOMAIN dispatched' }
<1>1. ASSUME NEW n
      PROVE  /\ n \in UNION T <=> \E p \in Task : n \in StepsIn(plan_todo[p])
             /\ n \in UNION U <=> \E p \in Task : n \in StepsIn(plan_todo'[p])
  OBVIOUS
<1>2. ASSUME NEW n
      PROVE  /\ n \in R <=> \E i \in DOMAIN dispatched : n = dispatched[i][2]
             /\ n \in S <=> \E i \in DOMAIN dispatched' : n = dispatched'[i][2]
  OBVIOUS
<1>3. /\ StepsKept = (UNION T) \cup StepsIn(held) \cup R
      /\ StepsKept' = (UNION U) \cup StepsIn(held') \cup S
  BY DEF StepsKept, StepsIn
<1> HIDE DEF T, U, R, S
<1>4. ASSUME NEW n
      PROVE  n \in StepsKept <=> KeptIn(n, plan_todo, held, dispatched)
  BY <1>1, <1>2, <1>3 DEF KeptIn
<1>5. ASSUME NEW n
      PROVE  n \in StepsKept' <=> KeptIn(n, plan_todo', held', dispatched')
  BY <1>1, <1>2, <1>3 DEF KeptIn
<1>6. QED  BY <1>4, <1>5

LEMMA TodosKeptKeepsSteps ==
  ASSUME TypeOK, TodosKept, UNCHANGED <<held, dispatched>>
  PROVE  StepsKept \subseteq StepsKept'
<1>1. \A p \in Task : StepsIn(plan_todo[p]) \subseteq StepsIn(plan_todo'[p])
  BY NoStepsInEmpty DEF TodosKept
<1>2. ASSUME NEW n, KeptIn(n, plan_todo, held, dispatched)
      PROVE  KeptIn(n, plan_todo', held', dispatched')
  BY <1>1, <1>2 DEF KeptIn
<1>3. QED  BY <1>2, StepsKeptIs

LEMMA TodosKeptKeepsHands ==
  ASSUME TypeOK, HandsInv, TodosKept, UNCHANGED <<spc, planner, held>>
  PROVE  HandsInv'
<1>1. spc' = "pop_write" => plan_todo'[planner'] = held'
  BY DEF TypeOK, HandsInv, TodosKept
<1>2. ASSUME spc' = "create"
      PROVE  StepsIn(Tail(held')) \subseteq StepsIn(plan_todo'[planner'])
  <2>1. planner \in Task /\ StepsIn(Tail(held)) \subseteq StepsIn(plan_todo[planner])
    BY <1>2 DEF TypeOK, HandsInv
  <2>2. CASE plan_todo[planner] = << >>
    BY <2>1, <2>2, NoStepsInEmpty
  <2>3. CASE plan_todo[planner] # << >>
    BY <2>1, <2>3 DEF TodosKept
  <2>4. QED  BY <2>2, <2>3
<1>3. QED  BY <1>1, <1>2 DEF HandsInv, StepsIn

\* Call c replaces the steps that wait, or discards the task they wait for.
Revises(c) ==
    /\ pc[c] \in {"set_plan", "discard"}
    /\ plan_todo[req[c].task] # << >>
    /\ plan_todo'[req[c].task] # plan_todo[req[c].task]

(* A row is added where there was none, and nobody sets a plan or discards *)
(* a task that has steps.                                                  *)
LEMMA InsertKeepsTodos ==
  ASSUME TypeOK, NoRowNoTodo, NEW t \in Task, ~Exists(t), NEW p, Insert(t, p)
  PROVE  TodosKept
BY DEF TypeOK, NoRowNoTodo, Exists, Insert, TodosKept

LEMMA StatementKeepsTodos ==
  ASSUME TypeOK, NoRowNoTodo, NEW c \in Client, ~Revises(c), Statement(c)
  PROVE  TodosKept /\ UNCHANGED <<dispatch, dispatched>>
<1> USE DEF At
<1>1. CASE ActivateRead(c) \/ ResumeRead(c) \/ StatusRead(c) \/ CreateAnchor(c)
  BY <1>1 DEF ActivateRead, ResumeRead, StatusRead, CreateAnchor, rows, history, TodosKept
<1>2. CASE ActivateWrite(c) \/ ResumeWrite(c) \/ StatusWrite(c)
  BY <1>2 DEF ActivateWrite, ResumeWrite, StatusWrite, SetStatus, history, TodosKept
<1>3. CASE DiscardCurrent(c)
  <2>1. /\ req[c].task \in Task /\ plan_todo[req[c].task] \in {<< >>, plan_todo'[req[c].task]}
        /\ \A p \in Task : p # req[c].task => plan_todo'[p] = plan_todo[p]
    BY <1>3 DEF DiscardCurrent, Delete, TypeOK, CallOK, Running, Revises
  <2>2. TodosKept
    BY <2>1 DEF TodosKept
  <2>3. QED  BY <1>3, <2>2 DEF DiscardCurrent, history
<1>4. CASE SetPlan(c)
  <2>1. /\ req[c].task \in Task /\ plan_todo[req[c].task] \in {<< >>, plan_todo'[req[c].task]}
        /\ \A p \in Task : p # req[c].task => plan_todo'[p] = plan_todo[p]
    BY <1>4 DEF SetPlan, SetTodo, TypeOK, CallOK, Running, Revises
  <2>2. TodosKept
    BY <2>1 DEF TodosKept
  <2>3. QED  BY <1>4, <2>2 DEF SetPlan
<1>5. CASE CreateRegenTask(c)
  <2>1. RegenId[now] \in Task
    BY ConstantsOK DEF ConstantsOK, TypeOK
  <2>2. TodosKept
    BY <1>5, <2>1, InsertKeepsTodos DEF CreateRegenTask, rows, TodosKept
  <2>3. QED  BY <1>5, <2>2 DEF CreateRegenTask, history
<1>6. QED  BY <1>1, <1>2, <1>3, <1>4, <1>5 DEF Statement

(* The dispatcher takes a todo into its hands, ...                         *)
LEMMA PopReadKeepsSteps ==
  ASSUME TypeOK, HandsInv, PopRead
  PROVE  HandsInv' /\ StepsKept \subseteq StepsKept'
<1>1. /\ planner \in Task /\ held = << >>
      /\ held' = plan_todo[planner] /\ UNCHANGED <<plan_todo, dispatched>>
  BY DEF PopRead, TypeOK, HandsInv, rows, history
<1>2. StepsKept \subseteq StepsKept'
  BY <1>1, NoStepsInEmpty, StepsKeptIs DEF KeptIn
<1>3. HandsInv'
  BY <1>1 DEF PopRead, HandsInv
<1>4. QED  BY <1>2, <1>3

(* ... puts back all but its first step, ...                               *)
LEMMA PopWriteKeepsSteps ==
  ASSUME TypeOK, NoRowNoTodo, HandsInv, PopWrite
  PROVE  HandsInv' /\ StepsKept \subseteq StepsKept'
<1>1. planner \in Task /\ held # << >> /\ plan_todo[planner] = held /\ Exists(planner)
  BY DEF PopWrite, TypeOK, HandsInv, NoRowNoTodo, Exists
<1>2. /\ plan_todo' = [plan_todo EXCEPT ![planner] = Tail(held)]
      /\ UNCHANGED <<held, planner, dispatched>> /\ spc' = "create"
  BY <1>1 DEF PopWrite, SetTodo, history
<1>3. /\ plan_todo'[planner] = Tail(held)
      /\ \A p \in Task \ {planner} : plan_todo'[p] = plan_todo[p]
  BY <1>1, <1>2 DEF TypeOK
<1>4. HandsInv'
  BY <1>2, <1>3 DEF HandsInv
<1>5. StepsKept \subseteq StepsKept'
  <2>1. \A p \in Task : StepsIn(plan_todo[p]) \subseteq StepsIn(held) \cup StepsIn(plan_todo'[p])
    BY <1>1, <1>3
  <2>2. QED  BY <1>2, <2>1, StepsKeptIs DEF KeptIn
<1>6. QED  BY <1>4, <1>5

LEMMA HeadOrTail ==
  ASSUME NEW hand \in Seq(Nat), hand # << >>
  PROVE  StepsIn(hand) \subseteq {Head(hand)} \cup StepsIn(Tail(hand))
<1>1. /\ DOMAIN hand = 1 .. Len(hand) /\ Len(hand) \in Nat
      /\ Head(hand) = hand[1] /\ Tail(hand) \in Seq(Nat)
      /\ Len(Tail(hand)) = Len(hand) - 1
      /\ \A i \in 1 .. Len(Tail(hand)) : Tail(hand)[i] = hand[i + 1]
  BY HeadTailProperties, LenProperties
<1>2. DOMAIN Tail(hand) = 1 .. Len(Tail(hand))
  BY <1>1, LenProperties
<1>3. ASSUME NEW i \in DOMAIN hand
      PROVE  hand[i] \in {Head(hand)} \cup StepsIn(Tail(hand))
  <2>1. CASE i = 1
    BY <1>1, <2>1
  <2>2. CASE i # 1
    <3>1. i - 1 \in 1 .. Len(Tail(hand)) /\ Tail(hand)[i - 1] = hand[(i - 1) + 1]
      BY <1>1, <2>2
    <3>2. (i - 1) + 1 = i
      BY <1>1
    <3>3. QED  BY <1>2, <3>1, <3>2 DEF StepsIn
  <2>3. QED  BY <2>1, <2>2
<1>4. QED  BY <1>3 DEF StepsIn

LEMMA RecordedInAppend ==
  ASSUME NEW record \in Seq(Task \X Nat), NEW x \in Task \X Nat
  PROVE  /\ \A i \in DOMAIN record : i \in DOMAIN Append(record, x) /\ Append(record, x)[i] = record[i]
         /\ \E i \in DOMAIN Append(record, x) : Append(record, x)[i] = x
<1>1. /\ Len(record) \in Nat /\ DOMAIN record = 1 .. Len(record)
      /\ DOMAIN Append(record, x) = 1 .. Len(record) + 1
      /\ \A i \in DOMAIN record : Append(record, x)[i] = record[i]
      /\ Append(record, x)[Len(record) + 1] = x
  BY AppendProperties, LenProperties
<1>2. DOMAIN record \subseteq DOMAIN Append(record, x)
      /\ Len(record) + 1 \in DOMAIN Append(record, x)
  BY <1>1
<1>3. QED  BY <1>1, <1>2

(* ... and gives the first an executor, or loses it because the id of the  *)
(* executor is taken.                                                      *)
LEMMA CreateExecutorKeepsSteps ==
  ASSUME TypeOK, NoRowNoTodo, HandsInv, CreateExecutor
  PROVE  /\ HandsInv'
         /\ StepsKept \subseteq StepsKept' \/ Exists(ExecutorId[<<planner, now>>])
<1> DEFINE e == ExecutorId[<<planner, now>>]
           x == <<planner, Head(held)>>
<1>1. /\ planner \in Task /\ now \in Second /\ held \in Seq(Nat) /\ held # << >>
      /\ StepsIn(Tail(held)) \subseteq StepsIn(plan_todo[planner])
  BY DEF CreateExecutor, TypeOK, HandsInv
<1>2. HandsInv'
  BY DEF CreateExecutor, HandsInv
<1>3. ASSUME ~Exists(e)
      PROVE  StepsKept \subseteq StepsKept'
  <2>1. /\ Insert(e, planner) /\ dispatched' = Append(dispatched, x)
    BY <1>3 DEF CreateExecutor
  <2>2. TodosKept
    BY <1>1, <1>3, <2>1, InsertKeepsTodos, ConstantsOK DEF ConstantsOK
  <2>3. \A p \in Task : StepsIn(plan_todo[p]) \subseteq StepsIn(plan_todo'[p])
    BY <2>2, NoStepsInEmpty DEF TodosKept
  <2>4. { dispatched[i][2] : i \in DOMAIN dispatched } \cup {Head(held)}
          \subseteq { dispatched'[i][2] : i \in DOMAIN dispatched' }
    <3>1. /\ \A i \in DOMAIN dispatched :
               i \in DOMAIN dispatched' /\ dispatched'[i] = dispatched[i]
          /\ \E i \in DOMAIN dispatched' : dispatched'[i][2] = Head(held)
      <4>1. dispatched \in Seq(Task \X Nat) /\ x \in Task \X Nat /\ x[2] = Head(held)
        BY <1>1, HeadTailProperties DEF TypeOK
      <4>2. dispatched' = Append(dispatched, x)
        BY <2>1
      <4> HIDE DEF e, x
      <4>3. /\ \A i \in DOMAIN dispatched :
                i \in DOMAIN Append(dispatched, x) /\ Append(dispatched, x)[i] = dispatched[i]
            /\ \E i \in DOMAIN Append(dispatched, x) : Append(dispatched, x)[i] = x
        BY <4>1, RecordedInAppend
      <4>4. QED  BY <4>1, <4>2, <4>3
    <3>2. QED  BY <3>1
  <2>5. StepsIn(held) \subseteq {Head(held)} \cup StepsIn(Tail(held))
    BY <1>1, HeadOrTail
  <2>6. ASSUME NEW n, KeptIn(n, plan_todo, held, dispatched)
        PROVE  KeptIn(n, plan_todo', held', dispatched')
    <3>1. CASE \E p \in Task : n \in StepsIn(plan_todo[p])
      BY <2>3, <3>1 DEF KeptIn
    <3>2. CASE \E i \in DOMAIN dispatched : n = dispatched[i][2]
      BY <2>4, <3>2 DEF KeptIn
    <3>3. CASE n = Head(held)
      BY <2>4, <3>3 DEF KeptIn
    <3>4. CASE n \in StepsIn(Tail(held))
      BY <1>1, <2>3, <3>4 DEF KeptIn
    <3>5. QED  BY <2>5, <2>6, <3>1, <3>2, <3>3, <3>4 DEF KeptIn
  <2>7. QED  BY <2>6, StepsKeptIs
<1>4. QED  BY <1>2, <1>3

LEMMA HandsStep ==
  ASSUME ~Faults, TypeOK, NoRowNoTodo, NoRevision, HandsInv, [Next]_vars
  PROVE  /\ HandsInv'
         /\ \/ StepsKept \subseteq StepsKept'
            \/ spc = "create" /\ Exists(ExecutorId[<<planner, now>>])
<1>1. ASSUME TodosKept, UNCHANGED dispatched,
             UNCHANGED <<spc, planner, held>>
      PROVE  HandsInv' /\ StepsKept \subseteq StepsKept'
  BY <1>1, TodosKeptKeepsSteps, TodosKeptKeepsHands
<1>2. ASSUME NEW c \in Client, Statement(c)
      PROVE  HandsInv' /\ StepsKept \subseteq StepsKept'
  <2>1. ~Revises(c)
    BY DEF NoRevision, Revises
  <2>2. QED  BY <1>1, <1>2, <2>1, StatementKeepsTodos DEF dispatch
<1>3. ASSUME NEW t \in RuntimeTask, CreateTask(t)
      PROVE  HandsInv' /\ StepsKept \subseteq StepsKept'
  <2>1. t \in Task
    BY ConstantsOK DEF ConstantsOK
  <2>2. TodosKept
    BY <1>3, <2>1, InsertKeepsTodos DEF CreateTask
  <2>3. QED  BY <1>1, <1>3, <2>2 DEF CreateTask, dispatch, history
<1>4. CASE PopRead
  BY <1>4, PopReadKeepsSteps
<1>5. CASE PopWrite
  BY <1>5, PopWriteKeepsSteps
<1>6. CASE CreateExecutor
  BY <1>6, CreateExecutorKeepsSteps DEF CreateExecutor
\* The other steps touch neither a todo nor what the dispatcher holds.
<1>7. ASSUME UNCHANGED <<plan_todo, held, dispatched>>,
             \/ UNCHANGED <<spc, planner>>
             \/ {spc, spc'} \cap {"pop_write", "create"} = {}
      PROVE  HandsInv' /\ StepsKept \subseteq StepsKept'
  <2>1. StepsKept \subseteq StepsKept'
    BY <1>7, StepsKeptIs
  <2>2. CASE UNCHANGED <<spc, planner>>
    <3>1. TodosKept
      BY <1>7 DEF TodosKept
    <3>2. QED  BY <1>7, <2>1, <2>2, <3>1, TodosKeptKeepsHands
  <2>3. CASE {spc, spc'} \cap {"pop_write", "create"} = {}
    BY <1>7, <2>1, <2>3 DEF HandsInv
  <2>4. QED  BY <1>7, <2>2, <2>3
<1>8. CASE TickStart \/ (\E p \in Task : SkipPlanner(p) \/ VisitPlanner(p)) \/ TickEnd
  BY <1>7, <1>8 DEF TickStart, SkipPlanner, VisitPlanner, TickEnd, rows, history
<1>9. CASE (\E c \in Client, r \in Request : Call(c, r)) \/ AdvanceClock \/ UNCHANGED vars
  BY <1>7, <1>9 DEF Call, AdvanceClock, vars, rows, dispatch, history
<1>10. QED
  BY <1>2, <1>3, <1>4, <1>5, <1>6, <1>8, <1>9 DEF Next, Dispatch, Abort, DispatchAborts, Crash

\* cron.rs:104-118.  A step that was submitted stays in its planner's todo, in
\* the dispatcher's hands or on record as dispatched, unless the executor's id
\* is taken when it is to be created.  The hypothesis is that a plan replaces
\* no plan that is still under way and that no such planner is discarded.
THEOREM NoStepLost ==
  ASSUME ~Faults
  PROVE  Spec /\ []NoRevision => StepsConserved
<1>1. Init => HandsInv
  BY DEF Init, HandsInv
<1>2. TypeOK /\ DispatchInv /\ NoRevision /\ HandsInv /\ [Next]_vars
        => /\ HandsInv'
           /\ [\/ StepsKept \subseteq StepsKept'
               \/ spc = "create" /\ Exists(ExecutorId[<<planner, now>>])]_vars
  BY HandsStep DEF DispatchInv
<1>3. QED
  BY <1>1, <1>2, TypeCorrect, DispatchInvariant, PTL DEF Spec, StepsConserved

-------------------------------------------------------------------------------
(* Every loss is accounted for.  Without any assumption on faults, on what  *)
(* callers do and on when they do it: of the steps that wait in the table,  *)
(* have been popped from it or have an executor, the ways to lose one are   *)
(* three.                                                                   *)
Popped == IF spc = "create" THEN {Head(held)} ELSE {}

StepsUnderway ==
    (UNION { StepsIn(plan_todo[p]) : p \in Task }) \cup Popped
      \cup { dispatched[i][2] : i \in DOMAIN dispatched }

LEMMA StepsUnderwayIs ==
  /\ \A n : n \in StepsUnderway <=> KeptIn(n, plan_todo, << >>, dispatched) \/ n \in Popped
  /\ \A n : n \in StepsUnderway' <=> KeptIn(n, plan_todo', << >>, dispatched') \/ n \in Popped'
<1> DEFINE T == { StepsIn(plan_todo[p]) : p \in Task }
           U == { StepsIn(plan_todo'[p]) : p \in Task }
           R == { dispatched[i][2] : i \in DOMAIN dispatched }
           S == { dispatched'[i][2] : i \in DOMAIN dispatched' }
<1>1. ASSUME NEW n
      PROVE  /\ n \in UNION T <=> \E p \in Task : n \in StepsIn(plan_todo[p])
             /\ n \in UNION U <=> \E p \in Task : n \in StepsIn(plan_todo'[p])
  OBVIOUS
<1>2. ASSUME NEW n
      PROVE  /\ n \in R <=> \E i \in DOMAIN dispatched : n = dispatched[i][2]
             /\ n \in S <=> \E i \in DOMAIN dispatched' : n = dispatched'[i][2]
  OBVIOUS
<1>3. /\ StepsUnderway = (UNION T) \cup Popped \cup R
      /\ StepsUnderway' = (UNION U) \cup Popped' \cup S
  BY DEF StepsUnderway, StepsIn
<1> HIDE DEF T, U, R, S
<1>4. ASSUME NEW n
      PROVE  n \in StepsUnderway <=> KeptIn(n, plan_todo, << >>, dispatched) \/ n \in Popped
  BY <1>1, <1>2, <1>3, NoStepsInEmpty DEF KeptIn
<1>5. ASSUME NEW n
      PROVE  n \in StepsUnderway' <=> KeptIn(n, plan_todo', << >>, dispatched') \/ n \in Popped'
  BY <1>1, <1>2, <1>3, NoStepsInEmpty DEF KeptIn
<1>6. QED  BY <1>4, <1>5

LEMMA QuietKeepsUnderway ==
  ASSUME TodosKept, UNCHANGED dispatched, Popped \subseteq Popped'
  PROVE  StepsUnderway \subseteq StepsUnderway'
<1>1. \A p \in Task : StepsIn(plan_todo[p]) \subseteq StepsIn(plan_todo'[p])
  BY NoStepsInEmpty DEF TodosKept
<1>2. ASSUME NEW n, KeptIn(n, plan_todo, << >>, dispatched)
      PROVE  KeptIn(n, plan_todo', << >>, dispatched')
  BY <1>1, <1>2 DEF KeptIn
<1>3. QED  BY <1>2, StepsUnderwayIs

LEMMA PopWriteKeepsUnderway ==
  ASSUME TypeOK, PopWrite, plan_todo[planner] = held, NoRowNoTodo
  PROVE  StepsUnderway \subseteq StepsUnderway'
<1>1. planner \in Task /\ held \in Seq(Nat) /\ held # << >> /\ Exists(planner)
  BY DEF PopWrite, TypeOK, NoRowNoTodo, Exists
<1>2. /\ plan_todo'[planner] = Tail(held)
      /\ \A p \in Task \ {planner} : plan_todo'[p] = plan_todo[p]
      /\ UNCHANGED dispatched /\ spc # "create" /\ Popped' = {Head(held)}
  BY <1>1 DEF PopWrite, SetTodo, TypeOK, history, Popped
<1>3. StepsIn(held) \subseteq {Head(held)} \cup StepsIn(Tail(held))
  BY <1>1, HeadOrTail
<1>4. \A p \in Task : StepsIn(plan_todo[p]) \subseteq Popped' \cup StepsIn(plan_todo'[p])
                                                    \cup StepsIn(plan_todo'[planner])
  BY <1>1, <1>2, <1>3
<1>5. Popped = {}
  BY <1>2 DEF Popped
<1>6. ASSUME NEW n, KeptIn(n, plan_todo, << >>, dispatched)
      PROVE  KeptIn(n, plan_todo', << >>, dispatched') \/ n \in Popped'
  BY <1>1, <1>2, <1>4, <1>6, NoStepsInEmpty DEF KeptIn
<1>7. QED  BY <1>5, <1>6, StepsUnderwayIs

LEMMA CreateKeepsUnderway ==
  ASSUME TypeOK, NoRowNoTodo, CreateExecutor, spc' # "idle"
  PROVE  StepsUnderway \subseteq StepsUnderway'
<1> DEFINE e == ExecutorId[<<planner, now>>]
           x == <<planner, Head(held)>>
<1>1. planner \in Task /\ now \in Second /\ held \in Seq(Nat) /\ held # << >>
  BY DEF CreateExecutor, TypeOK
<1>2. ~Exists(e) /\ Insert(e, planner) /\ dispatched' = Append(dispatched, x)
  BY DEF CreateExecutor
<1>3. TodosKept
  BY <1>1, <1>2, InsertKeepsTodos, ConstantsOK DEF ConstantsOK
<1>4. \A p \in Task : StepsIn(plan_todo[p]) \subseteq StepsIn(plan_todo'[p])
  BY <1>3, NoStepsInEmpty DEF TodosKept
<1>5. /\ \A i \in DOMAIN dispatched : i \in DOMAIN dispatched' /\ dispatched'[i] = dispatched[i]
      /\ \E i \in DOMAIN dispatched' : dispatched'[i][2] = Head(held)
  <2>1. dispatched \in Seq(Task \X Nat) /\ x \in Task \X Nat /\ x[2] = Head(held)
    BY <1>1, HeadTailProperties DEF TypeOK
  <2>2. dispatched' = Append(dispatched, x)
    BY <1>2
  <2> HIDE DEF e, x
  <2>3. /\ \A i \in DOMAIN dispatched :
            i \in DOMAIN Append(dispatched, x) /\ Append(dispatched, x)[i] = dispatched[i]
        /\ \E i \in DOMAIN Append(dispatched, x) : Append(dispatched, x)[i] = x
    BY <2>1, RecordedInAppend
  <2>4. QED  BY <2>1, <2>2, <2>3
<1>6. Popped \subseteq {Head(held)}
  BY DEF Popped
<1>7. ASSUME NEW n, KeptIn(n, plan_todo, << >>, dispatched) \/ n \in Popped
      PROVE  KeptIn(n, plan_todo', << >>, dispatched')
  BY <1>4, <1>5, <1>6, <1>7 DEF KeptIn
<1>8. QED  BY <1>7, StepsUnderwayIs

LEMMA StepIsAccounted ==
  ASSUME TypeOK, NoRowNoTodo, [Next]_vars
  PROVE  \/ StepsUnderway \subseteq StepsUnderway'
         \/ \E c \in Client : Revises(c)
         \/ spc = "pop_write" /\ spc' = "create" /\ plan_todo[planner] # held
         \/ spc = "create" /\ spc' = "idle"
<1>1. ASSUME NEW c \in Client, Statement(c), ~Revises(c)
      PROVE  StepsUnderway \subseteq StepsUnderway'
  <2>1. TodosKept /\ UNCHANGED <<dispatch, dispatched>>
    BY <1>1, StatementKeepsTodos
  <2>2. QED  BY <2>1, QuietKeepsUnderway DEF dispatch, Popped
<1>2. ASSUME NEW t \in RuntimeTask, CreateTask(t)
      PROVE  StepsUnderway \subseteq StepsUnderway'
  <2>1. t \in Task
    BY ConstantsOK DEF ConstantsOK
  <2>2. TodosKept
    BY <1>2, <2>1, InsertKeepsTodos DEF CreateTask
  <2>3. QED  BY <1>2, <2>2, QuietKeepsUnderway DEF CreateTask, dispatch, history, Popped
<1>3. CASE PopWrite
  BY <1>3, PopWriteKeepsUnderway DEF PopWrite
<1>4. CASE CreateExecutor
  BY <1>4, CreateKeepsUnderway DEF CreateExecutor
\* The other steps touch no todo, and the popped step only when they end the
\* tick.
<1>5. ASSUME UNCHANGED <<plan_todo, dispatched>>,
             spc # "create" \/ UNCHANGED <<spc, held>>
      PROVE  StepsUnderway \subseteq StepsUnderway'
  <2>1. TodosKept
    BY <1>5 DEF TodosKept
  <2>2. Popped \subseteq Popped'
    BY <1>5 DEF Popped
  <2>3. QED  BY <1>5, <2>1, <2>2, QuietKeepsUnderway
<1>6. CASE TickStart \/ (\E p \in Task : SkipPlanner(p) \/ VisitPlanner(p)) \/ TickEnd \/ PopRead
  BY <1>5, <1>6 DEF TickStart, SkipPlanner, VisitPlanner, TickEnd, PopRead, rows, history
<1>7. CASE \/ \E c \in Client : (\E r \in Request : Call(c, r)) \/ Abort(c)
           \/ AdvanceClock \/ UNCHANGED vars
  BY <1>5, <1>7 DEF Call, Abort, AdvanceClock, vars, rows, dispatch, history
<1>8. CASE DispatchAborts \/ Crash
  <2>1. spc' = "idle" /\ UNCHANGED <<plan_todo, dispatched>>
    BY <1>8 DEF DispatchAborts, Crash, StopDispatch, rows, history
  <2>2. QED  BY <1>5, <2>1
<1>9. QED
  BY <1>1, <1>2, <1>3, <1>4, <1>6, <1>7, <1>8 DEF Next, Dispatch

\* Whatever fails, whoever calls and in whatever order the statements of calls
\* and dispatcher interleave, a submitted step disappears in three ways only: a
\* call replaces or discards the steps that wait (complete.rs); pop_plan_head
\* writes back the todo it has read over one that was revised meanwhile
\* (tasks.rs); or tick_plans ends between that write and the INSERT of the
\* executor (cron.rs:104-118).
THEOREM LossesAccounted ==
  Spec => [][\/ StepsUnderway \subseteq StepsUnderway'
             \/ \E c \in Client : Revises(c)
             \/ spc = "pop_write" /\ spc' = "create" /\ plan_todo[planner] # held
             \/ spc = "create" /\ spc' = "idle"]_vars
<1>1. TypeOK /\ DispatchInv /\ [Next]_vars
        => [\/ StepsUnderway \subseteq StepsUnderway'
            \/ \E c \in Client : Revises(c)
            \/ spc = "pop_write" /\ spc' = "create" /\ plan_todo[planner] # held
            \/ spc = "create" /\ spc' = "idle"]_vars
  BY StepIsAccounted DEF DispatchInv
<1>2. QED  BY <1>1, TypeCorrect, DispatchInvariant, PTL DEF Spec
===============================================================================
