------------------------------ MODULE TaskSystem ------------------------------
(***************************************************************************)
(* The task table of logos-system and the two kinds of process that write  *)
(* it: the gRPC handlers that run logos_complete (complete.rs) or a        *)
(* transition, and the plan dispatcher of the cron loop (cron.rs).         *)
(*                                                                         *)
(* The table is a SQLite file behind a pool of four connections and no     *)
(* handler opens a transaction, so the unit of atomicity is one SQL        *)
(* statement: every action below is one statement, and a handler that      *)
(* reads a row and later writes it can find the row changed in between.    *)
(* A handler stops early when a statement fails or its request is          *)
(* cancelled (Abort, DispatchAborts); the kernel may die at any time       *)
(* (Crash), which loses every handler and keeps the table.                 *)
(***************************************************************************)
EXTENDS Naturals, Sequences

CONSTANTS
    Task,            \* task ids
    NoTask,          \* the empty task id of a request or of plan_parent
    RuntimeTask,     \* the ids the runtime and the cron jobs create
    Client,          \* concurrent gRPC requests
    Request,         \* the calls that clients make
    ExecutorId,      \* <<planner, second>> |-> the id of an executor task
    RegenId,         \* second |-> the id of a summary regeneration task
    SecondsPerMinute,\* anchor ids have the granularity of a minute
    OneCallPerTask,  \* do callers keep calls that touch one task apart?
    Faults,          \* may statements fail, requests be cancelled, and
                     \* the kernel die?
    MaxNow,          \* bound: the last value of the clock
    MaxStep          \* bound: plan steps submitted before clients stop planning

VARIABLES
    status,          \* tasks.status, "absent" where there is no row
    plan_todo,       \* tasks.plan_todo: the steps that wait, by number
    plan_parent,     \* tasks.plan_parent
    anchors,         \* primary keys <<task, minute>> of the anchors table
    pc,              \* where each request is, or how its last call ended
    req,             \* the parameters of that call
    spc,             \* where the dispatcher is within tick_plans
    queue,           \* planners of this tick's snapshot still to be visited
    planner,         \* the planner being visited
    held,            \* its plan_todo, as pop_plan_head read it
    now,             \* the clock, in seconds
    \* history: plan steps are numbered as they are submitted
    nextStep,        \* number of the next plan step to be submitted
    dispatched       \* <<planner, step>> of every executor, in order

rows     == <<status, plan_todo, plan_parent>>
calls    == <<pc, req>>
dispatch == <<spc, queue, planner, held>>
history  == <<nextStep, dispatched>>
vars     == <<rows, anchors, calls, dispatch, now, history>>

Lifecycle == INSTANCE TaskLifecycle

Status == Lifecycle!Status
VALID_TRANSITIONS == Lifecycle!VALID_TRANSITIONS

(* Requests: logos_complete when complete is TRUE, with sleep_reason        *)
(* standing behind to = "sleep" and plan for the length of plan.todo, and   *)
(* a bare transition to the status "to" otherwise.                          *)
Requests ==
    [complete : BOOLEAN, task : Task \cup {NoTask}, resume : Task \cup {NoTask},
     plan : Nat, to : Lifecycle!RowStatus, anchor : BOOLEAN]

NoRequest ==
    [complete |-> FALSE, task |-> NoTask, resume |-> NoTask,
     plan |-> 0, to |-> "active", anchor |-> FALSE]

Second == 0 .. MaxNow
Minute(n) == n \div SecondsPerMinute

ASSUME ConstantsOK ==
    /\ NoTask \notin Task
    /\ RuntimeTask \subseteq Task
    /\ Request \subseteq Requests
    /\ \A r \in Request : ~r.complete => r.task # NoTask /\ ~r.anchor
    /\ ExecutorId \in [Task \X Second -> Task]
    /\ RegenId \in [Second -> Task]
    /\ SecondsPerMinute \in Nat \ {0}
    /\ OneCallPerTask \in BOOLEAN /\ Faults \in BOOLEAN
    /\ MaxNow \in Nat /\ MaxStep \in Nat

\* A client that has made no call yet counts as one whose call went well.
Returned == {"ok", "err"}
Running == { "activate_read", "activate_write", "discard", "resume_read",
             "resume_write", "set_plan", "status_read", "status_write",
             "anchor", "regen" }

Init ==
    /\ status = [t \in Task |-> "absent"]
    /\ plan_todo = [t \in Task |-> << >>]
    /\ plan_parent = [t \in Task |-> NoTask]
    /\ anchors = {}
    /\ pc = [c \in Client |-> "ok"]
    /\ req = [c \in Client |-> NoRequest]
    /\ spc = "idle" /\ queue = {} /\ planner = NoTask /\ held = << >>
    /\ now = 0
    /\ nextStep = 1 /\ dispatched = << >>

-------------------------------------------------------------------------------
(* SQL statements.                                                         *)

Exists(t) == status[t] # "absent"

\* INSERT INTO tasks, of a row whose key is free.
Insert(t, parent) ==
    /\ status' = [status EXCEPT ![t] = "pending"]
    /\ plan_todo' = [plan_todo EXCEPT ![t] = << >>]
    /\ plan_parent' = [plan_parent EXCEPT ![t] = parent]

\* DELETE FROM tasks WHERE task_id = t.
Delete(t) ==
    /\ status' = [status EXCEPT ![t] = "absent"]
    /\ plan_todo' = [plan_todo EXCEPT ![t] = << >>]
    /\ plan_parent' = [plan_parent EXCEPT ![t] = NoTask]

\* UPDATE tasks SET status = new WHERE task_id = t: no row, no effect.
SetStatus(t, new) ==
    /\ status' = IF Exists(t) THEN [status EXCEPT ![t] = new] ELSE status
    /\ UNCHANGED <<plan_todo, plan_parent>>

\* UPDATE tasks SET plan_todo = todo WHERE task_id = t.
SetTodo(t, todo) ==
    /\ plan_todo' = IF Exists(t) THEN [plan_todo EXCEPT ![t] = todo] ELSE plan_todo
    /\ UNCHANGED <<status, plan_parent>>

\* Variant: the row has to exist, its status is not looked at.
AllowedUnchecked(t, new) == Exists(t)

\* The check transition_status makes on the status it has just read; a
\* missing row is an error.
Allowed(t, new) == <<status[t], new>> \in VALID_TRANSITIONS

-------------------------------------------------------------------------------
\* Variant: INSERT OR REPLACE, which starts the life of a row again.
CreateTaskReplaces(t) ==
    /\ Insert(t, NoTask)
    /\ UNCHANGED <<anchors, calls, dispatch, now, history>>

(* The runtime inserts a task as pending (a write to logos://system/tasks, *)
(* or a cron job that fires); an id in use makes the INSERT fail.          *)
CreateTask(t) ==
    /\ ~Exists(t)
    /\ Insert(t, NoTask)
    /\ UNCHANGED <<anchors, calls, dispatch, now, history>>

-------------------------------------------------------------------------------
(* A request.  Goto(c, l) moves it to its next statement, or ends it and   *)
(* forgets its parameters.                                                 *)

Goto(c, l) ==
    /\ pc' = [pc EXCEPT ![c] = l]
    /\ req' = IF l \in Returned THEN [req EXCEPT ![c] = NoRequest] ELSE req

At(c, l) == pc[c] = l

Touches(r) == {r.task, r.resume} \ {NoTask}

NewStatus(r) == IF r.plan > 0 THEN "sleep" ELSE r.to

\* Variant: a resume without a current task deletes one all the same.
AfterActivationDiscards(r) ==
    IF r.resume # NoTask THEN "discard"
    ELSE IF r.task = NoTask THEN "ok"
    ELSE IF r.plan > 0 THEN "set_plan"
    ELSE "status_read"

\* What logos_complete turns to once the task has been auto-activated.
AfterActivation(r) ==
    IF r.resume # NoTask THEN (IF r.task # NoTask THEN "discard" ELSE "resume_read")
    ELSE IF r.task = NoTask THEN "ok"
    ELSE IF r.plan > 0 THEN "set_plan"
    ELSE "status_read"

FirstStatement(r) ==
    IF ~r.complete THEN "status_read"
    ELSE IF r.task # NoTask THEN "activate_read"
    ELSE AfterActivation(r)

Call(c, r) ==
    /\ pc[c] \in Returned
    /\ r.plan > 0 => nextStep + r.plan <= MaxStep + 1
    /\ OneCallPerTask =>
         \A d \in Client : pc[d] \in Running => Touches(req[d]) \cap Touches(r) = {}
    /\ FirstStatement(r) \notin Returned
    /\ req' = [req EXCEPT ![c] = r]
    /\ pc' = [pc EXCEPT ![c] = FirstStatement(r)]
    /\ UNCHANGED <<rows, anchors, dispatch, now, history>>

\* Auto-activation ignores the error of its transition.
ActivateRead(c) ==
    /\ At(c, "activate_read")
    /\ Goto(c, IF Allowed(req[c].task, "active") THEN "activate_write"
               ELSE AfterActivation(req[c]))
    /\ UNCHANGED <<rows, anchors, dispatch, now, history>>

ActivateWrite(c) ==
    /\ At(c, "activate_write")
    /\ SetStatus(req[c].task, "active")
    /\ Goto(c, AfterActivation(req[c]))
    /\ UNCHANGED <<anchors, dispatch, now, history>>

\* Resume: the current task goes first, the target is looked at afterwards.
DiscardCurrent(c) ==
    /\ At(c, "discard")
    /\ Delete(req[c].task)
    /\ Goto(c, "resume_read")
    /\ UNCHANGED <<anchors, dispatch, now, history>>

\* Variant: an error of the transition is ignored, as in auto-activation.
ResumeReadLenient(c) ==
    /\ At(c, "resume_read")
    /\ Goto(c, IF Allowed(req[c].resume, "active") THEN "resume_write" ELSE "ok")
    /\ UNCHANGED <<rows, anchors, dispatch, now, history>>

ResumeRead(c) ==
    /\ At(c, "resume_read")
    /\ Goto(c, IF Allowed(req[c].resume, "active") THEN "resume_write" ELSE "err")
    /\ UNCHANGED <<rows, anchors, dispatch, now, history>>

ResumeWrite(c) ==
    /\ At(c, "resume_write")
    /\ SetStatus(req[c].resume, "active")
    /\ Goto(c, "ok")
    /\ UNCHANGED <<anchors, dispatch, now, history>>

PlanSteps(n) == [i \in 1 .. n |-> nextStep + i - 1]

\* Plan mode stores the todo before it knows whether the task may sleep.
SetPlan(c) ==
    /\ At(c, "set_plan")
    /\ SetTodo(req[c].task, PlanSteps(req[c].plan))
    /\ nextStep' = IF Exists(req[c].task) THEN nextStep + req[c].plan ELSE nextStep
    /\ Goto(c, "status_read")
    /\ UNCHANGED <<anchors, dispatch, now, dispatched>>

StatusRead(c) ==
    /\ At(c, "status_read")
    /\ Goto(c, IF Allowed(req[c].task, NewStatus(req[c])) THEN "status_write" ELSE "err")
    /\ UNCHANGED <<rows, anchors, dispatch, now, history>>

StatusWrite(c) ==
    /\ At(c, "status_write")
    /\ SetStatus(req[c].task, NewStatus(req[c]))
    /\ Goto(c, IF req[c].anchor THEN "anchor" ELSE "ok")
    /\ UNCHANGED <<anchors, dispatch, now, history>>

\* The anchor's key is <<task, minute>>: a second one in a minute is refused.
\* The full-text index is synced after the INSERT, and its failure returned.
CreateAnchor(c) ==
    LET key == <<req[c].task, Minute(now)>>
    IN  /\ At(c, "anchor")
        /\ anchors' = anchors \cup {key}
        /\ \/ key \notin anchors /\ Goto(c, IF req[c].plan > 0 THEN "ok" ELSE "regen")
           \/ (key \in anchors \/ Faults) /\ Goto(c, "err")
        /\ UNCHANGED <<rows, dispatch, now, history>>

\* The failure to create the regeneration task is logged, not returned.
CreateRegenTask(c) ==
    LET t == RegenId[now]
    IN  /\ At(c, "regen")
        /\ IF Exists(t) THEN UNCHANGED rows ELSE Insert(t, NoTask)
        /\ Goto(c, "ok")
        /\ UNCHANGED <<anchors, dispatch, now, history>>

\* A statement fails, or the caller goes away and the handler is dropped.
\* Errors of the auto-activation and of the regeneration task are swallowed.
Abort(c) ==
    /\ Faults
    /\ pc[c] \in Running
    /\ \/ Goto(c, "err")
       \/ pc[c] \in {"activate_read", "activate_write"} /\ Goto(c, AfterActivation(req[c]))
       \/ pc[c] = "regen" /\ Goto(c, "ok")
    /\ UNCHANGED <<rows, anchors, dispatch, now, history>>

Statement(c) ==
    \/ ActivateRead(c) \/ ActivateWrite(c)
    \/ DiscardCurrent(c) \/ ResumeRead(c) \/ ResumeWrite(c)
    \/ SetPlan(c) \/ StatusRead(c) \/ StatusWrite(c)
    \/ CreateAnchor(c) \/ CreateRegenTask(c)

-------------------------------------------------------------------------------
(* The plan dispatcher: tick_plans, run by the cron loop, one tick at a    *)
(* time.  A tick that finds no planner is left out.                        *)

PlanPending == { p \in Task : status[p] = "sleep" /\ plan_todo[p] # << >> }

\* Variant: an executor blocks its planner for ever.
HasActiveExecutorEver(p) == \E e \in Task : plan_parent[e] = p

HasActiveExecutor(p) ==
    \E e \in Task : plan_parent[e] = p /\ status[e] = "active"

TickStart ==
    /\ spc = "idle"
    /\ PlanPending # {}
    /\ queue' = PlanPending
    /\ spc' = "next"
    /\ UNCHANGED <<rows, anchors, calls, planner, held, now, history>>

SkipPlanner(p) ==
    /\ spc = "next"
    /\ p \in queue
    /\ HasActiveExecutor(p)
    /\ queue' = queue \ {p}
    /\ UNCHANGED <<rows, anchors, calls, spc, planner, held, now, history>>

\* An error of the check counts as "no executor is active".
VisitPlanner(p) ==
    /\ spc = "next"
    /\ p \in queue
    /\ ~HasActiveExecutor(p) \/ Faults
    /\ queue' = queue \ {p}
    /\ planner' = p
    /\ spc' = "pop_read"
    /\ UNCHANGED <<rows, anchors, calls, held, now, history>>

PopRead ==
    /\ spc = "pop_read"
    /\ held' = plan_todo[planner]
    /\ IF plan_todo[planner] = << >>
       THEN spc' = "next" /\ planner' = NoTask
       ELSE spc' = "pop_write" /\ UNCHANGED planner
    /\ UNCHANGED <<rows, anchors, calls, queue, now, history>>

\* Variants: the todo is written back whole, and not at all.
PopWriteKeepsHead ==
    /\ spc = "pop_write"
    /\ SetTodo(planner, held)
    /\ spc' = "create"
    /\ UNCHANGED <<anchors, calls, queue, planner, held, now, history>>

PopWriteClears ==
    /\ spc = "pop_write"
    /\ SetTodo(planner, << >>)
    /\ spc' = "create"
    /\ UNCHANGED <<anchors, calls, queue, planner, held, now, history>>

PopWrite ==
    /\ spc = "pop_write"
    /\ SetTodo(planner, Tail(held))
    /\ spc' = "create"
    /\ UNCHANGED <<anchors, calls, queue, planner, held, now, history>>

\* An executor id repeats within a second; a failed INSERT ends the tick.
CreateExecutor ==
    LET e == ExecutorId[<<planner, now>>]
    IN  /\ spc = "create"
        /\ held' = << >> /\ planner' = NoTask
        /\ IF Exists(e)
           THEN spc' = "idle" /\ queue' = {} /\ UNCHANGED <<rows, dispatched>>
           ELSE /\ Insert(e, planner)
                /\ dispatched' = Append(dispatched, <<planner, Head(held)>>)
                /\ spc' = "next" /\ UNCHANGED queue
        /\ UNCHANGED <<anchors, calls, now, nextStep>>

TickEnd ==
    /\ spc = "next"
    /\ queue = {}
    /\ spc' = "idle"
    /\ UNCHANGED <<rows, anchors, calls, queue, planner, held, now, history>>

StopDispatch ==
    /\ spc' = "idle"
    /\ queue' = {}
    /\ planner' = NoTask
    /\ held' = << >>

DispatchAborts ==
    /\ Faults
    /\ spc \in {"pop_read", "pop_write", "create"}
    /\ StopDispatch
    /\ UNCHANGED <<rows, anchors, calls, now, history>>

Dispatch ==
    \/ TickStart
    \/ \E p \in Task : SkipPlanner(p) \/ VisitPlanner(p)
    \/ PopRead \/ PopWrite \/ CreateExecutor \/ TickEnd

-------------------------------------------------------------------------------
AdvanceClock ==
    /\ now < MaxNow
    /\ now' = now + 1
    /\ UNCHANGED <<rows, anchors, calls, spc, queue, planner, held, history>>

\* The kernel dies and starts again: init_schema keeps the tables.
Crash ==
    /\ Faults
    /\ pc' = [c \in Client |-> IF pc[c] \in Running THEN "err" ELSE pc[c]]
    /\ req' = [c \in Client |-> NoRequest]
    /\ StopDispatch
    /\ UNCHANGED <<rows, anchors, now, history>>

Next ==
    \/ \E t \in RuntimeTask : CreateTask(t)
    \/ \E c \in Client :
         (\E r \in Request : Call(c, r)) \/ Statement(c) \/ Abort(c)
    \/ Dispatch \/ DispatchAborts
    \/ AdvanceClock
    \/ Crash

Spec == Init /\ [][Next]_vars

(* tokio polls every handler to its end and the cron loop ticks for as long *)
(* as the kernel is up; nobody has to make a call.                         *)
FairSpec ==
    /\ Spec
    /\ \A c \in Client : WF_vars(Statement(c))
    /\ WF_vars(Dispatch)
-------------------------------------------------------------------------------
(* Properties.                                                             *)

\* A call in progress is one a client made, and names the tasks that the
\* statement it is at will use.
CallOK ==
    \A c \in Client : pc[c] \in Running =>
        /\ req[c] \in Request
        /\ pc[c] \in {"discard", "resume_read", "resume_write"} => req[c].resume \in Task
        /\ pc[c] \notin {"resume_read", "resume_write"} => req[c].task \in Task

\* The columns, the program counters and the dispatcher's locals keep the
\* shape the code gives them; the dispatcher holds steps only between
\* pop_plan_head's SELECT and the executor's INSERT.
TypeOK ==
    /\ status \in [Task -> Status]
    /\ plan_todo \in [Task -> Seq(Nat)]
    /\ plan_parent \in [Task -> Task \cup {NoTask}]
    /\ anchors \subseteq (Task \X Nat)
    /\ pc \in [Client -> Returned \cup Running]
    /\ req \in [Client -> Request \cup {NoRequest}]
    /\ CallOK
    /\ spc \in {"idle", "next", "pop_read", "pop_write", "create"}
    /\ queue \subseteq Task
    /\ planner \in Task \cup {NoTask}
    /\ spc \in {"pop_read", "pop_write", "create"} => planner \in Task
    /\ held \in Seq(Nat)
    /\ spc \in {"pop_write", "create"} => held # << >>
    /\ now \in Second
    /\ nextStep \in Nat \ {0}
    /\ dispatched \in Seq(Task \X Nat)

\* pop_plan_head and the executor's INSERT (tasks.rs, cron.rs) hand out the
\* steps of a planner in the order submitted and none of them twice, whatever
\* revisions, failures and restarts come between the statements.
DispatchInOrder ==
    \A i, j \in DOMAIN dispatched :
        i < j /\ dispatched[i][1] = dispatched[j][1]
          => dispatched[i][2] < dispatched[j][2]

\* Why it holds: steps are numbered upwards, so a todo is an increasing
\* sequence of steps later than all that were dispatched for its planner, and
\* what pop_plan_head leaves behind is later than the step it returned.
Increasing(todo) == \A i, j \in DOMAIN todo : i < j => todo[i] < todo[j]

ToCome(todo, p) ==
    \A k \in DOMAIN todo :
        /\ todo[k] < nextStep
        /\ \A i \in DOMAIN dispatched :
             dispatched[i][1] = p => dispatched[i][2] < todo[k]

NoRowNoTodo == \A p \in Task : status[p] = "absent" => plan_todo[p] = << >>

DispatchInv ==
    /\ DispatchInOrder
    /\ NoRowNoTodo
    /\ \A i \in DOMAIN dispatched : dispatched[i][2] < nextStep
    /\ \A p \in Task : Increasing(plan_todo[p]) /\ ToCome(plan_todo[p], p)
    /\ spc \in {"pop_write", "create"} => Increasing(held) /\ ToCome(held, planner)
    /\ spc = "create" =>
         \A k \in DOMAIN plan_todo[planner] : held[1] < plan_todo[planner][k]

\* tasks.rs:210-240 reads the status, checks the transition and writes it in
\* two statements.  As long as callers keep calls that touch one task apart,
\* the check still holds when the write is made: no statement of the
\* dispatcher, the runtime or another call has changed the row meanwhile.
CheckStillHolds ==
    \A c \in Client :
        /\ pc[c] = "activate_write" => Allowed(req[c].task, "active")
        /\ pc[c] = "resume_write" => Allowed(req[c].resume, "active")
        /\ pc[c] = "status_write" => Allowed(req[c].task, NewStatus(req[c]))

\* The proviso: no two calls in progress touch the same task.
CallsApart ==
    \A c, d \in Client :
        c # d /\ {pc[c], pc[d]} \subseteq Running
          => Touches(req[c]) \cap Touches(req[d]) = {}

\* Under the same proviso, the check and the write of transition_status
\* amount to one legal step of the life cycle of TaskLifecycle.
LifecycleSpec == Lifecycle!Spec

\* A call that reports success has left behind what it was asked for
\* (CompleteResult in complete.rs): the target awake, the planner or the task
\* in its new status, the anchor on file.
Fulfilled(r) ==
    IF r.complete /\ r.resume # NoTask THEN status[r.resume] = "active"
    ELSE r.task # NoTask =>
           /\ status[r.task] = NewStatus(r)
           /\ r.anchor => \E m \in 0 .. Minute(MaxNow) : <<r.task, m>> \in anchors

SuccessIsReal ==
    [][\A c \in Client, r \in Request :
         pc[c] \in Running /\ req[c] = r /\ pc'[c] = "ok" => Fulfilled(r)']_vars

StepsIn(todo) == { todo[i] : i \in DOMAIN todo }

\* The steps that wait in the table, are in the dispatcher's hands or have
\* been given an executor.
StepsKept ==
    (UNION { StepsIn(plan_todo[p]) : p \in Task }) \cup StepsIn(held)
      \cup { dispatched[i][2] : i \in DOMAIN dispatched }

\* As long as no statement fails and no call revises or discards a plan, a step
\* that was submitted is lost in one way only: tick_plans has popped it and
\* the executor id of this second is taken (cron.rs:104-118).
StepsConserved ==
    [][\/ StepsKept \subseteq StepsKept'
       \/ spc = "create" /\ Exists(ExecutorId[<<planner, now>>])]_vars

\* README.md:253, of the dispatcher: "One executor per planner at a time."
OneExecutorPerPlanner ==
    \A e, f \in Task :
        /\ plan_parent[e] = plan_parent[f] /\ plan_parent[e] # NoTask
        /\ {status[e], status[f]} \subseteq {"pending", "active"}
        => e = f

\* README, "Plan mode": a sleeping planner gets its steps dispatched.  A
\* sleeping planner's todo does not stay as it is.
PlanMoves ==
    \A p \in Task : \A n \in 1 .. MaxStep :
        (p \in PlanPending /\ Len(plan_todo[p]) = n)
          ~> (p \notin PlanPending \/ Len(plan_todo[p]) # n)
===============================================================================
