----------------------------- MODULE MCTaskSystem -----------------------------
(***************************************************************************)
(* Small instances of TaskSystem: one task that plans, one that does not,  *)
(* their executors and regeneration tasks, one per second of the clock.    *)
(***************************************************************************)
EXTENDS TaskSystem, TLC

CONSTANTS p1, t1, regen

MCRuntimeTask == {p1, t1}
MCTask == MCRuntimeTask \cup ({p1, regen} \X Second)

\* Only p1 submits plans; the ids of the other rows are never used.
MCExecutorId == [x \in MCTask \X Second |-> IF x[1] = p1 THEN x ELSE x[1]]
MCRegenId == [s \in Second |-> <<regen, s>>]

Complete(task, resume, plan, to, anchor) ==
    [complete |-> TRUE, task |-> task, resume |-> resume, plan |-> plan,
     to |-> to, anchor |-> anchor]

Finish(t) == Complete(t, NoTask, 0, "finished", FALSE)
FinishAnchored(t) == Complete(t, NoTask, 0, "finished", TRUE)
Sleep(t) == Complete(t, NoTask, 0, "sleep", FALSE)
Plan(t, n) == Complete(t, NoTask, n, "finished", FALSE)
PlanAnchored(t, n) == Complete(t, NoTask, n, "finished", TRUE)
Resume(t, target) == Complete(t, target, 0, "finished", FALSE)
Transition(t, to) ==
    [complete |-> FALSE, task |-> t, resume |-> NoTask, plan |-> 0,
     to |-> to, anchor |-> FALSE]

Executors == {p1} \X Second

\* Every way a call can end, with and without anchors.
CompletionRequests ==
    { Plan(p1, 2), PlanAnchored(p1, 1), Finish(p1), FinishAnchored(t1),
      Sleep(t1), Resume(t1, p1), Resume(NoTask, t1), Transition(t1, "active") }

\* A planner that plans once and is woken; its executors finish.
DrainRequests ==
    { Plan(p1, MaxStep), Sleep(p1), Resume(NoTask, p1) }
      \cup { Finish(e) : e \in Executors }

ClientSymmetry == Permutations(Client)
===============================================================================
