------------------------------- MODULE Scheduler -------------------------------
(***************************************************************************)
(* The cron scheduler of the kernel: a map of jobs and a loop that ticks   *)
(* every PERIOD seconds.  A tick takes the time, collects the jobs whose   *)
(* next due is less than a period away and creates a task for each; then   *)
(* it visits the plans, which is TaskSystem's part.                        *)
(*                                                                         *)
(* Nothing remembers what has been fired: that a due is seen by one tick   *)
(* and by no other rests on the distance of the ticks.  The interval of    *)
(* tokio catches up, so that a tick that took long is followed at once by  *)
(* the ones that were missed; and the interval of a new process begins     *)
(* when it starts.                                                         *)
(*                                                                         *)
(* Time is in whole seconds.  A due is at the beginning of its second and  *)
(* a tick somewhere inside of one.                                         *)
(***************************************************************************)
EXTENDS Integers, FiniteSets

CONSTANTS
    Job,        \* names of the jobs that are registered at boot
    Disabled,   \* those registered with enabled = false
    Due,        \* Due[j]: the seconds that the cron expression of j names
    PERIOD,     \* seconds between two ticks (60)
    Removable,  \* jobs that may be removed
    MaxFaults,  \* bound on failing statements and restarts
    MaxTime     \* bound on the clock

ASSUME ConstantsOK ==
    /\ PERIOD \in Nat \ {0} /\ MaxTime \in Nat /\ MaxFaults \in Nat
    /\ Due \in [Job -> SUBSET Nat]
    /\ Disabled \subseteq Job /\ Removable \subseteq Job

\* No job is due twice in a period: those of the kernel are due once an hour
\* or once a day.
ASSUME DuesApart ==
    \A j \in Job : \A d, e \in Due[j] : d < e => e - d >= PERIOD

VARIABLES
    clock,      \* the second it is
    jobs,       \* the names in the map
    deadline,   \* when the interval is ready again
    pc,         \* the loop: "down", "waiting", "sampled", "firing"
    now,        \* the second in which the tick took the time
    job_names,  \* collected and not fired yet; with the due (history)
    fired,      \* tasks created, with the due they were meant for (history)
    lost,       \* history: dues that were collected and got no task
    faults,     \* history: their number so far
    removed,    \* history: jobs that were ever removed
    began,      \* history: the time of the first tick, -1 before
    last,       \* history: the time of the last tick that collected
    early,      \* history: some tick was less than a period after another
    late        \* history: some tick was more than a period after another,
                \* or collected in a later second than the one it took

loop == <<deadline, pc, now, job_names>>
history == <<removed, began, last, early, late>>
vars == <<clock, jobs, loop, fired, lost, faults, history>>

Init ==
    /\ clock = 0 /\ jobs = {} /\ deadline = 0
    /\ pc = "down" /\ now = 0 /\ job_names = {}
    /\ fired = {} /\ lost = {} /\ faults = 0
    /\ removed = {} /\ began = -1 /\ last = 0 /\ early = FALSE /\ late = FALSE

-------------------------------------------------------------------------------
\* Schedule::upcoming: the first due after the second t, if there is one.
Upcoming(j, t) ==
    { d \in Due[j] : t < d /\ \A e \in Due[j] : t < e => d <= e }

\* Variant: a period counts as near, too.
IsNearOrNext(d) == d <= now + PERIOD + 1

\* (next - now).num_seconds().abs() < 60, for a tick inside of second `now`
IsNear(d) == d <= now + PERIOD

\* The jobs that fire, for the schedules as they are seen from second t.
Matching(t) ==
    { x \in (jobs \ Disabled) \X UNION { Due[j] : j \in Job } :
        x[2] \in Upcoming(x[1], t) /\ IsNear(x[2]) }

TimePasses ==
    /\ clock < MaxTime
    /\ clock' = clock + 1
    /\ UNCHANGED <<jobs, loop, fired, lost, faults, history>>

\* register_consolidator_jobs, then start: an interval is ready at once.
Boot ==
    /\ pc = "down"
    /\ jobs' = Job
    /\ pc' = "waiting" /\ deadline' = clock
    /\ UNCHANGED <<clock, now, job_names, fired, lost, faults, history>>

Remove(j) ==
    /\ pc # "down" /\ j \in jobs \cap Removable
    /\ jobs' = jobs \ {j} /\ removed' = removed \cup {j}
    /\ UNCHANGED <<clock, loop, fired, lost, faults, began, last, early, late>>

\* interval.tick().await: deadlines are a period apart however late they are met.
Wake ==
    /\ pc = "waiting" /\ deadline <= clock
    /\ deadline' = deadline + PERIOD
    /\ now' = clock /\ pc' = "sampled"
    /\ UNCHANGED <<clock, jobs, job_names, fired, lost, faults, history>>

\* Under the lock of the map; `upcoming` looks at the clock for itself.
Collect ==
    /\ pc = "sampled"
    /\ job_names' = Matching(clock)
    /\ pc' = "firing"
    /\ began' = IF began = -1 THEN now ELSE began
    /\ early' = (early \/ (began # -1 /\ now - last < PERIOD))
    /\ late' = (late \/ (began # -1 /\ now - last > PERIOD) \/ clock # now)
    /\ last' = now
    /\ UNCHANGED <<clock, jobs, deadline, now, fired, lost, faults, removed>>

\* fire: the task is named after the job and the second.
Task(x) == [job |-> x[1], due |-> x[2], at |-> clock]
IdTaken(x) == \E f \in fired : f.job = x[1] /\ f.at = clock

FireCreates(x) ==
    /\ x[1] \in jobs /\ ~IdTaken(x)
    /\ fired' = fired \cup {Task(x)}
    /\ UNCHANGED <<lost, faults>>

\* A job that is gone, a task that exists or a failing INSERT: it is logged.
FireFails(x) ==
    /\ \/ (x[1] \notin jobs \/ IdTaken(x)) /\ UNCHANGED faults
       \/ faults < MaxFaults /\ faults' = faults + 1
    /\ lost' = lost \cup {x}
    /\ UNCHANGED fired

\* Variant: the tick gives up at the first job that cannot be fired.
FireOrStop(x) ==
    /\ pc = "firing" /\ x \in job_names
    /\ \/ FireCreates(x) /\ job_names' = job_names \ {x}
       \/ FireFails(x) /\ job_names' = {}
    /\ UNCHANGED <<clock, jobs, deadline, pc, now, history>>

Fire(x) ==
    /\ pc = "firing" /\ x \in job_names
    /\ job_names' = job_names \ {x}
    /\ (FireCreates(x) \/ FireFails(x))
    /\ UNCHANGED <<clock, jobs, deadline, pc, now, history>>

\* After tick_plans the loop waits for the interval.
TickEnd ==
    /\ pc = "firing" /\ job_names = {}
    /\ pc' = "waiting"
    /\ UNCHANGED <<clock, jobs, deadline, now, job_names, fired, lost, faults, history>>

\* The kernel stops; the tasks stay.
Crash ==
    /\ pc # "down" /\ faults < MaxFaults
    /\ faults' = faults + 1
    /\ pc' = "down" /\ jobs' = {} /\ job_names' = {}
    /\ lost' = lost \cup job_names
    /\ UNCHANGED <<clock, deadline, now, fired, history>>

Next ==
    \/ TimePasses \/ Boot \/ Wake \/ Collect \/ TickEnd \/ Crash
    \/ \E j \in Job : Remove(j)
    \/ \E x \in job_names : Fire(x)

Spec == Init /\ [][Next]_vars

-------------------------------------------------------------------------------
(* Properties. *)

Dues == { x \in Job \X UNION { Due[j] : j \in Job } : x[2] \in Due[x[1]] }

(* Types; only a tick that fires has collected jobs, they are jobs of the  *)
(* map that are not disabled unless they were removed meanwhile, and no    *)
(* tick is ahead of the clock.                                             *)
TypeOK ==
    /\ clock \in Nat /\ jobs \subseteq Job /\ removed \subseteq Job
    /\ deadline \in Nat /\ now \in Nat /\ now <= clock
    /\ pc \in {"down", "waiting", "sampled", "firing"}
    /\ job_names \subseteq Dues /\ lost \subseteq Dues
    /\ job_names # {} => pc = "firing"
    /\ \A f \in fired : /\ DOMAIN f = {"job", "due", "at"}
                        /\ <<f.job, f.due>> \in Dues /\ f.at \in Nat
    /\ began \in Nat \cup {-1} /\ last \in Nat /\ last <= now
    /\ early \in BOOLEAN /\ late \in BOOLEAN /\ faults \in Nat

(* As long as no tick has followed another in less than a period, no due   *)
(* of a job has got two tasks: nothing but the distance of the ticks keeps *)
(* cron.rs:78 from firing a job again.                                     *)
AtMostOnce ==
    ~early => \A f, g \in fired : f.job = g.job /\ f.due = g.due => f = g

Handled(x) ==
    \/ x \in job_names \/ x \in lost
    \/ \E f \in fired : f.job = x[1] /\ f.due = x[2]

(* As long as no tick has followed another by more than a period, or has   *)
(* looked at the schedules in a later second than the one it took, every   *)
(* due since the first tick that is less than a period after the last one  *)
(* has got its task, or firing it has failed, or it is about to: restarts  *)
(* included, which begin a new interval.                                   *)
NoneMissed ==
    ~late /\ began # -1 =>
        \A x \in Dues : /\ x[1] \notin Disabled \cup removed
                        /\ began < x[2] /\ x[2] <= last + PERIOD
                        => Handled(x)
===============================================================================
