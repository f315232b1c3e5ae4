---------------------------- MODULE SchedulerProofs ----------------------------
(***************************************************************************)
(* Theorems about Scheduler, for any jobs and schedules in which no job is *)
(* due twice in a period, any period, delays, failures and restarts.       *)
(***************************************************************************)
EXTENDS Scheduler, TLAPS

-------------------------------------------------------------------------------
(* Types *)

LEMMA MatchingType ==
    ASSUME TypeOK
    PROVE  Matching(clock) \subseteq Dues
<1> SUFFICES ASSUME NEW x \in Matching(clock) PROVE x \in Dues
  OBVIOUS
<1>1. x \in (jobs \ Disabled) \X UNION { Due[j] : j \in Job } /\ x[2] \in Upcoming(x[1], clock)
  BY DEF Matching
<1>2. jobs \subseteq Job
  BY DEF TypeOK
<1>3. x[2] \in Due[x[1]]
  BY <1>1 DEF Upcoming
<1>4. x \in Job \X UNION { Due[j] : j \in Job }
  BY <1>1, <1>2
<1> QED
  BY <1>3, <1>4 DEF Dues

\* Every variable keeps its type, and only a tick that fires has collected jobs.
THEOREM TypeCorrect == Spec => []TypeOK
<1>1. Init => TypeOK
  <2> SUFFICES ASSUME Init PROVE TypeOK
    OBVIOUS
  <2>1. began \in Nat \cup {-1} /\ last \in Nat /\ last <= now /\ now <= clock
    BY DEF Init
  <2>2. \A f \in fired : FALSE
    BY DEF Init
  <2> QED
    BY <2>1, <2>2 DEF Init, TypeOK
<1>2. TypeOK /\ [Next]_vars => TypeOK'
  <2> SUFFICES ASSUME TypeOK, [Next]_vars PROVE TypeOK'
    OBVIOUS
  <2> USE ConstantsOK DEF TypeOK, history, loop
  <2>1. CASE TimePasses
    BY <2>1 DEF TimePasses, Dues
  <2>2. CASE Boot
    BY <2>2 DEF Boot, Dues
  <2>3. CASE Wake
    BY <2>3 DEF Wake, Dues
  <2>4. CASE Collect
    <3>1. job_names' \subseteq Dues
      BY <2>4, MatchingType DEF Collect
    <3>2. Dues' = Dues
      BY DEF Dues
    <3> QED
      BY <2>4, <3>1, <3>2 DEF Collect
  <2>5. CASE TickEnd
    BY <2>5 DEF TickEnd, Dues
  <2>6. CASE Crash
    BY <2>6 DEF Crash, Dues
  <2>7. ASSUME NEW j \in Job, Remove(j) PROVE TypeOK'
    BY <2>7 DEF Remove, Dues
  <2>8. ASSUME NEW x \in job_names, Fire(x) PROVE TypeOK'
    <3>1. x \in Dues /\ x = <<x[1], x[2]>> /\ clock \in Nat
      BY DEF Dues
    <3>2. fired' \subseteq fired \cup {Task(x)} /\ lost' \subseteq lost \cup {x}
      BY <2>8 DEF Fire, FireCreates, FireFails
    <3>3. faults' \in Nat
      BY <2>8 DEF Fire, FireCreates, FireFails
    <3>4. DOMAIN Task(x) = {"job", "due", "at"} /\ Task(x).job = x[1]
          /\ Task(x).due = x[2] /\ Task(x).at = clock
      BY DEF Task
    <3>5. Dues' = Dues
      BY DEF Dues
    <3> QED
      BY <2>8, <3>1, <3>2, <3>3, <3>4, <3>5 DEF Fire
  <2>9. CASE UNCHANGED vars
    BY <2>9 DEF vars, Dues
  <2> QED
    BY <2>1, <2>2, <2>3, <2>4, <2>5, <2>6, <2>7, <2>8, <2>9 DEF Next
<1> QED
  BY <1>1, <1>2, PTL DEF Spec

-------------------------------------------------------------------------------
(* No due gets two tasks while the ticks are a period apart or more: what  *)
(* was collected is within a period of the last tick, hence not after the  *)
(* next one, which only collects what is.                                  *)

Horizon == last + PERIOD

Seen ==
    /\ began = -1 => fired = {} /\ job_names = {}
    /\ \A f \in fired : f.due <= Horizon /\ <<f.job, f.due>> \notin job_names
    /\ \A x \in job_names : x[2] <= Horizon

OnceInv == ~early => Seen /\ AtMostOnce

LEMMA CollectedAreNear ==
    ASSUME TypeOK, NEW x \in Matching(clock)
    PROVE  x[2] > clock /\ x[2] <= now + PERIOD
BY DEF Matching, Upcoming, IsNear

LEMMA CollectOnce ==
    ASSUME TypeOK, OnceInv, Collect
    PROVE  OnceInv'
<1> SUFFICES ASSUME ~early' PROVE Seen' /\ AtMostOnce'
  BY DEF OnceInv
<1> USE ConstantsOK
<1>0. now \in Nat /\ last \in Nat /\ early \in BOOLEAN
  BY DEF TypeOK
<1>1. ~early /\ ~(began # -1 /\ now - last < PERIOD)
  BY Zenon DEF Collect
<1>2. Seen /\ AtMostOnce
  BY <1>1 DEF OnceInv
<1>3. \A f \in fired : f.due \in Nat
  <2> SUFFICES ASSUME NEW f \in fired PROVE f.due \in Nat
    OBVIOUS
  <2>1. <<f.job, f.due>> \in Dues
    BY DEF TypeOK
  <2>2. f.job \in Job /\ f.due \in Due[f.job]
    BY <2>1 DEF Dues
  <2> QED
    BY <2>2
<1>4. last' = now /\ fired' = fired /\ job_names' = Matching(clock) /\ began' # -1
  BY DEF Collect, TypeOK
<1>5. \A f \in fired : f.due <= now /\ f.due <= Horizon'
  <2> SUFFICES ASSUME NEW f \in fired PROVE f.due <= now /\ f.due <= now + PERIOD
    BY <1>4 DEF Horizon
  <2>1. f.due \in Nat /\ f.due <= last + PERIOD /\ began # -1
    BY <1>2, <1>3 DEF Seen, Horizon
  <2>2. last + PERIOD <= now
    BY <1>0, <1>1, <2>1
  <2> QED
    BY <1>0, <2>1, <2>2
<1>6. \A x \in job_names' : x[2] > now /\ x[2] <= Horizon'
  <2> SUFFICES ASSUME NEW x \in Matching(clock) PROVE x[2] > now /\ x[2] <= now + PERIOD
    BY <1>4 DEF Horizon
  <2>1. x[2] > clock /\ x[2] <= now + PERIOD
    BY CollectedAreNear
  <2>2. x[2] \in Nat
    BY MatchingType DEF Dues
  <2> QED
    BY <2>1, <2>2 DEF TypeOK
<1>7. ASSUME NEW f \in fired PROVE <<f.job, f.due>> \notin job_names'
  <2>1. <<f.job, f.due>>[2] = f.due /\ f.due <= now
    BY <1>5
  <2> QED
    BY <2>1, <1>3, <1>6, <1>0
<1>8. Seen'
  BY <1>4, <1>5, <1>6, <1>7 DEF Seen
<1> QED
  BY <1>1, <1>2, <1>4, <1>8 DEF AtMostOnce

LEMMA FireOnce ==
    ASSUME TypeOK, OnceInv, NEW x \in job_names, Fire(x)
    PROVE  OnceInv'
<1> SUFFICES ASSUME ~early PROVE Seen' /\ AtMostOnce'
  BY DEF OnceInv, Fire, history
<1>1. Seen /\ AtMostOnce
  BY DEF OnceInv
<1>2. fired' = fired \/ fired' = fired \cup {Task(x)}
  BY DEF Fire, FireCreates, FireFails
<1>3. job_names' = job_names \ {x} /\ UNCHANGED <<began, last>>
  BY DEF Fire, history
<1>4. Task(x).job = x[1] /\ Task(x).due = x[2] /\ x = <<x[1], x[2]>>
  BY DEF Task, TypeOK, Dues
<1>5. \A f \in fired : ~(f.job = x[1] /\ f.due = x[2])
  BY <1>1, <1>4 DEF Seen
<1>6. Seen'
  BY <1>1, <1>2, <1>3, <1>4 DEF Seen, Horizon
<1>7. AtMostOnce'
  BY <1>1, <1>2, <1>4, <1>5 DEF AtMostOnce, Seen
<1> QED
  BY <1>6, <1>7

\* As long as no tick comes too early, no due of a job gets two tasks.
THEOREM FiredAtMostOnce == Spec => []AtMostOnce
<1>1. Init => OnceInv
  BY DEF Init, OnceInv, Seen, AtMostOnce
<1>2. TypeOK /\ OnceInv /\ [Next]_vars => OnceInv'
  <2> SUFFICES ASSUME TypeOK, OnceInv, [Next]_vars PROVE OnceInv'
    OBVIOUS
  <2> USE DEF OnceInv, Seen, AtMostOnce, Horizon, history, loop
  <2>1. CASE TimePasses
    BY <2>1 DEF TimePasses
  <2>2. CASE Boot
    BY <2>2 DEF Boot
  <2>3. CASE Wake
    BY <2>3 DEF Wake
  <2>4. CASE Collect
    BY <2>4, CollectOnce
  <2>5. CASE TickEnd
    BY <2>5 DEF TickEnd
  <2>6. CASE Crash
    BY <2>6 DEF Crash
  <2>7. ASSUME NEW j \in Job, Remove(j) PROVE OnceInv'
    BY <2>7 DEF Remove
  <2>8. ASSUME NEW x \in job_names, Fire(x) PROVE OnceInv'
    BY <2>8, FireOnce
  <2>9. CASE UNCHANGED vars
    BY <2>9 DEF vars
  <2> QED
    BY <2>1, <2>2, <2>3, <2>4, <2>5, <2>6, <2>7, <2>8, <2>9 DEF Next
<1>3. OnceInv => AtMostOnce
  BY DEF OnceInv, AtMostOnce
<1> QED
  BY <1>1, <1>2, <1>3, TypeCorrect, PTL DEF Spec

-------------------------------------------------------------------------------
(* No due is missed while the ticks are a period apart or less: the next   *)
(* tick begins where the last one could not see any further.               *)

JobsRegistered == pc # "down" => Job \ removed \subseteq jobs

\* The dues that the ticks so far were to fire.
Owed(x) == /\ x[1] \notin Disabled \cup removed
           /\ began < x[2] /\ x[2] <= Horizon

LEMMA CollectMissesNone ==
    ASSUME TypeOK, JobsRegistered, NoneMissed, Collect
    PROVE  NoneMissed'
<1> USE ConstantsOK, DuesApart
<1> SUFFICES ASSUME ~late', NEW x \in Dues, Owed(x)' PROVE Handled(x)'
  BY DEF NoneMissed, Owed, Horizon, Dues
<1>0. now \in Nat /\ last \in Nat /\ clock \in Nat /\ late \in BOOLEAN
  BY DEF TypeOK
<1>1. ~late /\ clock = now /\ ~(began # -1 /\ now - last > PERIOD)
  BY Zenon DEF Collect
<1>2. /\ job_names = {} /\ job_names' = Matching(clock)
      /\ UNCHANGED <<lost, fired, removed>> /\ last' = now
      /\ began' = (IF began = -1 THEN now ELSE began)
  BY DEF Collect, TypeOK
<1>3. x[1] \in Job /\ x[2] \in Due[x[1]] /\ x = <<x[1], x[2]>> /\ x[2] \in Nat
  BY DEF Dues
<1>4. /\ x[1] \notin Disabled \cup removed
      /\ began' < x[2] /\ x[2] <= now + PERIOD
  BY <1>2 DEF Owed, Horizon
<1>5. CASE began # -1 /\ x[2] <= last + PERIOD
  <2>1. Handled(x)
    BY <1>1, <1>2, <1>4, <1>5 DEF NoneMissed
  <2> QED
    BY <2>1, <1>2 DEF Handled
<1>6. CASE ~(began # -1 /\ x[2] <= last + PERIOD)
  <2>1. x[2] > now
    BY <1>0, <1>1, <1>2, <1>3, <1>4, <1>6
  <2>2. ASSUME NEW e \in Due[x[1]], clock < e PROVE x[2] <= e
    <3>1. e \in Nat /\ (e < x[2] => x[2] - e >= PERIOD)
      BY <1>3
    <3> QED
      BY <3>1, <2>2, <1>0, <1>1, <1>3, <1>4
  <2>3. x[2] \in Upcoming(x[1], clock)
    BY <2>1, <2>2, <1>1, <1>3 DEF Upcoming
  <2>4. x[1] \in jobs \ Disabled
    BY <1>3, <1>4 DEF JobsRegistered, Collect
  <2>5. x \in Matching(clock)
    BY <2>3, <2>4, <1>3, <1>4 DEF Matching, IsNear
  <2> QED
    BY <2>5, <1>2 DEF Handled
<1> QED
  BY <1>5, <1>6

\* A step that collects nothing keeps what was handled.
LEMMA OthersMissNone ==
    ASSUME TypeOK, NoneMissed, UNCHANGED <<began, last, late>>,
           removed \subseteq removed', \A x \in Dues : Handled(x) => Handled(x)'
    PROVE  NoneMissed'
BY DEF NoneMissed, Dues

LEMMA KeepsHandled ==
    ASSUME job_names' \cup lost' = job_names \cup lost, UNCHANGED fired
    PROVE  \A x \in Dues : Handled(x) => Handled(x)'
BY DEF Handled

LEMMA FireHandles ==
    ASSUME NEW y \in job_names, Fire(y)
    PROVE  \A x \in Dues : Handled(x) => Handled(x)'
<1> SUFFICES ASSUME NEW x \in Dues, Handled(x) PROVE Handled(x)'
  OBVIOUS
<1>1. CASE x = y
  <2>1. CASE FireCreates(y)
    <3>1. Task(y) \in fired' /\ Task(y).job = x[1] /\ Task(y).due = x[2]
      BY <1>1, <2>1 DEF FireCreates, Task
    <3> QED
      BY <3>1 DEF Handled
  <2>2. CASE FireFails(y)
    BY <1>1, <2>2 DEF FireFails, Handled
  <2> QED
    BY <2>1, <2>2 DEF Fire
<1>2. CASE x # y
  BY <1>2 DEF Fire, FireCreates, FireFails, Handled
<1> QED
  BY <1>1, <1>2

\* As long as no tick comes too late, every due gets its task or is known to
\* have failed.
THEOREM NoDueIsMissed == Spec => []NoneMissed
<1> DEFINE Inv == JobsRegistered /\ NoneMissed
<1>1. Init => Inv
  BY DEF Init, JobsRegistered, NoneMissed
<1>2. TypeOK /\ Inv /\ [Next]_vars => Inv'
  <2> SUFFICES ASSUME TypeOK, JobsRegistered, NoneMissed, [Next]_vars PROVE Inv'
    OBVIOUS
  <2> USE DEF history, loop
  <2>1. JobsRegistered'
    <3> USE DEF JobsRegistered
    <3>1. CASE TimePasses BY <3>1 DEF TimePasses
    <3>2. CASE Boot BY <3>2 DEF Boot
    <3>3. CASE Wake BY <3>3 DEF Wake
    <3>4. CASE Collect BY <3>4 DEF Collect
    <3>5. CASE TickEnd BY <3>5 DEF TickEnd
    <3>6. CASE Crash BY <3>6 DEF Crash
    <3>7. ASSUME NEW j \in Job, Remove(j) PROVE JobsRegistered'
      BY <3>7 DEF Remove
    <3>8. ASSUME NEW x \in job_names, Fire(x) PROVE JobsRegistered'
      BY <3>8 DEF Fire
    <3>9. CASE UNCHANGED vars BY <3>9 DEF vars
    <3> QED
      BY <3>1, <3>2, <3>3, <3>4, <3>5, <3>6, <3>7, <3>8, <3>9 DEF Next
  <2>2. NoneMissed'
    <3>1. CASE Collect
      BY <3>1, CollectMissesNone
    <3>2. CASE TimePasses \/ Boot \/ Wake \/ TickEnd \/ UNCHANGED vars
      <4>1. UNCHANGED <<job_names, lost, fired, removed, began, last, late>>
        BY <3>2 DEF TimePasses, Boot, Wake, TickEnd, vars
      <4> QED
        BY <4>1, KeepsHandled, OthersMissNone
    <3>3. CASE Crash
      <4>1. /\ job_names' \cup lost' = job_names \cup lost
            /\ UNCHANGED <<fired, removed, began, last, late>>
        BY <3>3 DEF Crash
      <4> QED
        BY <4>1, KeepsHandled, OthersMissNone
    <3>4. ASSUME NEW j \in Job, Remove(j) PROVE NoneMissed'
      <4>1. /\ UNCHANGED <<job_names, lost, fired, began, last, late>>
            /\ removed \subseteq removed'
        BY <3>4 DEF Remove
      <4> QED
        BY <4>1, KeepsHandled, OthersMissNone
    <3>5. ASSUME NEW x \in job_names, Fire(x) PROVE NoneMissed'
      <4>1. UNCHANGED <<removed, began, last, late>>
        BY <3>5 DEF Fire
      <4> QED
        BY <4>1, <3>5, FireHandles, OthersMissNone
    <3> QED
      BY <3>1, <3>2, <3>3, <3>4, <3>5 DEF Next
  <2> QED
    BY <2>1, <2>2
<1> QED
  BY <1>1, <1>2, TypeCorrect, PTL DEF Spec
===============================================================================
