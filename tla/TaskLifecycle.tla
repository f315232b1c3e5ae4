---------------------------- MODULE TaskLifecycle ----------------------------
(***************************************************************************)
(* What the task table promises about one task, whatever the number of     *)
(* handlers at work on it: the life cycle of RFC 002 section 4.3, which    *)
(* VALID_TRANSITIONS in logos-system/src/tasks.rs writes down as           *)
(*                                                                         *)
(*      pending -> active -> finished,  active <-> sleep                   *)
(*                                                                         *)
(* and in which a row appears as pending and leaves only by being          *)
(* discarded (the resume path of logos_complete).  No handler is visible   *)
(* here: a task changes status in one step.                                *)
(***************************************************************************)
CONSTANT Task

VARIABLE status     \* status[t] of the row, "absent" when there is none

RowStatus == {"pending", "active", "sleep", "finished"}
Status == RowStatus \cup {"absent"}

VALID_TRANSITIONS ==
    { <<"pending", "active">>, <<"active", "finished">>,
      <<"active", "sleep">>, <<"sleep", "active">> }

TypeOK == status \in [Task -> Status]

Init == status = [t \in Task |-> "absent"]

Create(t) ==
    /\ status[t] = "absent"
    /\ status' = [status EXCEPT ![t] = "pending"]

Move(t, new) ==
    /\ <<status[t], new>> \in VALID_TRANSITIONS
    /\ status' = [status EXCEPT ![t] = new]

Discard(t) ==
    /\ status[t] # "absent"
    /\ status' = [status EXCEPT ![t] = "absent"]

Next ==
    \E t \in Task :
        \/ Create(t)
        \/ \E new \in RowStatus : Move(t, new)
        \/ Discard(t)

Spec == Init /\ [][Next]_status
==============================================================================
