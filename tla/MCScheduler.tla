------------------------------ MODULE MCScheduler ------------------------------
(***************************************************************************)
(* A small instance of Scheduler: a period of three seconds, a job that is *)
(* due twice, one that is due once and may be removed, and a disabled one. *)
(***************************************************************************)
EXTENDS Scheduler

MCJob == {"hourly", "daily", "off"}
MCDue == [j \in MCJob |->
             CASE j = "hourly" -> {2, 5} [] j = "daily" -> {5} [] j = "off" -> {4}]
===============================================================================
