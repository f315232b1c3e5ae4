------------------------------- MODULE MCGateway -------------------------------
(***************************************************************************)
(* Small instances of Gateway: two tasks of one agent.                     *)
(***************************************************************************)
EXTENDS Gateway, TLC

CONSTANTS t1, t2, k1, k2, a1

Owner == (t1 :> k1) @@ (t2 :> k2)
Shared == (k1 :> a1) @@ (k2 :> a1)
===============================================================================
