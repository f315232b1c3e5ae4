------------------------------ MODULE MCProcCalls ------------------------------
(***************************************************************************)
(* Small instances of ProcCalls: a builtin and an external tool.           *)
(***************************************************************************)
EXTENDS ProcCalls, TLC

CONSTANTS b, x, k1, p, q

Submit(tool, params) == [tool |-> tool, id |-> k1, params |-> params]
Call(tool, params) == [tool |-> tool, id |-> None, params |-> params]

MCRequest == { Submit(b, p), Submit(b, q), Submit(x, p), Call(x, q) }

MCShipped == {q, None}

ClientSymmetry == Permutations(Client)
===============================================================================
