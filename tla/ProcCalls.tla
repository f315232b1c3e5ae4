------------------------------- MODULE ProcCalls -------------------------------
(***************************************************************************)
(* Calls of proc tools: logos_call, and the slots of                       *)
(* logos://proc/{tool}/{call_id}, where params are submitted as input and  *)
(* the result is read as output.                                           *)
(*                                                                         *)
(* A builtin tool runs in the kernel.  An external tool has one input file *)
(* for all its calls: a call writes its params there and starts a command  *)
(* that reads /workspace/__system__/proc/{tool}/input.json.  Opening the   *)
(* file for writing truncates it; the params come with a second system     *)
(* call.                                                                   *)
(*                                                                         *)
(* The kernel writes below the root of the sandboxes on the host.  That is *)
(* the file of the command only with the host executor and /workspace as   *)
(* the root (executor = "host"): a container has a file system of its own, *)
(* where input.json is there if the repository of the tool ships one.      *)
(***************************************************************************)
EXTENDS Integers, FiniteSets

CONSTANTS
    Client,         \* concurrent callers
    None,
    Builtin, External,      \* names of tools
    CallId,
    Params,
    Blank, Mixed,   \* contents of an input file: truncated; parts of two params
    Request,        \* what callers ask for
    Faults,         \* may the file system and containerd fail, callers go away?
    Executor,       \* the executors the kernel may be started with
    Shipped,        \* contents of the input.json that a tool ships; None: it ships none
    Life,           \* 300 seconds, in ticks
    MaxTime, MaxCalls, MaxRestarts

Tool == Builtin \cup External
Key == Tool \X CallId
Content == Params \cup {Blank, Mixed}
Time == 0..MaxTime

\* What a call returns: the output for some input, all of it or a part; or an error.
Output == [of : Content, whole : BOOLEAN]
Error == [error : {TRUE}]

\* A slot also has the number of its call, and whether its input file was disturbed.
Slot == [input : Params, output : Output \cup {None}, created_at : Time,
         nr : 1..MaxCalls, disturbed : BOOLEAN]

\* A submission has a call_id; logos_call has none.
AllRequests == [tool : Tool, id : CallId \cup {None}, params : Params]

ASSUME ConstantsOK ==
    /\ Builtin \cap External = {} /\ Blank \notin Params /\ Mixed \notin Params /\ Blank # Mixed
    /\ None \notin CallId \cup Content \cup AllRequests \cup Output \cup Error \cup Slot
    /\ Request \subseteq AllRequests
    /\ Faults \in BOOLEAN
    /\ Executor \subseteq {"host", "containerd"} /\ Shipped \subseteq Params \cup {None}
    /\ Life \in Nat \ {0} /\ MaxTime \in Nat /\ MaxCalls \in Nat /\ MaxRestarts \in Nat

VARIABLES
    executor,
    call_slots,     \* per key: input, output or error, created_at, number of the call; or None
    input_json,     \* the input file of each external tool
    pc, req,        \* where each call is, and what it was asked
    got,            \* what its command has read from the input file
    cut,            \* has its reader given up on the command?
    result,         \* what the tool returned
    now,
    calls,          \* history: the number of calls so far
    restarts,       \* history: the number of restarts so far
    nr,             \* history: the number of each call
    disturbed,      \* history: calls whose input file was touched before it was read
    delivered,      \* history: how often the result of each call was read
    held            \* history: results stored in a free slot and not read or replaced since

locals == <<pc, req, got, cut, result, nr, disturbed>>
vars == <<executor, call_slots, input_json, locals, now, calls, restarts, delivered, held>>

Init ==
    /\ executor \in Executor
    /\ call_slots = [k \in Key |-> None]
    /\ input_json = [x \in External |-> Blank]
    /\ pc = [c \in Client |-> "idle"] /\ req = [c \in Client |-> None]
    /\ got = [c \in Client |-> None] /\ cut = [c \in Client |-> FALSE]
    /\ result = [c \in Client |-> None] /\ nr = [c \in Client |-> 0]
    /\ disturbed = {}
    /\ now = 0 /\ calls = 0 /\ restarts = 0
    /\ delivered = [n \in 1..MaxCalls |-> 0] /\ held = {}

-------------------------------------------------------------------------------
(* The input file. *)

\* The calls that are to read the file of x, apart from c.
Readers(x, c) ==
    { d \in Client \ {c} : pc[d] \in {"fill", "start", "run"} /\ req[d].tool = x }

Truncate(c, x) ==
    /\ input_json' = [input_json EXCEPT ![x] = Blank]
    /\ disturbed' = disturbed \cup Readers(x, c)

\* What is written over a file that was filled meanwhile may leave a tail of it.
Fill(c, x) ==
    /\ \E content \in {req[c].params, Mixed} :
         /\ content = Mixed => input_json[x] \notin {Blank, req[c].params}
         /\ input_json' = [input_json EXCEPT ![x] = content]
    /\ disturbed' = disturbed \cup Readers(x, c)

-------------------------------------------------------------------------------
(* Calls. *)

Goto(c, at) == pc' = [pc EXCEPT ![c] = at]

\* tool.call returns r.
Returns(c, r) == Goto(c, "returned") /\ result' = [result EXCEPT ![c] = r]

Leave(c) ==
    /\ Goto(c, "idle")
    /\ req' = [req EXCEPT ![c] = None] /\ got' = [got EXCEPT ![c] = None]
    /\ cut' = [cut EXCEPT ![c] = FALSE] /\ result' = [result EXCEPT ![c] = None]
    /\ nr' = [nr EXCEPT ![c] = 0] /\ disturbed' = disturbed \ {c}

\* execute_call or call: the tool is looked up and called.
Begin(c) ==
    \E r \in Request :
        /\ pc[c] = "idle" /\ calls < MaxCalls
        /\ calls' = calls + 1
        /\ req' = [req EXCEPT ![c] = r] /\ nr' = [nr EXCEPT ![c] = calls + 1]
        /\ IF r.tool \in External
           THEN Truncate(c, r.tool) /\ Goto(c, "fill")
           ELSE Goto(c, "builtin") /\ UNCHANGED <<input_json, disturbed>>
        /\ UNCHANGED <<executor, call_slots, got, cut, result, now, restarts, delivered, held>>

RunBuiltin(c) ==
    /\ pc[c] = "builtin"
    /\ \/ Returns(c, [of |-> req[c].params, whole |-> TRUE])
       \/ Returns(c, [error |-> TRUE])
    /\ UNCHANGED <<executor, call_slots, input_json, req, got, cut, nr, disturbed, now, calls, restarts,
                   delivered, held>>

FillInput(c) ==
    /\ pc[c] = "fill"
    /\ Fill(c, req[c].tool)
    /\ Goto(c, "start")
    /\ UNCHANGED <<executor, call_slots, req, got, cut, result, nr, now, calls, restarts, delivered, held>>

\* A write that has begun ends, even if its caller has gone away.
FillOrphan(c) ==
    /\ pc[c] = "orphan"
    /\ Fill(c, req[c].tool)
    /\ Goto(c, "idle") /\ req' = [req EXCEPT ![c] = None]
    /\ UNCHANGED <<executor, call_slots, got, cut, result, nr, now, calls, restarts, delivered, held>>

\* sandbox.exec: the container is there and the process starts.
StartExec(c) ==
    /\ pc[c] = "start"
    /\ Goto(c, "run")
    /\ UNCHANGED <<executor, call_slots, input_json, req, got, cut, result, nr, disturbed, now, calls,
                   restarts, delivered, held>>

\* What the command may find as its input.json.
Seen(x) == IF executor = "host" THEN {input_json[x]} ELSE Shipped

\* run_cmd < input.json; where there is no such file the shell fails.
ReadInput(c) ==
    /\ pc[c] = "run"
    /\ \E seen \in Seen(req[c].tool) :
         IF seen = None
         THEN Returns(c, [error |-> TRUE]) /\ UNCHANGED got
         ELSE got' = [got EXCEPT ![c] = seen] /\ Goto(c, "exit") /\ UNCHANGED result
    /\ UNCHANGED <<executor, call_slots, input_json, req, cut, nr, disturbed, now, calls, restarts,
                   delivered, held>>

\* Half a second without output: the reader of the FIFO returns what it has.
GiveUp(c) ==
    /\ executor = "containerd" /\ pc[c] \in {"run", "exit"} /\ ~cut[c]
    /\ cut' = [cut EXCEPT ![c] = TRUE]
    /\ UNCHANGED <<executor, call_slots, input_json, pc, req, got, result, nr, disturbed, now, calls,
                   restarts, delivered, held>>

\* The command ends, with exit code 0 or another one.
Exit(c) ==
    /\ pc[c] = "exit"
    /\ \/ Returns(c, [of |-> got[c], whole |-> ~cut[c]])
       \/ Returns(c, [error |-> TRUE])
    /\ UNCHANGED <<executor, call_slots, input_json, req, got, cut, nr, disturbed, now, calls, restarts,
                   delivered, held>>

\* The write or the exec returns an error.
ToolFails(c) ==
    /\ Faults /\ pc[c] \in {"fill", "start", "run", "exit"}
    /\ Returns(c, [error |-> TRUE])
    /\ UNCHANGED <<executor, call_slots, input_json, req, got, cut, nr, disturbed, now, calls, restarts,
                   delivered, held>>

\* logos_call: the result goes to the caller.
Answer(c) ==
    /\ pc[c] = "returned" /\ req[c].id = None
    /\ Leave(c)
    /\ UNCHANGED <<executor, call_slots, input_json, now, calls, restarts, delivered, held>>

KeyOf(c) == <<req[c].tool, req[c].id>>

\* Variant: a slot that is used again keeps its input.
FilledKeepsInput(c) ==
    LET old == call_slots[KeyOf(c)]
    IN  [input      |-> IF old = None THEN req[c].params ELSE old.input,
         output     |-> IF result[c] \in Output THEN result[c] ELSE None,
         created_at |-> IF old = None THEN now ELSE old.created_at,
         nr         |-> nr[c],
         disturbed  |-> c \in disturbed]

\* The slot of c with its input and result; created_at is that of the first use.
Filled(c) ==
    LET old == call_slots[KeyOf(c)]
    IN  [input      |-> req[c].params,
         output     |-> IF result[c] \in Output THEN result[c] ELSE None,
         created_at |-> IF old = None THEN now ELSE old.created_at,
         nr         |-> nr[c],
         disturbed  |-> c \in disturbed]

\* Variant: slots are dropped a tick early.
YoungTick(slot) == slot.created_at > now - Life + 1

\* slots.retain: younger than five minutes.
Young(slot) == slot.created_at > now - Life

Retained(slots) == [k \in Key |-> IF slots[k] # None /\ Young(slots[k]) THEN slots[k] ELSE None]

\* The end of execute_call, under the lock.
Store(c) ==
    /\ pc[c] = "returned" /\ req[c].id # None
    /\ call_slots' = Retained([call_slots EXCEPT ![KeyOf(c)] = Filled(c)])
    /\ held' = { h \in held : h.key # KeyOf(c) }
               \cup IF call_slots[KeyOf(c)] = None
                    THEN {[key |-> KeyOf(c), nr |-> nr[c], at |-> now]} ELSE {}
    /\ Leave(c)
    /\ UNCHANGED <<executor, input_json, now, calls, restarts, delivered>>

\* Variant: the slot stays.
ReadOutputKeeps(k) ==
    /\ call_slots[k] # None /\ call_slots[k].output # None
    /\ delivered' = [delivered EXCEPT ![call_slots[k].nr] = @ + 1]
    /\ UNCHANGED <<executor, call_slots, held, input_json, locals, now, calls, restarts>>

\* read .../output, under the lock: a result is removed, an error stays.
ReadOutput(k) ==
    /\ call_slots[k] # None /\ call_slots[k].output # None
    /\ delivered' = [delivered EXCEPT ![call_slots[k].nr] = @ + 1]
    /\ call_slots' = [call_slots EXCEPT ![k] = None]
    /\ held' = { h \in held : h.key # k }
    /\ UNCHANGED <<executor, input_json, locals, now, calls, restarts>>

\* The caller goes away, and its call with it; a write that has begun does not.
Abort(c) ==
    /\ Faults /\ pc[c] \notin {"idle", "orphan"}
    /\ IF pc[c] = "fill"
       THEN /\ Goto(c, "orphan") /\ nr' = [nr EXCEPT ![c] = 0] /\ disturbed' = disturbed \ {c}
            /\ UNCHANGED <<req, got, cut, result>>
       ELSE Leave(c)
    /\ UNCHANGED <<executor, call_slots, input_json, now, calls, restarts, delivered, held>>

\* Slots are in memory; input files stay as they are.
Restart ==
    /\ restarts < MaxRestarts
    /\ restarts' = restarts + 1
    /\ call_slots' = [k \in Key |-> None] /\ held' = {}
    /\ pc' = [c \in Client |-> "idle"] /\ req' = [c \in Client |-> None]
    /\ got' = [c \in Client |-> None] /\ cut' = [c \in Client |-> FALSE]
    /\ result' = [c \in Client |-> None] /\ nr' = [c \in Client |-> 0]
    /\ disturbed' = {}
    /\ UNCHANGED <<executor, input_json, now, calls, delivered>>

TimePasses ==
    /\ now < MaxTime
    /\ now' = now + 1
    /\ UNCHANGED <<executor, call_slots, input_json, locals, calls, restarts, delivered, held>>

Step(c) ==
    \/ Begin(c) \/ RunBuiltin(c) \/ FillInput(c) \/ FillOrphan(c) \/ StartExec(c) \/ ReadInput(c) \/ GiveUp(c)
    \/ Exit(c) \/ ToolFails(c) \/ Answer(c) \/ Store(c) \/ Abort(c)

Next ==
    \/ Restart \/ TimePasses
    \/ \E k \in Key : ReadOutput(k)
    \/ \E c \in Client : Step(c)

Spec == Init /\ [][Next]_vars

-------------------------------------------------------------------------------
(* Properties. *)

Places == {"idle", "builtin", "fill", "orphan", "start", "run", "exit", "returned"}

CallOK(c) ==
    /\ pc[c] = "idle" <=> req[c] = None
    /\ pc[c] \in {"idle", "orphan"} <=> nr[c] = 0
    /\ pc[c] = "builtin" => req[c].tool \in Builtin
    /\ pc[c] \in {"fill", "orphan", "start", "run", "exit"} => req[c].tool \in External
    /\ pc[c] = "returned" <=> result[c] # None
    /\ pc[c] = "exit" => got[c] # None
    /\ got[c] # None => pc[c] \in {"exit", "returned"}
    /\ c \in disturbed => pc[c] \in {"fill", "start", "run", "exit", "returned"}

(* Types; calls under way and the numbers of results are apart from each   *)
(* other, and what a call has read and returned is there when it is used.  *)
TypeOK ==
    /\ executor \in Executor
    /\ call_slots \in [Key -> Slot \cup {None}]
    /\ input_json \in [External -> Content]
    /\ pc \in [Client -> Places] /\ req \in [Client -> Request \cup {None}]
    /\ got \in [Client -> Content \cup {None}] /\ cut \in [Client -> BOOLEAN]
    /\ result \in [Client -> Output \cup Error \cup {None}]
    /\ now \in Time /\ calls \in 0..MaxCalls /\ restarts \in 0..MaxRestarts
    /\ nr \in [Client -> 0..MaxCalls] /\ disturbed \subseteq Client
    /\ delivered \in [1..MaxCalls -> Nat]
    /\ held \subseteq [key : Key, nr : 1..MaxCalls, at : Time]
    /\ \A c \in Client : CallOK(c)

(* The result of a call is the one for its own params, and the slot that   *)
(* keeps it has those as input: for a builtin tool always, for an external *)
(* one whose command has the file of the kernel unless another call        *)
(* touched that file before it was read.                                   *)
OwnResult ==
    /\ \A c \in Client :
         /\ result[c] \in Output /\ c \notin disturbed
         /\ executor = "host" \/ req[c].tool \in Builtin
         => result[c].of = req[c].params
    /\ \A k \in Key :
         LET slot == call_slots[k]
         IN  /\ slot # None /\ slot.output # None
             /\ k[1] \in Builtin \/ (executor = "host" /\ ~slot.disturbed)
             => slot.output.of = slot.input

(* A result is read at most once, whatever call_ids are used again.        *)
DeliveredOnce == \A n \in 1..MaxCalls : delivered[n] <= 1

(* A result that was stored in a free slot stays until it is read, until   *)
(* its call_id is used again, or for five minutes: no other call drops it. *)
ResultKept ==
    \A h \in held : now - h.at < Life =>
        call_slots[h.key] # None /\ call_slots[h.key].nr = h.nr
===============================================================================
