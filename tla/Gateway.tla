-------------------------------- MODULE Gateway --------------------------------
(***************************************************************************)
(* How a caller gets a session and a sandbox: the token registry           *)
(* (logos-kernel/src/token.rs), the handlers of Handshake and Exec         *)
(* (grpc.rs) and the sandbox namespace with its containerd executor        *)
(* (sandbox.rs).                                                           *)
(*                                                                         *)
(* A handler holds no lock across an await, and ensure_container is a      *)
(* string of up to ten containerd calls between its two looks at the map  *)
(* of containers.  Each lock and each containerd call is one step, so      *)
(* other handlers run between them, a call can fail, the client can go     *)
(* away (Cancel), the kernel can stop and lose its maps (Crash), and the   *)
(* machine can restart, which also ends the containers' processes while    *)
(* containerd keeps its records and snapshots (Reboot).                    *)
(*                                                                         *)
(* A snapshot is a number, which stands for its upperdir too.  One that    *)
(* nothing refers to any more may be numbered again.                       *)
(***************************************************************************)
EXTENDS Naturals

CONSTANTS
    Client,       \* connections, each with one request at a time
    Token, Task, Agent,
    None,         \* absence, of whatever kind
    Anon,         \* the empty agent_config_id
    TaskOf,       \* TaskOf[t]: the task token t is registered for
    AgentOf,      \* AgentOf[k]: the agent_config_id of task k
    MaxFaults,    \* bound on failures, cancellations and restarts
    MaxSnapshots  \* bound on the snapshots referred to at once

VARIABLES
    pending, sessions, counter,     \* TokenRegistry; sessions: <<key, task>>
    containers,   \* host path by agent, None if not ensured
    task_agent,   \* agent by task, None if not mapped
    \* containerd
    record,       \* agents with a container record
    snap,         \* the active snapshot of an agent, or None
    proc,         \* the snapshot its task was created on, None if no task
    started,      \* agents whose task has been started
    \* handlers
    pc, who,      \* where the request of a client is, the task it is for
    slot,         \* the key that a handshake will answer
    path,         \* the host path ensure_container has so far
    \* clients
    token, key,   \* the token last presented, the key received for it
    outdated,     \* clients whose key is of a kernel that has stopped
    \* bookkeeping
    issued, faults,
    disturbed     \* agents with overlapping ensures, or a lookup that failed

registry == <<pending, sessions, counter>>
maps == <<containers, task_agent>>
containerd == <<record, snap, proc, started>>
handlers == <<pc, who, slot, path>>
clients == <<token, key, outdated>>
books == <<issued, faults, disturbed>>
vars == <<registry, maps, containerd, handlers, clients, books>>

ASSUME ConstantsOK ==
    /\ None \notin Client \cup Token \cup Task \cup Agent \cup Nat
    /\ TaskOf \in [Token -> Task]
    /\ AgentOf \in [Task -> Agent]
    /\ MaxFaults \in Nat /\ MaxSnapshots \in Nat

\* get_upperdir's fallback, the host's /tmp; snapshots start at 1.
Tmp == 0

\* The executor's part of ensure_container.
Ensuring == { "get", "get_task", "upperdir", "delete", "image", "remove",
              "prepare", "create", "create_task", "start", "insert" }

Busy == Ensuring \cup { "bind", "known", "map" }

AgentFor(c) == AgentOf[who[c]]

Init ==
    /\ pending = {} /\ sessions = {} /\ counter = 1
    /\ containers = [a \in Agent |-> None]
    /\ task_agent = [k \in Task |-> None]
    /\ record = {}
    /\ snap = [a \in Agent |-> None]
    /\ proc = [a \in Agent |-> None]
    /\ started = {}
    /\ pc = [c \in Client |-> "idle"]
    /\ who = [c \in Client |-> None]
    /\ slot = [c \in Client |-> None]
    /\ path = [c \in Client |-> None]
    /\ token = [c \in Client |-> None]
    /\ key = [c \in Client |-> None]
    /\ outdated = {}
    /\ issued = {} /\ faults = 0 /\ disturbed = {}
-------------------------------------------------------------------------------
(* Tokens.                                                                 *)

\* The runtime makes a token for one task and registers it once.
Register(t) ==
    /\ t \notin issued
    /\ issued' = issued \cup {t}
    /\ pending' = pending \cup {t}
    /\ UNCHANGED <<sessions, counter, maps, containerd, handlers, clients, faults, disturbed>>

Revoke(t) ==
    /\ t \in pending
    /\ pending' = pending \ {t}
    /\ UNCHANGED <<sessions, counter, maps, containerd, handlers, clients, books>>

\* Variant: the token is looked up and stays.
HandshakeKeeps(c, t) ==
    /\ pc[c] = "idle"
    /\ t \in pending
    /\ counter' = counter + 1
    /\ pc' = [pc EXCEPT ![c] = "bind"]
    /\ who' = [who EXCEPT ![c] = TaskOf[t]]
    /\ slot' = [slot EXCEPT ![c] = counter]
    /\ token' = [token EXCEPT ![c] = t]
    /\ key' = [key EXCEPT ![c] = None]
    /\ outdated' = outdated \ {c}
    /\ UNCHANGED <<pending, sessions, maps, containerd, path, books>>

\* consume: the entry is removed and a key is drawn.  A token that is not
\* pending changes nothing.
Handshake(c, t) ==
    /\ pc[c] = "idle"
    /\ t \in pending
    /\ pending' = pending \ {t}
    /\ counter' = counter + 1
    /\ pc' = [pc EXCEPT ![c] = "bind"]
    /\ who' = [who EXCEPT ![c] = TaskOf[t]]
    /\ slot' = [slot EXCEPT ![c] = counter]
    /\ token' = [token EXCEPT ![c] = t]
    /\ key' = [key EXCEPT ![c] = None]
    /\ outdated' = outdated \ {c}
    /\ UNCHANGED <<sessions, maps, containerd, path, books>>

\* The handler returns.  A handshake answers its key, whatever came of the
\* sandbox; an exec has run its command or reports an error.
Reply(c) ==
    /\ pc' = [pc EXCEPT ![c] = "idle"]
    /\ who' = [who EXCEPT ![c] = None]
    /\ slot' = [slot EXCEPT ![c] = None]
    /\ path' = [path EXCEPT ![c] = None]
    /\ key' = IF slot[c] = None THEN key ELSE [key EXCEPT ![c] = slot[c]]
    /\ UNCHANGED <<token, outdated>>

Goto(c, l) ==
    /\ pc' = [pc EXCEPT ![c] = l]
    /\ UNCHANGED <<who, slot, clients>>

\* Variant: the entry goes under the key drawn last.
BindLast(c) ==
    /\ pc[c] = "bind"
    /\ sessions' = { e \in sessions : e[1] # counter - 1 }
                     \cup { <<counter - 1, who[c]>> }
    /\ IF AgentFor(c) = Anon THEN Reply(c) ELSE Goto(c, "known") /\ UNCHANGED path
    /\ UNCHANGED <<pending, counter, maps, containerd, books>>

\* The second lock of consume; without an agent there is no sandbox to ensure.
Bind(c) ==
    /\ pc[c] = "bind"
    /\ sessions' = { e \in sessions : e[1] # slot[c] } \cup { <<slot[c], who[c]>> }
    /\ IF AgentFor(c) = Anon THEN Reply(c) ELSE Goto(c, "known") /\ UNCHANGED path
    /\ UNCHANGED <<pending, counter, maps, containerd, books>>

\* Exec resolves the key of its request to a task, then needs its container.
Exec(c) ==
    /\ pc[c] = "idle"
    /\ \E e \in sessions : e[1] = key[c] /\ who' = [who EXCEPT ![c] = e[2]]
    /\ pc' = [pc EXCEPT ![c] = "known"]
    /\ UNCHANGED <<registry, maps, containerd, slot, path, clients, books>>

\* cleanup_expired: a session has lived for SESSION_TTL.
Expire(e) ==
    /\ e \in sessions
    /\ sessions' = sessions \ {e}
    /\ UNCHANGED <<pending, counter, maps, containerd, handlers, clients, books>>

-------------------------------------------------------------------------------
(* ensure_container.                                                       *)

MayFail == faults < MaxFaults
Fault == faults' = faults + 1 /\ UNCHANGED issued
NoFault == UNCHANGED <<issued, faults>>

\* The container is there: a handshake goes on to map the task, an exec to
\* run its command in it, which changes nothing here.
Ensured(c) ==
    IF slot[c] # None THEN Goto(c, "map") /\ UNCHANGED path ELSE Reply(c)

\* Variant: a handshake maps its task first.
KnownMaps(c) ==
    /\ pc[c] = "known"
    /\ task_agent' = [task_agent EXCEPT ![who[c]] = AgentFor(c)]
    /\ IF containers[AgentFor(c)] # None
       THEN Ensured(c)
       ELSE Goto(c, "get") /\ UNCHANGED path
    /\ UNCHANGED <<registry, containers, containerd, books>>

\* The first look at the map of containers.
Known(c) ==
    /\ pc[c] = "known"
    /\ IF containers[AgentFor(c)] # None
       THEN Ensured(c) /\ UNCHANGED disturbed
       ELSE /\ Goto(c, "get") /\ UNCHANGED path
            /\ disturbed' = IF \E d \in Client : pc[d] \in Ensuring /\ AgentFor(d) = AgentFor(c)
                            THEN disturbed \cup {AgentFor(c)} ELSE disturbed
    /\ NoFault
    /\ UNCHANGED <<registry, maps, containerd>>

\* A lookup in containerd whose error the code takes for "there is none".
Lookup(c, present, found, missing) ==
    /\ \/ Goto(c, IF present THEN found ELSE missing) /\ NoFault /\ UNCHANGED disturbed
       \/ /\ MayFail /\ Fault
          /\ Goto(c, missing)
          /\ disturbed' = disturbed \cup {AgentFor(c)}
    /\ UNCHANGED <<registry, maps, containerd, path>>

\* Variant: a record is proof enough.
GetContainerTrusts(c) ==
    pc[c] = "get" /\ Lookup(c, AgentFor(c) \in record, "upperdir", "image")

GetContainer(c) ==
    pc[c] = "get" /\ Lookup(c, AgentFor(c) \in record, "get_task", "image")

\* Variant: a record without a task is left where it is.
GetTaskLeaves(c) ==
    pc[c] = "get_task" /\ Lookup(c, proc[AgentFor(c)] # None, "upperdir", "image")

\* A task that was created and never started is a task, too.
GetTask(c) ==
    pc[c] = "get_task" /\ Lookup(c, proc[AgentFor(c)] # None, "upperdir", "delete")

\* Variant: without a snapshot there is no path.
UpperDirBare(c) ==
    /\ pc[c] = "upperdir"
    /\ path' = [path EXCEPT ![c] = snap[AgentFor(c)]]
    /\ NoFault /\ UNCHANGED disturbed
    /\ Goto(c, "insert")
    /\ UNCHANGED <<registry, maps, containerd>>

\* The container found: its host path is the upperdir of the agent's snapshot.
UpperDir(c) ==
    /\ pc[c] = "upperdir"
    /\ \/ /\ snap[AgentFor(c)] # None
          /\ path' = [path EXCEPT ![c] = snap[AgentFor(c)]]
          /\ NoFault /\ UNCHANGED disturbed
       \/ /\ snap[AgentFor(c)] = None
          /\ path' = [path EXCEPT ![c] = Tmp]
          /\ NoFault /\ UNCHANGED disturbed
       \/ /\ MayFail /\ Fault
          /\ path' = [path EXCEPT ![c] = Tmp]
          /\ disturbed' = disturbed \cup {AgentFor(c)}
    /\ Goto(c, "insert")
    /\ UNCHANGED <<registry, maps, containerd>>

\* The error of this deletion, and of the next, is ignored.
DeleteRecord(c) ==
    /\ pc[c] = "delete"
    /\ \/ record' = record \ {AgentFor(c)} /\ NoFault
       \/ MayFail /\ Fault /\ UNCHANGED record
    /\ Goto(c, "image")
    /\ UNCHANGED <<registry, maps, snap, proc, started, path, disturbed>>

\* A call of containerd that has to succeed: it needs possible, and may fail
\* all the same.  An error ends ensure_container.
Attempt(c, possible, effect, next) ==
    \/ possible /\ effect /\ Goto(c, next) /\ NoFault
    \/ /\ ~possible
       /\ Reply(c) /\ NoFault
       /\ UNCHANGED containerd
    \/ /\ MayFail /\ Fault
       /\ Reply(c)
       /\ UNCHANGED containerd

\* The image is pulled and unpacked, or has been, and a parent is found.
EnsureImage(c) ==
    /\ pc[c] = "image"
    /\ Attempt(c, TRUE, UNCHANGED <<containerd, path>>, "remove")
    /\ UNCHANGED <<registry, maps, disturbed>>

\* The snapshot of an earlier container goes.
RemoveSnapshot(c) ==
    /\ pc[c] = "remove"
    /\ \/ snap' = [snap EXCEPT ![AgentFor(c)] = None] /\ NoFault
       \/ MayFail /\ Fault /\ UNCHANGED snap
    /\ Goto(c, "prepare")
    /\ UNCHANGED <<registry, maps, record, proc, started, path, disturbed>>

Used ==
    { snap[a] : a \in Agent } \cup { proc[a] : a \in Agent }
      \cup { containers[a] : a \in Agent } \cup { path[c] : c \in Client }

Prepare(c) ==
    /\ pc[c] = "prepare"
    /\ Attempt(c, snap[AgentFor(c)] = None,
               \E g \in (1 .. MaxSnapshots) \ Used :
                  /\ 1 .. g - 1 \subseteq Used
                  /\ snap' = [snap EXCEPT ![AgentFor(c)] = g]
                  /\ path' = [path EXCEPT ![c] = g]
                  /\ UNCHANGED <<record, proc, started>>,
               "create")
    /\ UNCHANGED <<registry, maps, disturbed>>

CreateContainer(c) ==
    /\ pc[c] = "create"
    /\ Attempt(c, AgentFor(c) \notin record,
               record' = record \cup {AgentFor(c)} /\ UNCHANGED <<snap, proc, started, path>>,
               "create_task")
    /\ UNCHANGED <<registry, maps, disturbed>>

\* The task mounts the snapshot that this call prepared.  It does not run yet.
CreateTask(c) ==
    /\ pc[c] = "create_task"
    /\ Attempt(c, AgentFor(c) \in record /\ proc[AgentFor(c)] = None /\ snap[AgentFor(c)] = path[c],
               proc' = [proc EXCEPT ![AgentFor(c)] = path[c]]
                 /\ UNCHANGED <<record, snap, started, path>>,
               "start")
    /\ UNCHANGED <<registry, maps, disturbed>>

Start(c) ==
    /\ pc[c] = "start"
    /\ Attempt(c, proc[AgentFor(c)] # None /\ AgentFor(c) \notin started,
               started' = started \cup {AgentFor(c)} /\ UNCHANGED <<record, snap, proc, path>>,
               "insert")
    /\ UNCHANGED <<registry, maps, disturbed>>

\* The second lock of the map of containers: whatever is there is replaced.
Insert(c) ==
    /\ pc[c] = "insert"
    /\ containers' = [containers EXCEPT ![AgentFor(c)] = path[c]]
    /\ Ensured(c)
    /\ UNCHANGED <<registry, task_agent, containerd, books>>

\* ensure_container_for: the last step of a handshake.
Map(c) ==
    /\ pc[c] = "map"
    /\ task_agent' = [task_agent EXCEPT ![who[c]] = AgentFor(c)]
    /\ Reply(c)
    /\ UNCHANGED <<registry, containers, containerd, books>>
-------------------------------------------------------------------------------
\* The client goes away: its handler is dropped at an await.
Cancel(c) ==
    /\ pc[c] \in Busy
    /\ MayFail /\ Fault
    /\ pc' = [pc EXCEPT ![c] = "idle"]
    /\ who' = [who EXCEPT ![c] = None]
    /\ slot' = [slot EXCEPT ![c] = None]
    /\ path' = [path EXCEPT ![c] = None]
    /\ UNCHANGED <<registry, maps, containerd, clients, disturbed>>

\* The kernel stops and starts with empty maps; its keys start over, and the
\* clients keep those they have (logos-mcp does).
Restart ==
    /\ MayFail /\ Fault
    /\ pending' = {} /\ sessions' = {} /\ counter' = 1
    /\ containers' = [a \in Agent |-> None]
    /\ task_agent' = [k \in Task |-> None]
    /\ pc' = [c \in Client |-> "idle"]
    /\ who' = [c \in Client |-> None]
    /\ slot' = [c \in Client |-> None]
    /\ path' = [c \in Client |-> None]
    /\ outdated' = { c \in Client : key[c] # None }
    /\ UNCHANGED <<record, snap, token, key, disturbed>>

Crash == Restart /\ UNCHANGED <<proc, started>>

Reboot == Restart /\ proc' = [a \in Agent |-> None] /\ started' = {}

Step(c) ==
    \/ Bind(c) \/ Known(c) \/ GetContainer(c) \/ GetTask(c) \/ UpperDir(c)
    \/ DeleteRecord(c) \/ EnsureImage(c) \/ RemoveSnapshot(c) \/ Prepare(c)
    \/ CreateContainer(c) \/ CreateTask(c) \/ Start(c) \/ Insert(c) \/ Map(c)

Next ==
    \/ \E t \in Token : Register(t) \/ Revoke(t)
    \/ \E e \in sessions : Expire(e)
    \/ \E c \in Client :
         (\E t \in Token : Handshake(c, t)) \/ Exec(c) \/ Step(c) \/ Cancel(c)
    \/ Crash
    \/ Reboot

Spec == Init /\ [][Next]_vars

\* A handler that can go on does, and a client with a session keeps calling.
FairSpec == Spec /\ \A c \in Client : WF_vars(Step(c)) /\ WF_vars(Exec(c))
-------------------------------------------------------------------------------
(* Properties.                                                             *)

\* Handlers at work know the task they are for, and those past the making of
\* a snapshot know a path.
TypeOK ==
    /\ pending \subseteq issued /\ issued \subseteq Token
    /\ sessions \subseteq (Nat \X Task)
    /\ counter \in Nat
    /\ containers \in [Agent -> Nat \cup {None}]
    /\ task_agent \in [Task -> Agent \cup {None}]
    /\ record \subseteq Agent
    /\ snap \in [Agent -> Nat \cup {None}]
    /\ proc \in [Agent -> Nat \cup {None}]
    /\ started \subseteq { a \in Agent : proc[a] # None }
    /\ pc \in [Client -> Busy \cup {"idle"}]
    /\ who \in [Client -> Task \cup {None}]
    /\ \A c \in Client : pc[c] = "idle" <=> who[c] = None
    /\ slot \in [Client -> Nat \cup {None}]
    /\ \A c \in Client : pc[c] \in {"bind", "map"} => slot[c] # None
    /\ \A c \in Client : pc[c] = "idle" => slot[c] = None
    /\ path \in [Client -> Nat \cup {None}]
    /\ \A c \in Client : pc[c] \in {"create", "create_task", "start", "insert"} => path[c] # None
    /\ token \in [Client -> Token \cup {None}]
    /\ \A c \in Client : slot[c] # None \/ key[c] # None => token[c] # None
    /\ key \in [Client -> Nat \cup {None}]
    /\ outdated \subseteq Client
    /\ faults \in 0 .. MaxFaults
    /\ disturbed \subseteq Agent

\* README.md:39: after the handshake "all subsequent calls are scoped to that
\* task".  Whatever a client's key resolves to is the task of its token,
\* however handshakes, expiry and restarts interleave, provided that the key is
\* of the kernel that runs: one kept over a restart (outdated) is a number that
\* may be given to another task.
SessionScoped ==
    \A c \in Client \ outdated : \A e \in sessions :
        e[1] = key[c] => e[2] = TaskOf[token[c]]

\* A token gives one session (token.rs:96): no two clients have got, or are
\* about to get, a key for the same one.
OneTime ==
    \A c, d \in Client :
        /\ key[c] # None \/ slot[c] # None
        /\ key[d] # None \/ slot[d] # None
        /\ token[c] = token[d]
        => c = d

\* read and write resolve a task to its agent, then the agent to its container
\* (sandbox.rs:105-110), under two locks.  The second never misses.
MappedIsEnsured ==
    \A k \in Task : task_agent[k] # None => containers[task_agent[k]] # None

\* The host path of an agent is the upperdir its container mounts, and the
\* snapshot is still there.
Live(a) == containers[a] # None => proc[a] = containers[a] /\ snap[a] = containers[a]

\* Failures, cancellations and restarts, at any of the steps, never separate
\* the host path from the agent's container, as long as its ensures do not
\* overlap and no lookup fails.
HostPathLive == \A a \in Agent \ disturbed : Live(a)

\* sandbox.rs:21-22: host_path is where "files can be read/written directly",
\* the "overlayfs upperdir".
HostPathIsUpperdir == \A a \in Agent : Live(a)

\* a's task was created and nobody is about to start it: the ensure that made
\* it was cut short or failed between tasks.create and tasks.start.
Stranded(a) ==
    /\ proc[a] # None /\ a \notin started
    /\ ~ \E c \in Client : pc[c] = "start" /\ AgentFor(c) = a

\* c's key resolves to a task of agent a.
HasSession(c, a) == \E e \in sessions : e[1] = key[c] /\ AgentOf[e[2]] = a

\* A client that keeps calling exec gets a running container, whatever records,
\* snapshots and running tasks failed or abandoned ensures have left behind.
\* The one leftover that later ensures do not repair is a task that a fault
\* has kept from being started: they take it for a container.
Recovers ==
    \A c \in Client : \A a \in Agent \ {Anon} :
        HasSession(c, a) ~> \/ ~HasSession(c, a)
                            \/ containers[a] # None /\ a \in started
                            \/ Stranded(a) /\ faults > 0
                            \/ a \in disturbed
===============================================================================
