----------------------------- MODULE GatewayProofs -----------------------------
(***************************************************************************)
(* What tokens, sessions and sandboxes guarantee for any clients, tokens,  *)
(* tasks and agents, however requests interleave, fail or are cut short.   *)
(***************************************************************************)
EXTENDS Gateway, TLAPS

(* TypeOK in two parts: the maps and containerd, and the requests.         *)
MapsOK ==
    /\ pending \subseteq issued /\ issued \subseteq Token
    /\ sessions \subseteq (Nat \X Task)
    /\ counter \in Nat
    /\ containers \in [Agent -> Nat \cup {None}]
    /\ task_agent \in [Task -> Agent \cup {None}]
    /\ record \subseteq Agent
    /\ snap \in [Agent -> Nat \cup {None}]
    /\ proc \in [Agent -> Nat \cup {None}]
    /\ started \subseteq { a \in Agent : proc[a] # None }
    /\ faults \in 0 .. MaxFaults
    /\ disturbed \subseteq Agent

WithPath == { "create", "create_task", "start", "insert" }

RequestsOK ==
    /\ pc \in [Client -> Busy \cup {"idle"}]
    /\ who \in [Client -> Task \cup {None}]
    /\ \A c \in Client : pc[c] = "idle" <=> who[c] = None
    /\ slot \in [Client -> Nat \cup {None}]
    /\ \A c \in Client : pc[c] \in {"bind", "map"} => slot[c] # None
    /\ \A c \in Client : pc[c] = "idle" => slot[c] = None
    /\ path \in [Client -> Nat \cup {None}]
    /\ \A c \in Client : pc[c] \in WithPath => path[c] # None
    /\ token \in [Client -> Token \cup {None}]
    /\ \A c \in Client : slot[c] # None \/ key[c] # None => token[c] # None
    /\ key \in [Client -> Nat \cup {None}]
    /\ outdated \subseteq Client

LEMMA TypeParts == TypeOK <=> MapsOK /\ RequestsOK
BY DEF TypeOK, MapsOK, RequestsOK, WithPath

LEMMA ReplyOK ==
  ASSUME RequestsOK, NEW c \in Client, Reply(c)
  PROVE  RequestsOK'
BY ConstantsOK DEF RequestsOK, Reply, WithPath, Busy, Ensuring

LEMMA GotoOK ==
  ASSUME RequestsOK, NEW c \in Client, pc[c] # "idle",
         NEW l \in Busy, Goto(c, l),
         l \in {"bind", "map"} => slot[c] # None,
         \/ path' = path /\ (l \in WithPath => path[c] # None)
         \/ \E p \in Nat : path' = [path EXCEPT ![c] = p]
  PROVE  RequestsOK'
<1>1. l # "idle"
  BY DEF Busy, Ensuring
<1>2. \A p \in Nat : p # None
  BY ConstantsOK
<1>3. path' \in [Client -> Nat \cup {None}] /\ \A d \in Client : pc'[d] \in WithPath => path'[d] # None
  BY <1>2 DEF RequestsOK, Goto
<1>4. QED  BY <1>1, <1>3 DEF RequestsOK, Goto, clients

LEMMA AgentForType ==
  ASSUME RequestsOK, NEW c \in Client, pc[c] # "idle"
  PROVE  who[c] \in Task /\ AgentFor(c) \in Agent
BY ConstantsOK DEF RequestsOK, AgentFor

LEMMA EnsuredOK ==
  ASSUME RequestsOK, NEW c \in Client, pc[c] # "idle", Ensured(c)
  PROVE  RequestsOK'
<1>1. CASE slot[c] # None
  BY <1>1, GotoOK DEF Ensured, Busy, WithPath
<1>2. CASE slot[c] = None
  BY <1>2, ReplyOK DEF Ensured
<1>3. QED  BY <1>1, <1>2

LEMMA FaultOK ==
  ASSUME faults \in 0 .. MaxFaults, MayFail, Fault
  PROVE  faults' \in 0 .. MaxFaults
BY ConstantsOK DEF MayFail, Fault

(* The steps that talk to containerd all have one of two shapes.           *)
LEMMA LookupOK ==
  ASSUME MapsOK, RequestsOK, NEW c \in Client, pc[c] # "idle", NEW present,
         NEW found \in Busy \ (WithPath \cup {"bind", "map"}),
         NEW missing \in Busy \ (WithPath \cup {"bind", "map"}),
         Lookup(c, present, found, missing)
  PROVE  MapsOK' /\ RequestsOK'
<1>1. AgentFor(c) \in Agent
  BY AgentForType
<1>2. Goto(c, found) \/ Goto(c, missing)
  BY DEF Lookup
<1>3. RequestsOK'
  BY <1>2, GotoOK DEF Lookup
<1>4. faults' \in 0 .. MaxFaults /\ disturbed' \subseteq Agent /\ issued' = issued
  BY <1>1, FaultOK DEF Lookup, MapsOK, NoFault, Fault
<1>5. MapsOK'
  BY <1>4 DEF Lookup, MapsOK, registry, maps, containerd
<1>6. QED  BY <1>3, <1>5

LEMMA CallOK ==
  ASSUME MapsOK, RequestsOK, NEW c \in Client, pc[c] # "idle",
         NEW next \in Busy \ {"bind", "map"},
         \/ Goto(c, next)
            /\ \/ path' = path /\ (next \in WithPath => path[c] # None)
               \/ \E p \in Nat : path' = [path EXCEPT ![c] = p]
         \/ Reply(c),
         NoFault \/ (MayFail /\ Fault),
         UNCHANGED <<registry, maps, disturbed>>,
         record' \subseteq Agent,
         snap' \in [Agent -> Nat \cup {None}], proc' \in [Agent -> Nat \cup {None}],
         started' \subseteq { a \in Agent : proc'[a] # None }
  PROVE  MapsOK' /\ RequestsOK'
<1>1. RequestsOK'
  BY GotoOK, ReplyOK
<1>2. faults' \in 0 .. MaxFaults /\ issued' = issued
  BY FaultOK DEF MapsOK, NoFault, Fault
<1>3. QED  BY <1>1, <1>2 DEF MapsOK, registry, maps

-------------------------------------------------------------------------------
LEMMA TokenSteps ==
  ASSUME MapsOK, RequestsOK, NEW t \in Token,
         Register(t) \/ Revoke(t) \/ \E c \in Client : Handshake(c, t)
  PROVE  MapsOK' /\ RequestsOK'
<1>1. CASE Register(t)
  BY <1>1 DEF Register, MapsOK, RequestsOK, maps, containerd, handlers, clients
<1>2. CASE Revoke(t)
  BY <1>2 DEF Revoke, MapsOK, RequestsOK, maps, containerd, handlers, clients, books
<1>3. ASSUME NEW c \in Client, Handshake(c, t)
      PROVE  MapsOK' /\ RequestsOK'
  <2>1. TaskOf[t] \in Task /\ None \notin Task \cup Nat \cup Token
    BY ConstantsOK
  <2>2. MapsOK'
    BY <1>3 DEF Handshake, MapsOK, maps, containerd, books
  <2>3. /\ pc' \in [Client -> Busy \cup {"idle"}]
        /\ who' \in [Client -> Task \cup {None}]
        /\ slot' \in [Client -> Nat \cup {None}]
        /\ path' = path
        /\ token' \in [Client -> Token \cup {None}]
        /\ key' \in [Client -> Nat \cup {None}]
        /\ outdated' \subseteq Client
    BY <1>3, <2>1 DEF Handshake, MapsOK, RequestsOK, Busy
  <2>4. \A d \in Client : pc'[d] = "idle" <=> who'[d] = None
    BY <1>3, <2>1 DEF Handshake, RequestsOK
  <2>5. /\ \A d \in Client : pc'[d] \in {"bind", "map"} => slot'[d] # None
        /\ \A d \in Client : pc'[d] = "idle" => slot'[d] = None
        /\ \A d \in Client : pc'[d] \in WithPath => path'[d] # None
        /\ \A d \in Client : slot'[d] # None \/ key'[d] # None => token'[d] # None
    BY <1>3, <2>1 DEF Handshake, MapsOK, RequestsOK, WithPath
  <2>6. RequestsOK'
    BY <2>3, <2>4, <2>5 DEF RequestsOK
  <2>7. QED  BY <2>2, <2>6
<1>4. QED  BY <1>1, <1>2, <1>3

LEMMA ExecStep ==
  ASSUME MapsOK, RequestsOK, NEW c \in Client, Exec(c)
  PROVE  MapsOK' /\ RequestsOK'
<1>1. PICK f \in sessions : who' = [who EXCEPT ![c] = f[2]]
  BY DEF Exec
<1>2. f[2] \in Task /\ None \notin Task
  BY ConstantsOK DEF MapsOK
<1>3. RequestsOK'
  BY <1>1, <1>2 DEF Exec, RequestsOK, Busy, WithPath, clients
<1>4. QED  BY <1>3 DEF Exec, MapsOK, registry, maps, containerd, books

LEMMA ExpireStep ==
  ASSUME MapsOK, RequestsOK, NEW e \in sessions, Expire(e)
  PROVE  MapsOK' /\ RequestsOK'
BY DEF Expire, MapsOK, RequestsOK, maps, containerd, handlers, clients, books

LEMMA CancelStep ==
  ASSUME MapsOK, RequestsOK, NEW c \in Client, Cancel(c)
  PROVE  MapsOK' /\ RequestsOK'
<1>1. RequestsOK'
  BY ConstantsOK DEF Cancel, RequestsOK, WithPath, Busy, Ensuring, clients
<1>2. MapsOK'
  BY FaultOK DEF Cancel, MapsOK, registry, maps, containerd, Fault
<1>3. QED  BY <1>1, <1>2

LEMMA RestartStep ==
  ASSUME MapsOK, RequestsOK, Crash \/ Reboot
  PROVE  MapsOK' /\ RequestsOK'
<1>1. Restart
  BY DEF Crash, Reboot
<1>2. \A d \in Client : slot'[d] # None \/ key'[d] # None => token'[d] # None
  BY <1>1 DEF Restart, RequestsOK
<1>3. key' \in [Client -> Nat \cup {None}] /\ outdated' \subseteq Client
  BY <1>1 DEF Restart, RequestsOK
<1>4. RequestsOK'
  BY <1>1, <1>2, <1>3 DEF Restart, RequestsOK, WithPath
<1>5. /\ proc' \in [Agent -> Nat \cup {None}]
      /\ started' \subseteq { a \in Agent : proc'[a] # None }
  BY DEF Crash, Reboot, MapsOK
<1>6. MapsOK'
  BY <1>1, <1>5, FaultOK DEF Restart, MapsOK, Fault
<1>7. QED  BY <1>4, <1>6

LEMMA EnsureSteps ==
  ASSUME MapsOK, RequestsOK, NEW c \in Client, Step(c)
  PROVE  MapsOK' /\ RequestsOK'
<1>1. CASE Bind(c)
  <2>1. pc[c] # "idle" /\ slot[c] \in Nat /\ who[c] \in Task
    BY <1>1, AgentForType DEF Bind, RequestsOK
  <2>2. RequestsOK'
    BY <1>1, <2>1, ReplyOK, GotoOK DEF Bind, Busy, WithPath
  <2>3. MapsOK'
    BY <1>1, <2>1 DEF Bind, MapsOK, maps, containerd, books
  <2>4. QED  BY <2>2, <2>3
<1>2. CASE Known(c)
  <2>1. pc[c] # "idle" /\ AgentFor(c) \in Agent
    BY <1>2, AgentForType DEF Known
  <2>2. RequestsOK'
    BY <1>2, <2>1, EnsuredOK, GotoOK DEF Known, Busy, Ensuring, WithPath
  <2>3. MapsOK'
    BY <1>2, <2>1 DEF Known, MapsOK, registry, maps, containerd, NoFault
  <2>4. QED  BY <2>2, <2>3
<1>3. CASE GetContainer(c)
  <2>1. /\ pc[c] # "idle"
        /\ Lookup(c, AgentFor(c) \in record, "get_task", "image")
    BY <1>3 DEF GetContainer
  <2>2. {"get_task", "image"} \subseteq Busy \ (WithPath \cup {"bind", "map"})
    BY DEF Busy, Ensuring, WithPath
  <2>3. QED  BY <2>1, <2>2, LookupOK
<1>4. CASE GetTask(c)
  <2>1. /\ pc[c] # "idle"
        /\ Lookup(c, proc[AgentFor(c)] # None, "upperdir", "delete")
    BY <1>4 DEF GetTask
  <2>2. {"upperdir", "delete"} \subseteq Busy \ (WithPath \cup {"bind", "map"})
    BY DEF Busy, Ensuring, WithPath
  <2>3. QED  BY <2>1, <2>2, LookupOK
<1>5. CASE UpperDir(c)
  <2>1. pc[c] # "idle" /\ AgentFor(c) \in Agent
    BY <1>5, AgentForType DEF UpperDir
  <2>2. \E p \in Nat : path' = [path EXCEPT ![c] = p]
    BY <1>5, <2>1 DEF UpperDir, MapsOK, Tmp
  <2>3. RequestsOK'
    BY <1>5, <2>1, <2>2, GotoOK DEF UpperDir, Busy, Ensuring
  <2>4. faults' \in 0 .. MaxFaults /\ disturbed' \subseteq Agent /\ issued' = issued
    BY <1>5, <2>1, FaultOK DEF UpperDir, MapsOK, NoFault, Fault
  <2>5. MapsOK'
    BY <1>5, <2>4 DEF UpperDir, MapsOK, registry, maps, containerd
  <2>6. QED  BY <2>3, <2>5
<1>6. CASE DeleteRecord(c)
  <2>1. pc[c] # "idle" /\ AgentFor(c) \in Agent
    BY <1>6, AgentForType DEF DeleteRecord, RequestsOK, WithPath
  <2>2. Goto(c, "image") /\ path' = path
    BY <1>6 DEF DeleteRecord
  <2>3. (NoFault \/ (MayFail /\ Fault)) /\ UNCHANGED <<registry, maps, disturbed>>
    BY <1>6 DEF DeleteRecord
  <2>4. /\ record' \subseteq Agent
        /\ snap' \in [Agent -> Nat \cup {None}] /\ proc' \in [Agent -> Nat \cup {None}]
        /\ started' \subseteq { a \in Agent : proc'[a] # None }
    BY <1>6, <2>1 DEF DeleteRecord, MapsOK, containerd
  <2>5. "image" \in Busy \ {"bind", "map"}
    BY DEF Busy, Ensuring
  <2>6. QED  BY <2>1, <2>2, <2>3, <2>4, <2>5, CallOK DEF WithPath
<1>7. CASE EnsureImage(c)
  <2>1. pc[c] # "idle" /\ AgentFor(c) \in Agent
    BY <1>7, AgentForType DEF EnsureImage, RequestsOK, WithPath
  <2>2. (Goto(c, "remove") /\ path' = path) \/ Reply(c)
    BY <1>7 DEF EnsureImage, Attempt
  <2>3. (NoFault \/ (MayFail /\ Fault)) /\ UNCHANGED <<registry, maps, disturbed>>
    BY <1>7 DEF EnsureImage, Attempt
  <2>4. /\ record' \subseteq Agent
        /\ snap' \in [Agent -> Nat \cup {None}] /\ proc' \in [Agent -> Nat \cup {None}]
        /\ started' \subseteq { a \in Agent : proc'[a] # None }
    BY <1>7, <2>1 DEF EnsureImage, Attempt, MapsOK, containerd
  <2>5. "remove" \in Busy \ {"bind", "map"}
    BY DEF Busy, Ensuring
  <2>6. QED  BY <2>1, <2>2, <2>3, <2>4, <2>5, CallOK DEF WithPath
<1>8. CASE RemoveSnapshot(c)
  <2>1. pc[c] # "idle" /\ AgentFor(c) \in Agent
    BY <1>8, AgentForType DEF RemoveSnapshot, RequestsOK, WithPath
  <2>2. Goto(c, "prepare") /\ path' = path
    BY <1>8 DEF RemoveSnapshot
  <2>3. (NoFault \/ (MayFail /\ Fault)) /\ UNCHANGED <<registry, maps, disturbed>>
    BY <1>8 DEF RemoveSnapshot
  <2>4. /\ record' \subseteq Agent
        /\ snap' \in [Agent -> Nat \cup {None}] /\ proc' \in [Agent -> Nat \cup {None}]
        /\ started' \subseteq { a \in Agent : proc'[a] # None }
    BY <1>8, <2>1 DEF RemoveSnapshot, MapsOK, containerd
  <2>5. "prepare" \in Busy \ {"bind", "map"}
    BY DEF Busy, Ensuring
  <2>6. QED  BY <2>1, <2>2, <2>3, <2>4, <2>5, CallOK DEF WithPath
<1>9. CASE Prepare(c)
  <2>1. \/ Goto(c, "create") /\ \E p \in Nat : path' = [path EXCEPT ![c] = p]
        \/ Reply(c)
    BY <1>9, ConstantsOK DEF Prepare, Attempt
  <2>2. record' = record /\ snap' \in [Agent -> Nat \cup {None}] /\ UNCHANGED <<proc, started>>
    BY <1>9, ConstantsOK DEF Prepare, Attempt, MapsOK, containerd
  <2>3. (NoFault \/ (MayFail /\ Fault)) /\ UNCHANGED <<registry, maps, disturbed>>
    BY <1>9 DEF Prepare, Attempt
  <2>4. pc[c] # "idle" /\ "create" \in Busy \ {"bind", "map"}
    BY <1>9 DEF Prepare, Busy, Ensuring
  <2>5. QED  BY <2>1, <2>2, <2>3, <2>4, CallOK DEF MapsOK
<1>10. CASE CreateContainer(c)
  <2>1. pc[c] # "idle" /\ AgentFor(c) \in Agent /\ path[c] \in Nat /\ path[c] # None
    BY <1>10, AgentForType DEF CreateContainer, RequestsOK, WithPath
  <2>2. (Goto(c, "create_task") /\ path' = path) \/ Reply(c)
    BY <1>10 DEF CreateContainer, Attempt
  <2>3. (NoFault \/ (MayFail /\ Fault)) /\ UNCHANGED <<registry, maps, disturbed>>
    BY <1>10 DEF CreateContainer, Attempt
  <2>4. /\ record' \subseteq Agent
        /\ snap' \in [Agent -> Nat \cup {None}] /\ proc' \in [Agent -> Nat \cup {None}]
        /\ started' \subseteq { a \in Agent : proc'[a] # None }
    BY <1>10, <2>1 DEF CreateContainer, Attempt, MapsOK, containerd
  <2>5. "create_task" \in Busy \ {"bind", "map"}
    BY DEF Busy, Ensuring
  <2>6. QED  BY <2>1, <2>2, <2>3, <2>4, <2>5, CallOK
<1>11. CASE CreateTask(c)
  <2>1. pc[c] # "idle" /\ AgentFor(c) \in Agent /\ path[c] \in Nat /\ path[c] # None
    BY <1>11, AgentForType DEF CreateTask, RequestsOK, WithPath
  <2>2. (Goto(c, "start") /\ path' = path) \/ Reply(c)
    BY <1>11 DEF CreateTask, Attempt
  <2>3. (NoFault \/ (MayFail /\ Fault)) /\ UNCHANGED <<registry, maps, disturbed>>
    BY <1>11 DEF CreateTask, Attempt
  <2>4. /\ record' \subseteq Agent
        /\ snap' \in [Agent -> Nat \cup {None}] /\ proc' \in [Agent -> Nat \cup {None}]
        /\ started' \subseteq { a \in Agent : proc'[a] # None }
    BY <1>11, <2>1 DEF CreateTask, Attempt, MapsOK, containerd
  <2>5. "start" \in Busy \ {"bind", "map"}
    BY DEF Busy, Ensuring
  <2>6. QED  BY <2>1, <2>2, <2>3, <2>4, <2>5, CallOK
<1>12. CASE Start(c)
  <2>1. pc[c] # "idle" /\ AgentFor(c) \in Agent /\ path[c] \in Nat /\ path[c] # None
    BY <1>12, AgentForType DEF Start, RequestsOK, WithPath
  <2>2. (Goto(c, "insert") /\ path' = path) \/ Reply(c)
    BY <1>12 DEF Start, Attempt
  <2>3. (NoFault \/ (MayFail /\ Fault)) /\ UNCHANGED <<registry, maps, disturbed>>
    BY <1>12 DEF Start, Attempt
  <2>4. /\ record' \subseteq Agent
        /\ snap' \in [Agent -> Nat \cup {None}] /\ proc' \in [Agent -> Nat \cup {None}]
        /\ started' \subseteq { a \in Agent : proc'[a] # None }
    BY <1>12, <2>1 DEF Start, Attempt, MapsOK, containerd
  <2>5. "insert" \in Busy \ {"bind", "map"}
    BY DEF Busy, Ensuring
  <2>6. QED  BY <2>1, <2>2, <2>3, <2>4, <2>5, CallOK
<1>13. CASE Insert(c)
  <2>1. pc[c] \in WithPath /\ pc[c] # "idle" /\ path[c] \in Nat /\ AgentFor(c) \in Agent
    BY <1>13, AgentForType DEF Insert, WithPath, RequestsOK
  <2>2. RequestsOK'
    BY <1>13, <2>1, EnsuredOK DEF Insert
  <2>3. MapsOK'
    BY <1>13, <2>1 DEF Insert, MapsOK, registry, containerd, books
  <2>4. QED  BY <2>2, <2>3
<1>14. CASE Map(c)
  <2>1. pc[c] # "idle" /\ who[c] \in Task /\ AgentFor(c) \in Agent
    BY <1>14, AgentForType DEF Map
  <2>2. RequestsOK'
    BY <1>14, ReplyOK DEF Map
  <2>3. MapsOK'
    BY <1>14, <2>1 DEF Map, MapsOK, registry, containerd, books
  <2>4. QED  BY <2>2, <2>3
<1>15. QED
  BY <1>1, <1>2, <1>3, <1>4, <1>5, <1>6, <1>7, <1>8, <1>9, <1>10, <1>11, <1>12, <1>13, <1>14
     DEF Step

LEMMA TypeStep ==
  ASSUME TypeOK, [Next]_vars
  PROVE  TypeOK'
<1>1. MapsOK /\ RequestsOK
  BY TypeParts
<1>2. CASE Next
  <2>1. MapsOK' /\ RequestsOK'
    BY <1>1, <1>2, TokenSteps, ExecStep, ExpireStep, EnsureSteps, CancelStep, RestartStep
       DEF Next
  <2>2. QED  BY <2>1, TypeParts DEF TypeOK, MapsOK, RequestsOK, WithPath
<1>3. CASE UNCHANGED vars
  BY <1>3 DEF TypeOK, vars, registry, maps, containerd, handlers, clients, books
<1>4. QED  BY <1>2, <1>3

\* Requests, maps and containerd stay well formed: handlers at work know their
\* task, and those that have made a snapshot know its path.
THEOREM TypeCorrect == Spec => []TypeOK
<1>1. Init => TypeOK
  BY ConstantsOK DEF Init, TypeOK, Busy, Ensuring
<1>2. TypeOK /\ [Next]_vars => TypeOK'
  BY TypeStep
<1>3. QED  BY <1>1, <1>2, PTL DEF Spec

-------------------------------------------------------------------------------
(* The host path.  For an agent that has not been disturbed, at most one    *)
(* request is ensuring its container, and what that request has found out   *)
(* is still so when it acts on it.                                          *)
BeforeTask == { "delete", "image", "remove", "prepare", "create", "create_task" }

Quiet(a) ==
    /\ proc[a] # None => snap[a] = proc[a] /\ a \in record
    /\ containers[a] # None => proc[a] = containers[a]
    /\ \A c, d \in Client :
         /\ pc[c] \in Ensuring /\ AgentFor(c) = a
         /\ pc[d] \in Ensuring /\ AgentFor(d) = a
         => c = d
    /\ \A c \in Client : pc[c] \in Ensuring /\ AgentFor(c) = a =>
         /\ pc[c] \in BeforeTask => proc[a] = None
         /\ pc[c] = "upperdir" => proc[a] # None
         /\ pc[c] \in {"start", "insert"} => proc[a] = path[c]

PathInv == \A a \in Agent \ disturbed : Quiet(a)

\* Requests other than c's stay where they are.
OthersStay(c) ==
    \A d \in Client \ {c} : pc'[d] = pc[d] /\ who'[d] = who[d] /\ path'[d] = path[d]

LEMMA OthersStayLemma ==
  ASSUME RequestsOK, NEW c \in Client, NEW l,
         \/ Reply(c)
         \/ Goto(c, l) /\ (path' = path \/ \E p : path' = [path EXCEPT ![c] = p])
  PROVE  /\ OthersStay(c)
         /\ who'[c] = who[c] \/ pc'[c] = "idle"
BY DEF OthersStay, Reply, Goto, RequestsOK

\* A step that leaves agent a's part of the maps and of containerd alone, and
\* whose request is not, or no longer, ensuring a's container.
LEMMA Frame ==
  ASSUME NEW a \in Agent, Quiet(a), NEW c \in Client, OthersStay(c),
         proc'[a] = proc[a], snap'[a] = snap[a], containers'[a] = containers[a],
         a \in record' <=> a \in record,
         pc'[c] \in Ensuring => AgentOf[who'[c]] # a
  PROVE  Quiet(a)'
BY DEF Quiet, OthersStay, AgentFor

\* A step of the one request that is ensuring a's container.
LEMMA OwnStep ==
  ASSUME NEW a \in Agent, Quiet(a), NEW c \in Client, OthersStay(c),
         pc[c] \in Ensuring, AgentFor(c) = a,
         proc'[a] # None => snap'[a] = proc'[a] /\ a \in record',
         containers'[a] # None => proc'[a] = containers'[a],
         pc'[c] \in BeforeTask => proc'[a] = None,
         pc'[c] = "upperdir" => proc'[a] # None,
         pc'[c] \in {"start", "insert"} => proc'[a] = path'[c]
  PROVE  Quiet(a)'
<1>1. \A d \in Client \ {c} : ~(pc'[d] \in Ensuring /\ AgentOf[who'[d]] = a)
  BY DEF Quiet, OthersStay, AgentFor
<1>2. QED  BY <1>1 DEF Quiet, AgentFor

\* c's step has nothing to do with a's container.
Aside(c, a) ==
    /\ OthersStay(c)
    /\ proc'[a] = proc[a] /\ snap'[a] = snap[a] /\ containers'[a] = containers[a]
    /\ a \in record' <=> a \in record
    /\ a \in started' <=> a \in started
    /\ pc'[c] \in Ensuring => AgentOf[who'[c]] # a

LEMMA Movement ==
  ASSUME RequestsOK, NEW c \in Client, Step(c)
  PROVE  /\ OthersStay(c)
         /\ who'[c] = who[c] \/ pc'[c] = "idle"
<1>1. CASE Bind(c)
  BY <1>1, OthersStayLemma DEF Bind
<1>2. CASE Known(c)
  BY <1>2, OthersStayLemma DEF Known, Ensured
<1>3. CASE GetContainer(c)
  BY <1>3, OthersStayLemma DEF GetContainer, Lookup
<1>4. CASE GetTask(c)
  BY <1>4, OthersStayLemma DEF GetTask, Lookup
<1>5. CASE UpperDir(c)
  BY <1>5, OthersStayLemma DEF UpperDir
<1>6. CASE DeleteRecord(c)
  BY <1>6, OthersStayLemma DEF DeleteRecord
<1>7. CASE EnsureImage(c)
  BY <1>7, OthersStayLemma DEF EnsureImage, Attempt
<1>8. CASE RemoveSnapshot(c)
  BY <1>8, OthersStayLemma DEF RemoveSnapshot
<1>9. CASE Prepare(c)
  BY <1>9, OthersStayLemma DEF Prepare, Attempt
<1>10. CASE CreateContainer(c)
  BY <1>10, OthersStayLemma DEF CreateContainer, Attempt
<1>11. CASE CreateTask(c)
  BY <1>11, OthersStayLemma DEF CreateTask, Attempt
<1>12. CASE Start(c)
  BY <1>12, OthersStayLemma DEF Start, Attempt
<1>13. CASE Insert(c)
  BY <1>13, OthersStayLemma DEF Insert, Ensured
<1>14. CASE Map(c)
  BY <1>14, OthersStayLemma DEF Map
<1>15. QED
  BY <1>1, <1>2, <1>3, <1>4, <1>5, <1>6, <1>7, <1>8, <1>9, <1>10, <1>11, <1>12, <1>13, <1>14 DEF Step

LEMMA ElsewhereStays ==
  ASSUME TypeOK, NEW c \in Client, Step(c), NEW a \in Agent,
         pc[c] = "bind" \/ pc[c] = "map" \/ AgentFor(c) # a
  PROVE  Aside(c, a)
<1>0. RequestsOK /\ MapsOK /\ pc[c] # "idle" /\ OthersStay(c)
      /\ (who'[c] = who[c] \/ pc'[c] = "idle")
  BY TypeParts, Movement DEF Step, Bind, Known, GetContainer, GetTask, UpperDir, DeleteRecord,
     EnsureImage, RemoveSnapshot, Prepare, CreateContainer, CreateTask, Start, Insert, Map
<1>1. CASE Bind(c)
  <2>1. /\ proc'[a] = proc[a] /\ snap'[a] = snap[a] /\ containers'[a] = containers[a]
        /\ a \in record' <=> a \in record
        /\ a \in started' <=> a \in started
    BY <1>0, <1>1 DEF Bind, Goto, Reply, maps, containerd, MapsOK, AgentFor
  <2>2. pc'[c] \in Ensuring => AgentOf[who'[c]] # a
    BY <1>0, <1>1 DEF Bind, RequestsOK, Ensuring, AgentFor, Goto, Reply
  <2>3. QED  BY <1>0, <2>1, <2>2 DEF Aside
<1>2. CASE Known(c)
  <2>1. /\ proc'[a] = proc[a] /\ snap'[a] = snap[a] /\ containers'[a] = containers[a]
        /\ a \in record' <=> a \in record
        /\ a \in started' <=> a \in started
    BY <1>0, <1>2 DEF Known, maps, containerd, MapsOK, AgentFor
  <2>2. pc'[c] \in Ensuring => AgentOf[who'[c]] # a
    BY <1>0, <1>2 DEF Known, Ensuring, AgentFor
  <2>3. QED  BY <1>0, <2>1, <2>2 DEF Aside
<1>3. CASE GetContainer(c)
  <2>1. /\ proc'[a] = proc[a] /\ snap'[a] = snap[a] /\ containers'[a] = containers[a]
        /\ a \in record' <=> a \in record
        /\ a \in started' <=> a \in started
    BY <1>0, <1>3 DEF GetContainer, Lookup, maps, containerd, MapsOK, AgentFor
  <2>2. pc'[c] \in Ensuring => AgentOf[who'[c]] # a
    BY <1>0, <1>3 DEF GetContainer, Ensuring, AgentFor
  <2>3. QED  BY <1>0, <2>1, <2>2 DEF Aside
<1>4. CASE GetTask(c)
  <2>1. /\ proc'[a] = proc[a] /\ snap'[a] = snap[a] /\ containers'[a] = containers[a]
        /\ a \in record' <=> a \in record
        /\ a \in started' <=> a \in started
    BY <1>0, <1>4 DEF GetTask, Lookup, maps, containerd, MapsOK, AgentFor
  <2>2. pc'[c] \in Ensuring => AgentOf[who'[c]] # a
    BY <1>0, <1>4 DEF GetTask, Ensuring, AgentFor
  <2>3. QED  BY <1>0, <2>1, <2>2 DEF Aside
<1>5. CASE UpperDir(c)
  <2>1. /\ proc'[a] = proc[a] /\ snap'[a] = snap[a] /\ containers'[a] = containers[a]
        /\ a \in record' <=> a \in record
        /\ a \in started' <=> a \in started
    BY <1>0, <1>5 DEF UpperDir, maps, containerd, MapsOK, AgentFor
  <2>2. pc'[c] \in Ensuring => AgentOf[who'[c]] # a
    BY <1>0, <1>5 DEF UpperDir, Ensuring, AgentFor
  <2>3. QED  BY <1>0, <2>1, <2>2 DEF Aside
<1>6. CASE DeleteRecord(c)
  <2>1. /\ proc'[a] = proc[a] /\ snap'[a] = snap[a] /\ containers'[a] = containers[a]
        /\ a \in record' <=> a \in record
        /\ a \in started' <=> a \in started
    BY <1>0, <1>6 DEF DeleteRecord, maps, containerd, MapsOK, AgentFor
  <2>2. pc'[c] \in Ensuring => AgentOf[who'[c]] # a
    BY <1>0, <1>6 DEF DeleteRecord, Ensuring, AgentFor
  <2>3. QED  BY <1>0, <2>1, <2>2 DEF Aside
<1>7. CASE EnsureImage(c)
  <2>1. /\ proc'[a] = proc[a] /\ snap'[a] = snap[a] /\ containers'[a] = containers[a]
        /\ a \in record' <=> a \in record
        /\ a \in started' <=> a \in started
    BY <1>0, <1>7 DEF EnsureImage, Attempt, maps, containerd, MapsOK, AgentFor
  <2>2. pc'[c] \in Ensuring => AgentOf[who'[c]] # a
    BY <1>0, <1>7 DEF EnsureImage, Ensuring, AgentFor
  <2>3. QED  BY <1>0, <2>1, <2>2 DEF Aside
<1>8. CASE RemoveSnapshot(c)
  <2>1. /\ proc'[a] = proc[a] /\ snap'[a] = snap[a] /\ containers'[a] = containers[a]
        /\ a \in record' <=> a \in record
        /\ a \in started' <=> a \in started
    BY <1>0, <1>8 DEF RemoveSnapshot, maps, containerd, MapsOK, AgentFor
  <2>2. pc'[c] \in Ensuring => AgentOf[who'[c]] # a
    BY <1>0, <1>8 DEF RemoveSnapshot, Ensuring, AgentFor
  <2>3. QED  BY <1>0, <2>1, <2>2 DEF Aside
<1>9. CASE Prepare(c)
  <2>1. /\ proc'[a] = proc[a] /\ snap'[a] = snap[a] /\ containers'[a] = containers[a]
        /\ a \in record' <=> a \in record
        /\ a \in started' <=> a \in started
    BY <1>0, <1>9 DEF Prepare, Attempt, maps, containerd, MapsOK, AgentFor
  <2>2. pc'[c] \in Ensuring => AgentOf[who'[c]] # a
    BY <1>0, <1>9 DEF Prepare, Ensuring, AgentFor
  <2>3. QED  BY <1>0, <2>1, <2>2 DEF Aside
<1>10. CASE CreateContainer(c)
  <2>1. /\ proc'[a] = proc[a] /\ snap'[a] = snap[a] /\ containers'[a] = containers[a]
        /\ a \in record' <=> a \in record
        /\ a \in started' <=> a \in started
    BY <1>0, <1>10 DEF CreateContainer, Attempt, maps, containerd, MapsOK, AgentFor
  <2>2. pc'[c] \in Ensuring => AgentOf[who'[c]] # a
    BY <1>0, <1>10 DEF CreateContainer, Ensuring, AgentFor
  <2>3. QED  BY <1>0, <2>1, <2>2 DEF Aside
<1>11. CASE CreateTask(c)
  <2>1. /\ proc'[a] = proc[a] /\ snap'[a] = snap[a] /\ containers'[a] = containers[a]
        /\ a \in record' <=> a \in record
        /\ a \in started' <=> a \in started
    BY <1>0, <1>11 DEF CreateTask, Attempt, maps, containerd, MapsOK, AgentFor
  <2>2. pc'[c] \in Ensuring => AgentOf[who'[c]] # a
    BY <1>0, <1>11 DEF CreateTask, Ensuring, AgentFor
  <2>3. QED  BY <1>0, <2>1, <2>2 DEF Aside
<1>12. CASE Start(c)
  <2>1. /\ proc'[a] = proc[a] /\ snap'[a] = snap[a] /\ containers'[a] = containers[a]
        /\ a \in record' <=> a \in record
        /\ a \in started' <=> a \in started
    BY <1>0, <1>12 DEF Start, Attempt, maps, containerd, MapsOK, AgentFor
  <2>2. pc'[c] \in Ensuring => AgentOf[who'[c]] # a
    BY <1>0, <1>12 DEF Start, Ensuring, AgentFor
  <2>3. QED  BY <1>0, <2>1, <2>2 DEF Aside
<1>13. CASE Insert(c)
  <2>1. /\ proc'[a] = proc[a] /\ snap'[a] = snap[a] /\ containers'[a] = containers[a]
        /\ a \in record' <=> a \in record
        /\ a \in started' <=> a \in started
    BY <1>0, <1>13 DEF Insert, maps, containerd, MapsOK, AgentFor
  <2>2. pc'[c] \in Ensuring => AgentOf[who'[c]] # a
    BY <1>0, <1>13 DEF Insert, Ensuring, AgentFor
  <2>3. QED  BY <1>0, <2>1, <2>2 DEF Aside
<1>14. CASE Map(c)
  <2>1. /\ proc'[a] = proc[a] /\ snap'[a] = snap[a] /\ containers'[a] = containers[a]
        /\ a \in record' <=> a \in record
        /\ a \in started' <=> a \in started
    BY <1>0, <1>14 DEF Map, Reply, maps, containerd, MapsOK, AgentFor
  <2>2. pc'[c] \in Ensuring => AgentOf[who'[c]] # a
    BY <1>0, <1>14 DEF Map, RequestsOK, Ensuring, AgentFor, Goto, Reply
  <2>3. QED  BY <1>0, <2>1, <2>2 DEF Aside
<1>15. QED
  BY <1>1, <1>2, <1>3, <1>4, <1>5, <1>6, <1>7, <1>8, <1>9, <1>10, <1>11, <1>12, <1>13, <1>14 DEF Step

LEMMA Elsewhere ==
  ASSUME TypeOK, NEW c \in Client, Step(c), NEW a \in Agent, Quiet(a),
         pc[c] = "bind" \/ pc[c] = "map" \/ AgentFor(c) # a
  PROVE  Quiet(a)'
BY ElsewhereStays, Frame DEF Aside

LEMMA OwnSteps ==
  ASSUME TypeOK, NEW c \in Client, Step(c), NEW a \in Agent, Quiet(a),
         pc[c] \in Ensuring, AgentFor(c) = a, a \notin disturbed'
  PROVE  Quiet(a)'
<1>0. RequestsOK /\ MapsOK /\ OthersStay(c) /\ pc[c] # "idle"
  BY TypeParts, Movement DEF Ensuring
<1>q. /\ proc[a] # None => snap[a] = proc[a] /\ a \in record
      /\ containers[a] # None => proc[a] = containers[a]
      /\ pc[c] \in BeforeTask => proc[a] = None
      /\ pc[c] = "upperdir" => proc[a] # None
      /\ pc[c] \in {"start", "insert"} => proc[a] = path[c]
  BY DEF Quiet
<1>p. pc[c] \in WithPath => path[c] # None
  BY <1>0 DEF RequestsOK
<1>m. \A l : Reply(c) \/ Goto(c, l) => pc'[c] \in {"idle", l}
  BY <1>0 DEF Reply, Goto, RequestsOK
<1>1. CASE Bind(c) \/ Known(c) \/ Map(c)
  BY <1>1 DEF Bind, Known, Map, Ensuring
<1>2. CASE GetContainer(c)
  <2>1. /\ proc'[a] # None => snap'[a] = proc'[a] /\ a \in record'
        /\ containers'[a] # None => proc'[a] = containers'[a]
    BY <1>0, <1>q, <1>2 DEF GetContainer, Lookup, maps, containerd, BeforeTask
  <2>2. /\ pc'[c] \in BeforeTask => proc'[a] = None
        /\ pc'[c] = "upperdir" => proc'[a] # None
        /\ pc'[c] \in {"start", "insert"} => proc'[a] = path'[c]
    BY <1>0, <1>q, <1>m, <1>2 DEF GetContainer, Lookup, maps, containerd, BeforeTask
  <2>3. QED  BY <1>0, <2>1, <2>2, OwnStep
<1>3. CASE GetTask(c)
  <2>1. /\ proc'[a] # None => snap'[a] = proc'[a] /\ a \in record'
        /\ containers'[a] # None => proc'[a] = containers'[a]
    BY <1>0, <1>q, <1>3 DEF GetTask, Lookup, maps, containerd, BeforeTask
  <2>2. /\ pc'[c] \in BeforeTask => proc'[a] = None
        /\ pc'[c] = "upperdir" => proc'[a] # None
        /\ pc'[c] \in {"start", "insert"} => proc'[a] = path'[c]
    BY <1>0, <1>q, <1>m, <1>3 DEF GetTask, Lookup, maps, containerd, BeforeTask
  <2>3. QED  BY <1>0, <2>1, <2>2, OwnStep
<1>4. CASE UpperDir(c)
  <2>1. /\ proc'[a] # None => snap'[a] = proc'[a] /\ a \in record'
        /\ containers'[a] # None => proc'[a] = containers'[a]
    BY <1>0, <1>q, <1>4 DEF UpperDir, maps, containerd, RequestsOK, BeforeTask
  <2>2. /\ pc'[c] \in BeforeTask => proc'[a] = None
        /\ pc'[c] = "upperdir" => proc'[a] # None
        /\ pc'[c] \in {"start", "insert"} => proc'[a] = path'[c]
    BY <1>0, <1>q, <1>m, <1>4 DEF UpperDir, maps, containerd, RequestsOK, BeforeTask
  <2>3. QED  BY <1>0, <2>1, <2>2, OwnStep
<1>5. CASE DeleteRecord(c)
  <2>1. /\ proc'[a] # None => snap'[a] = proc'[a] /\ a \in record'
        /\ containers'[a] # None => proc'[a] = containers'[a]
    BY <1>0, <1>q, <1>5 DEF DeleteRecord, maps, containerd, BeforeTask
  <2>2. /\ pc'[c] \in BeforeTask => proc'[a] = None
        /\ pc'[c] = "upperdir" => proc'[a] # None
        /\ pc'[c] \in {"start", "insert"} => proc'[a] = path'[c]
    BY <1>0, <1>q, <1>m, <1>5 DEF DeleteRecord, maps, containerd, BeforeTask
  <2>3. QED  BY <1>0, <2>1, <2>2, OwnStep
<1>6. CASE EnsureImage(c)
  <2>1. /\ proc'[a] # None => snap'[a] = proc'[a] /\ a \in record'
        /\ containers'[a] # None => proc'[a] = containers'[a]
    BY <1>0, <1>q, <1>6 DEF EnsureImage, Attempt, maps, containerd, BeforeTask
  <2>2. /\ pc'[c] \in BeforeTask => proc'[a] = None
        /\ pc'[c] = "upperdir" => proc'[a] # None
        /\ pc'[c] \in {"start", "insert"} => proc'[a] = path'[c]
    BY <1>0, <1>q, <1>m, <1>6 DEF EnsureImage, Attempt, maps, containerd, BeforeTask
  <2>3. QED  BY <1>0, <2>1, <2>2, OwnStep
<1>7. CASE RemoveSnapshot(c)
  <2>1. /\ proc'[a] # None => snap'[a] = proc'[a] /\ a \in record'
        /\ containers'[a] # None => proc'[a] = containers'[a]
    BY <1>0, <1>q, <1>7 DEF RemoveSnapshot, maps, containerd, MapsOK, BeforeTask
  <2>2. /\ pc'[c] \in BeforeTask => proc'[a] = None
        /\ pc'[c] = "upperdir" => proc'[a] # None
        /\ pc'[c] \in {"start", "insert"} => proc'[a] = path'[c]
    BY <1>0, <1>q, <1>m, <1>7 DEF RemoveSnapshot, maps, containerd, MapsOK, BeforeTask
  <2>3. QED  BY <1>0, <2>1, <2>2, OwnStep
<1>8. CASE Prepare(c)
  <2>1. proc[a] = None /\ proc' = proc /\ containers' = containers
    BY <1>0, <1>q, <1>8 DEF Prepare, Attempt, maps, containerd, BeforeTask
  <2>2. Reply(c) \/ Goto(c, "create")
    BY <1>8 DEF Prepare, Attempt
  <2>3. pc'[c] \in {"idle", "create"}
    BY <1>m, <2>2
  <2>4. QED  BY <1>0, <1>q, <2>1, <2>3, OwnStep DEF BeforeTask
<1>9. CASE CreateContainer(c)
  <2>1. /\ proc'[a] # None => snap'[a] = proc'[a] /\ a \in record'
        /\ containers'[a] # None => proc'[a] = containers'[a]
    BY <1>0, <1>q, <1>9 DEF CreateContainer, Attempt, maps, containerd, BeforeTask
  <2>2. /\ pc'[c] \in BeforeTask => proc'[a] = None
        /\ pc'[c] = "upperdir" => proc'[a] # None
        /\ pc'[c] \in {"start", "insert"} => proc'[a] = path'[c]
    BY <1>0, <1>q, <1>m, <1>9 DEF CreateContainer, Attempt, maps, containerd, BeforeTask
  <2>3. QED  BY <1>0, <2>1, <2>2, OwnStep
<1>10. CASE CreateTask(c)
  <2>1. /\ proc'[a] # None => snap'[a] = proc'[a] /\ a \in record'
        /\ containers'[a] # None => proc'[a] = containers'[a]
    BY <1>0, <1>q, <1>10 DEF CreateTask, Attempt, maps, containerd, MapsOK, BeforeTask
  <2>2. \/ Reply(c) /\ proc' = proc
        \/ Goto(c, "start") /\ path' = path /\ proc' = [proc EXCEPT ![a] = path[c]]
    BY <1>10 DEF CreateTask, Attempt, containerd
  <2>3. CASE Reply(c) /\ proc' = proc
    BY <1>0, <1>m, <2>1, <2>3, OwnStep DEF BeforeTask, Reply, RequestsOK
  <2>4. CASE Goto(c, "start") /\ path' = path /\ proc' = [proc EXCEPT ![a] = path[c]]
    <3>1. pc'[c] = "start" /\ proc'[a] = path'[c]
      BY <1>0, <2>4 DEF Goto, RequestsOK, MapsOK
    <3>2. QED  BY <1>0, <2>1, <3>1, OwnStep DEF BeforeTask
  <2>5. QED  BY <2>2, <2>3, <2>4
<1>11. CASE Start(c)
  <2>1. /\ proc'[a] # None => snap'[a] = proc'[a] /\ a \in record'
        /\ containers'[a] # None => proc'[a] = containers'[a]
    BY <1>0, <1>q, <1>11 DEF Start, Attempt, maps, containerd, BeforeTask
  <2>2. /\ pc'[c] \in BeforeTask => proc'[a] = None
        /\ pc'[c] = "upperdir" => proc'[a] # None
        /\ pc'[c] \in {"start", "insert"} => proc'[a] = path'[c]
    BY <1>0, <1>q, <1>m, <1>11 DEF Start, Attempt, maps, containerd, BeforeTask
  <2>3. QED  BY <1>0, <2>1, <2>2, OwnStep
<1>12. CASE Insert(c)
  <2>1. pc'[c] \in {"idle", "map"}
    BY <1>0, <1>m, <1>12 DEF Insert, Ensured
  <2>2. proc'[a] = proc[a] /\ snap'[a] = snap[a] /\ record' = record
        /\ containers'[a] = path[c] /\ proc[a] = path[c]
    BY <1>0, <1>q, <1>12 DEF Insert, containerd, MapsOK
  <2>3. QED  BY <1>0, <1>q, <2>1, <2>2, OwnStep DEF BeforeTask
<1>13. QED
  BY <1>1, <1>2, <1>3, <1>4, <1>5, <1>6, <1>7, <1>8, <1>9, <1>10, <1>11, <1>12 DEF Step

LEMMA DisturbedGrows ==
  ASSUME [Next]_vars
  PROVE  disturbed \subseteq disturbed'
<1>1. ASSUME NEW c \in Client, Step(c)
      PROVE  disturbed \subseteq disturbed'
  <2>1. CASE Bind(c) \/ Insert(c) \/ Map(c)
    BY <2>1 DEF Bind, Insert, Map, books
  <2>2. CASE Known(c) \/ GetContainer(c) \/ GetTask(c) \/ UpperDir(c)
    BY <2>2 DEF Known, GetContainer, GetTask, UpperDir, Lookup
  <2>3. CASE DeleteRecord(c) \/ EnsureImage(c) \/ RemoveSnapshot(c) \/ Prepare(c)
             \/ CreateContainer(c) \/ CreateTask(c) \/ Start(c)
    BY <2>3 DEF DeleteRecord, EnsureImage, RemoveSnapshot, Prepare, CreateContainer,
       CreateTask, Start
  <2>4. QED  BY <1>1, <2>1, <2>2, <2>3 DEF Step
<1>2. QED
  BY <1>1 DEF Next, Register, Revoke, Handshake, Exec, Expire, Cancel, Crash, Reboot, Restart,
     books, vars

LEMMA PathStep ==
  ASSUME TypeOK, PathInv, [Next]_vars
  PROVE  PathInv'
<1>0. RequestsOK /\ MapsOK
  BY TypeParts
<1>1. disturbed \subseteq disturbed'
  BY DisturbedGrows
<1> SUFFICES ASSUME NEW a \in Agent, a \notin disturbed'
             PROVE  Quiet(a)'
  BY DEF PathInv
<1>2. Quiet(a)
  BY <1>1 DEF PathInv
<1>3. ASSUME NEW c \in Client, Step(c)
      PROVE  Quiet(a)'
  <2>1. CASE pc[c] = "bind" \/ pc[c] = "map" \/ AgentFor(c) # a
    BY <1>2, <1>3, <2>1, Elsewhere
  <2>2. CASE pc[c] \in Ensuring /\ AgentFor(c) = a
    BY <1>2, <1>3, <2>2, OwnSteps
  <2>3. CASE pc[c] = "known" /\ AgentFor(c) = a
    <3>1. Known(c)
      BY <1>3, <2>3 DEF Step, Bind, Known, GetContainer, GetTask, UpperDir, DeleteRecord,
         EnsureImage, RemoveSnapshot, Prepare, CreateContainer, CreateTask, Start, Insert, Map
    <3>2. OthersStay(c) /\ UNCHANGED <<maps, containerd>>
      BY <1>0, <1>3, <3>1, Movement DEF Known
    <3>3. CASE containers[a] # None
      <4>1. pc'[c] \notin Ensuring
        BY <1>0, <2>3, <3>1, <3>3 DEF Known, Ensured, Goto, Reply, Ensuring, RequestsOK
      <4>2. QED  BY <1>2, <3>2, <4>1, Frame DEF maps, containerd
    <3>4. CASE containers[a] = None
      <4>1. pc'[c] = "get"
        BY <1>0, <2>3, <3>1, <3>4 DEF Known, Goto, RequestsOK
      <4>2. \A d \in Client : ~(pc[d] \in Ensuring /\ AgentFor(d) = a)
        BY <2>3, <3>1, <3>4 DEF Known
      <4>3. \A d \in Client \ {c} : ~(pc'[d] \in Ensuring /\ AgentOf[who'[d]] = a)
        BY <3>2, <4>2 DEF OthersStay, AgentFor
      <4>4. QED
        BY <1>2, <3>2, <4>1, <4>3 DEF Quiet, AgentFor, BeforeTask, maps, containerd
    <3>5. QED  BY <3>3, <3>4
  <2>4. pc[c] \in Busy
    BY <1>3, <1>0 DEF Step, Bind, Known, GetContainer, GetTask, UpperDir, DeleteRecord,
       EnsureImage, RemoveSnapshot, Prepare, CreateContainer, CreateTask, Start, Insert, Map,
       Busy, Ensuring
  <2>5. QED  BY <2>1, <2>2, <2>3, <2>4 DEF Busy
<1>4. ASSUME NEW c \in Client, (\E t \in Token : Handshake(c, t)) \/ Exec(c) \/ Cancel(c)
      PROVE  Quiet(a)'
  <2>1. OthersStay(c) /\ pc'[c] \notin Ensuring /\ UNCHANGED <<containers, containerd>>
    BY <1>0, <1>4 DEF Handshake, Exec, Cancel, OthersStay, RequestsOK, Ensuring, maps
  <2>2. QED  BY <1>2, <2>1, Frame DEF containerd
<1>5. CASE Crash \/ Reboot
  <2>1. Restart /\ (proc' = proc \/ proc' = [b \in Agent |-> None])
    BY <1>5 DEF Crash, Reboot
  <2>2. /\ proc'[a] # None => proc'[a] = proc[a]
        /\ snap' = snap /\ record' = record /\ containers'[a] = None
        /\ \A c \in Client : pc'[c] \notin Ensuring
    BY <2>1 DEF Restart, Ensuring
  <2>3. QED  BY <1>2, <2>2 DEF Quiet
<1>6. CASE \/ \E t \in Token : Register(t) \/ Revoke(t)
           \/ \E e \in sessions : Expire(e)
           \/ UNCHANGED vars
  <2>1. UNCHANGED <<maps, containerd, handlers>>
    BY <1>6 DEF Register, Revoke, Expire, vars
  <2>2. QED  BY <1>2, <2>1 DEF Quiet, AgentFor, maps, containerd, handlers
<1>7. QED  BY <1>3, <1>4, <1>5, <1>6 DEF Next

LEMMA PathInvariant == Spec => []PathInv
<1>1. Init => PathInv
  BY DEF Init, PathInv, Quiet, Ensuring
<1>2. TypeOK /\ PathInv /\ [Next]_vars => PathInv'
  BY PathStep
<1>3. QED  BY <1>1, <1>2, TypeCorrect, PTL DEF Spec

\* Whatever fails, is cut short or restarts between two containerd calls, the
\* host path on record is the snapshot that the agent's container mounts, for
\* every agent whose ensures did not overlap and whose lookups did not fail.
THEOREM HostPathAlwaysLive == Spec => []HostPathLive
<1>1. PathInv => HostPathLive
  BY DEF PathInv, Quiet, HostPathLive, Live
<1>2. QED  BY <1>1, PathInvariant, PTL

-------------------------------------------------------------------------------
(* What an ensure finds.  Cancelled calls, failed ensures and restarts leave *)
(* records, tasks and snapshots in containerd at any stage.  As long as      *)
(* deletions do what they are asked to, an undisturbed ensure has cleared    *)
(* away what would make its own calls impossible.                            *)
Ready(a) ==
    \A c \in Client : pc[c] \in Ensuring /\ AgentFor(c) = a =>
        /\ pc[c] \in {"image", "remove", "prepare", "create"} => a \notin record
        /\ pc[c] = "prepare" => snap[a] = None
        /\ pc[c] \in {"create", "create_task"} => snap[a] = path[c]
        /\ pc[c] = "create_task" => a \in record
        /\ pc[c] = "start" => a \notin started

ReadyInv == \A a \in Agent \ disturbed : Ready(a)

\* c's deletion fails, and c goes on all the same.
CleanupFails(c) ==
    /\ pc[c] \in {"delete", "remove"}
    /\ pc'[c] \in Ensuring \ {pc[c]}
    /\ faults' # faults

CleanupsWork == \A c \in Client : ~CleanupFails(c)

\* c's ensure ends without a container though nothing failed.
EnsureFails(c) ==
    /\ pc[c] \in Ensuring \ {"insert"} /\ pc'[c] = "idle"
    /\ faults' = faults

LEMMA ReadyStays ==
  ASSUME NEW a \in Agent, Ready(a), NEW c \in Client, OthersStay(c),
         snap'[a] = snap[a], a \in record' <=> a \in record, a \in started' <=> a \in started,
         pc'[c] \in Ensuring \ {"get"} => AgentOf[who'[c]] # a
  PROVE  Ready(a)'
BY DEF Ready, OthersStay, AgentFor

LEMMA ReadyOwn ==
  ASSUME NEW a \in Agent, Quiet(a), NEW c \in Client, OthersStay(c),
         pc[c] \in Ensuring, AgentFor(c) = a,
         pc'[c] \in {"image", "remove", "prepare", "create"} => a \notin record',
         pc'[c] = "prepare" => snap'[a] = None,
         pc'[c] \in {"create", "create_task"} => snap'[a] = path'[c],
         pc'[c] = "create_task" => a \in record',
         pc'[c] = "start" => a \notin started'
  PROVE  Ready(a)'
<1>1. \A d \in Client \ {c} : ~(pc'[d] \in Ensuring /\ AgentOf[who'[d]] = a)
  BY DEF Quiet, OthersStay, AgentFor
<1>2. QED  BY <1>1 DEF Ready, AgentFor

LEMMA OwnReady ==
  ASSUME TypeOK, CleanupsWork, NEW c \in Client, Step(c), NEW a \in Agent, Quiet(a), Ready(a),
         pc[c] \in Ensuring, AgentFor(c) = a, a \notin disturbed'
  PROVE  Ready(a)' /\ ~EnsureFails(c)
<1>0. RequestsOK /\ MapsOK /\ OthersStay(c) /\ pc[c] # "idle"
  BY TypeParts, Movement DEF Ensuring
<1>q. /\ proc[a] # None => a \in record
      /\ pc[c] \in BeforeTask => proc[a] = None
      /\ pc[c] = "start" => proc[a] = path[c]
  BY DEF Quiet
<1>r. /\ pc[c] \in {"image", "remove", "prepare", "create"} => a \notin record
      /\ pc[c] = "prepare" => snap[a] = None
      /\ pc[c] \in {"create", "create_task"} => snap[a] = path[c]
      /\ pc[c] = "create_task" => a \in record
      /\ pc[c] = "start" => a \notin started
  BY DEF Ready
<1>s. a \in started => proc[a] # None
  BY <1>0 DEF MapsOK
<1>p. pc[c] \in WithPath => path[c] # None
  BY <1>0 DEF RequestsOK
<1>m. \A l : Goto(c, l) => pc'[c] = l
  BY <1>0 DEF Goto, RequestsOK
<1>i. Reply(c) => pc'[c] = "idle"
  BY <1>0 DEF Reply, RequestsOK
<1>n. Fault => faults' # faults
  BY <1>0 DEF Fault, MapsOK
<1>1. CASE Bind(c) \/ Known(c) \/ Map(c)
  BY <1>1 DEF Bind, Known, Map, Ensuring
<1>2. CASE GetContainer(c)
  <2>1. Goto(c, "get_task") \/ (a \notin record /\ Goto(c, "image"))
    BY <1>0, <1>2 DEF GetContainer, Lookup
  <2>2. record' = record
    BY <1>2 DEF GetContainer, Lookup, containerd
  <2>3. QED  BY <1>0, <1>m, <2>1, <2>2, ReadyOwn DEF EnsureFails
<1>3. CASE GetTask(c)
  <2>1. Goto(c, "upperdir") \/ Goto(c, "delete")
    BY <1>3 DEF GetTask, Lookup
  <2>2. QED  BY <1>0, <1>m, <2>1, ReadyOwn DEF EnsureFails
<1>4. CASE UpperDir(c)
  BY <1>0, <1>m, <1>4, ReadyOwn DEF UpperDir, EnsureFails
<1>5. CASE DeleteRecord(c)
  <2>1. pc[c] = "delete" /\ pc'[c] = "image"
    BY <1>m, <1>5 DEF DeleteRecord
  <2>2. ~Fault
    BY <1>n, <2>1 DEF CleanupsWork, CleanupFails, Ensuring
  <2>3. record' = record \ {a}
    BY <1>5, <2>2 DEF DeleteRecord
  <2>4. QED  BY <1>0, <2>1, <2>3, ReadyOwn DEF EnsureFails
<1>6. CASE EnsureImage(c)
  <2>1. (Goto(c, "remove") \/ (Fault /\ Reply(c))) /\ record' = record
    BY <1>6 DEF EnsureImage, Attempt, containerd
  <2>2. pc[c] = "image"
    BY <1>6 DEF EnsureImage
  <2>3. QED  BY <1>0, <1>r, <1>m, <1>i, <1>n, <2>1, <2>2, ReadyOwn DEF EnsureFails
<1>7. CASE RemoveSnapshot(c)
  <2>1. pc[c] = "remove" /\ pc'[c] = "prepare" /\ record' = record
    BY <1>m, <1>7 DEF RemoveSnapshot
  <2>2. ~Fault
    BY <1>n, <2>1 DEF CleanupsWork, CleanupFails, Ensuring
  <2>3. snap'[a] = None
    BY <1>0, <1>7, <2>2 DEF RemoveSnapshot, MapsOK
  <2>4. QED  BY <1>0, <1>r, <2>1, <2>3, ReadyOwn DEF EnsureFails
<1>8. CASE Prepare(c)
  <2>1. pc[c] = "prepare" /\ snap[a] = None /\ a \notin record
    BY <1>8, <1>r DEF Prepare
  <2>2. \/ Fault /\ Reply(c)
        \/ /\ Goto(c, "create") /\ record' = record
           /\ \E g : snap' = [snap EXCEPT ![a] = g] /\ path' = [path EXCEPT ![c] = g]
    BY <1>8, <2>1 DEF Prepare, Attempt
  <2>3. CASE Fault /\ Reply(c)
    BY <1>0, <1>i, <1>n, <2>3, ReadyOwn DEF EnsureFails
  <2>4. CASE ~(Fault /\ Reply(c))
    <3>1. pc'[c] = "create" /\ record' = record /\ snap'[a] = path'[c]
      BY <1>0, <1>m, <2>2, <2>4 DEF MapsOK, RequestsOK
    <3>2. QED  BY <1>0, <2>1, <3>1, ReadyOwn DEF EnsureFails
  <2>5. QED  BY <2>3, <2>4
<1>9. CASE CreateContainer(c)
  <2>1. pc[c] = "create" /\ a \notin record /\ snap[a] = path[c]
    BY <1>9, <1>r DEF CreateContainer
  <2>2. \/ Fault /\ Reply(c)
        \/ Goto(c, "create_task") /\ record' = record \cup {a} /\ UNCHANGED <<snap, path>>
    BY <1>9, <2>1 DEF CreateContainer, Attempt
  <2>3. QED  BY <1>0, <1>m, <1>i, <1>n, <2>1, <2>2, ReadyOwn DEF EnsureFails
<1>10. CASE CreateTask(c)
  <2>1. pc[c] = "create_task" /\ a \in record /\ snap[a] = path[c] /\ proc[a] = None
    BY <1>10, <1>r, <1>q DEF CreateTask, BeforeTask
  <2>2. (Fault /\ Reply(c)) \/ (Goto(c, "start") /\ started' = started)
    BY <1>10, <2>1 DEF CreateTask, Attempt
  <2>3. QED  BY <1>0, <1>s, <1>m, <1>i, <1>n, <2>1, <2>2, ReadyOwn DEF EnsureFails
<1>11. CASE Start(c)
  <2>1. pc[c] = "start" /\ proc[a] # None /\ a \notin started
    BY <1>11, <1>q, <1>p, <1>r DEF Start, WithPath
  <2>2. (Fault /\ Reply(c)) \/ Goto(c, "insert")
    BY <1>11, <2>1 DEF Start, Attempt
  <2>3. QED  BY <1>0, <1>m, <1>i, <1>n, <2>2, ReadyOwn DEF EnsureFails
<1>12. CASE Insert(c)
  <2>1. pc[c] = "insert" /\ pc'[c] \in {"idle", "map"}
    BY <1>m, <1>i, <1>12 DEF Insert, Ensured
  <2>2. QED  BY <1>0, <2>1, ReadyOwn DEF EnsureFails
<1>13. QED
  BY <1>1, <1>2, <1>3, <1>4, <1>5, <1>6, <1>7, <1>8, <1>9, <1>10, <1>11, <1>12 DEF Step

LEMMA ReadyStep ==
  ASSUME TypeOK, PathInv, ReadyInv, [Next]_vars, [CleanupsWork]_vars
  PROVE  ReadyInv'
<1>0. RequestsOK /\ MapsOK
  BY TypeParts
<1> SUFFICES ASSUME NEW a \in Agent, a \notin disturbed'
             PROVE  Ready(a)'
  BY DEF ReadyInv
<1>1. Quiet(a) /\ Ready(a)
  BY DisturbedGrows DEF PathInv, ReadyInv
<1>2. ASSUME NEW c \in Client, Step(c), CleanupsWork
      PROVE  Ready(a)'
  <2>1. CASE pc[c] = "bind" \/ pc[c] = "map" \/ AgentFor(c) # a
    BY <1>1, <1>2, <2>1, ElsewhereStays, ReadyStays DEF Aside
  <2>2. CASE pc[c] \in Ensuring /\ AgentFor(c) = a
    BY <1>1, <1>2, <2>2, OwnReady
  <2>3. CASE pc[c] = "known"
    <3>1. Known(c)
      BY <1>2, <2>3 DEF Step, Bind, Known, GetContainer, GetTask, UpperDir, DeleteRecord,
         EnsureImage, RemoveSnapshot, Prepare, CreateContainer, CreateTask, Start, Insert, Map
    <3>2. OthersStay(c) /\ UNCHANGED containerd
      BY <1>0, <1>2, <3>1, Movement DEF Known
    <3>3. pc'[c] \notin Ensuring \ {"get"}
      BY <1>0, <3>1 DEF Known, Ensured, Goto, Reply, Ensuring, RequestsOK
    <3>4. QED  BY <1>1, <3>2, <3>3, ReadyStays DEF containerd
  <2>4. pc[c] \in Busy
    BY <1>2, <1>0 DEF Step, Bind, Known, GetContainer, GetTask, UpperDir, DeleteRecord,
       EnsureImage, RemoveSnapshot, Prepare, CreateContainer, CreateTask, Start, Insert, Map,
       Busy, Ensuring
  <2>5. QED  BY <2>1, <2>2, <2>3, <2>4 DEF Busy
<1>3. ASSUME NEW c \in Client, (\E t \in Token : Handshake(c, t)) \/ Exec(c) \/ Cancel(c)
      PROVE  Ready(a)'
  <2>1. OthersStay(c) /\ pc'[c] \notin Ensuring /\ UNCHANGED containerd
    BY <1>0, <1>3 DEF Handshake, Exec, Cancel, OthersStay, RequestsOK, Ensuring
  <2>2. QED  BY <1>1, <2>1, ReadyStays DEF containerd
<1>4. CASE Crash \/ Reboot
  <2>1. \A c \in Client : pc'[c] \notin Ensuring
    BY <1>4 DEF Crash, Reboot, Restart, Ensuring
  <2>2. QED  BY <2>1 DEF Ready
<1>5. CASE \/ \E t \in Token : Register(t) \/ Revoke(t)
           \/ \E e \in sessions : Expire(e)
           \/ UNCHANGED vars
  <2>1. UNCHANGED <<containerd, handlers>>
    BY <1>5 DEF Register, Revoke, Expire, vars
  <2>2. QED  BY <1>1, <2>1 DEF Ready, AgentFor, containerd, handlers
<1>6. CASE UNCHANGED vars
  BY <1>5, <1>6
<1>7. QED  BY <1>2, <1>3, <1>4, <1>5, <1>6 DEF Next

LEMMA FailuresHaveCauses ==
  ASSUME TypeOK, PathInv, ReadyInv, [Next]_vars, [CleanupsWork]_vars,
         NEW c \in Client, EnsureFails(c), AgentFor(c) \notin disturbed
  PROVE  FALSE
<1>0. RequestsOK /\ MapsOK /\ pc[c] # "idle" /\ pc'[c] = "idle" /\ faults' = faults
  BY TypeParts DEF EnsureFails, Ensuring
<1>1. AgentFor(c) \in Agent
  BY <1>0, AgentForType
<1>2. Quiet(AgentFor(c)) /\ Ready(AgentFor(c))
  BY <1>1 DEF PathInv, ReadyInv
<1>3. ASSUME NEW d \in Client, Step(d), CleanupsWork
      PROVE  FALSE
  <2>1. d = c
    BY <1>0, <1>3, Movement DEF OthersStay
  <2>2. ~Bind(c) /\ ~Known(c) /\ ~Map(c)
    BY DEF EnsureFails, Bind, Known, Map, Ensuring
  <2>3. ~GetContainer(c) /\ ~GetTask(c) /\ ~UpperDir(c)
    BY <1>0 DEF GetContainer, GetTask, UpperDir, Lookup, Goto, RequestsOK
  <2>4. disturbed' = disturbed
    BY <1>3, <2>1, <2>2, <2>3 DEF Step, DeleteRecord, EnsureImage, RemoveSnapshot, Prepare,
       CreateContainer, CreateTask, Start, Insert, books
  <2>5. QED  BY <1>1, <1>2, <1>3, <2>1, <2>4, OwnReady DEF EnsureFails
<1>4. ASSUME NEW d \in Client, (\E t \in Token : Handshake(d, t)) \/ Exec(d)
      PROVE  FALSE
  BY <1>0, <1>4 DEF Handshake, Exec, RequestsOK
<1>5. ~Fault
  BY <1>0 DEF Fault, MapsOK
<1>6. QED
  BY <1>0, <1>3, <1>4, <1>5 DEF Next, Register, Revoke, Expire, Cancel, Crash, Reboot, Restart,
     handlers, vars

LEMMA BareHasCauses ==
  ASSUME TypeOK, PathInv, NEW c \in Client, Insert(c), AgentFor(c) \notin disturbed \cup started
  PROVE  Stranded(AgentFor(c))
<1>1. RequestsOK /\ pc[c] = "insert" /\ pc[c] # "idle"
  BY TypeParts DEF Insert
<1>2. AgentFor(c) \in Agent /\ path[c] # None
  BY <1>1, AgentForType DEF RequestsOK, WithPath
<1>3. Quiet(AgentFor(c))
  BY <1>2 DEF PathInv
<1>4. proc[AgentFor(c)] # None
  BY <1>1, <1>2, <1>3 DEF Quiet, Ensuring
<1>5. ASSUME NEW d \in Client, pc[d] = "start", AgentFor(d) = AgentFor(c)
      PROVE  FALSE
  <2>1. pc[c] \in Ensuring /\ pc[d] \in Ensuring /\ c # d
    BY <1>1, <1>5 DEF Ensuring
  <2>2. QED  BY <1>3, <1>5, <2>1 DEF Quiet
<1>6. QED  BY <1>4, <1>5 DEF Stranded

\* c's ensure ends with an error, or registers a container that does not run,
\* though nothing has failed.
EndsBare(c) ==
    \/ EnsureFails(c)
    \/ Insert(c) /\ AgentFor(c) \notin started /\ ~Stranded(AgentFor(c))

\* What cancelled calls, failures and restarts have left behind does not stop an
\* ensure that no other overlaps and none of whose lookups and deletions fail:
\* it ends with an error only when a call of its own fails or it is cut short
\* itself, and it registers a container that does not run only when it has
\* found a task that nobody has started.
THEOREM EnsuresRepair ==
  Spec /\ [][CleanupsWork]_vars
    => [][\A c \in Client : EndsBare(c) => AgentFor(c) \in disturbed]_vars
<1>1. Init => ReadyInv
  BY DEF Init, ReadyInv, Ready, Ensuring
<1>2. TypeOK /\ PathInv /\ ReadyInv /\ [Next]_vars /\ [CleanupsWork]_vars => ReadyInv'
  BY ReadyStep
<1>3. TypeOK /\ PathInv /\ ReadyInv /\ [Next]_vars /\ [CleanupsWork]_vars
        => [\A c \in Client : EndsBare(c) => AgentFor(c) \in disturbed]_vars
  BY FailuresHaveCauses, BareHasCauses DEF EndsBare
<1>4. QED  BY <1>1, <1>2, <1>3, TypeCorrect, PathInvariant, PTL DEF Spec

(* The leftover that is not repaired.                                      *)

\* What a step does to the tasks in containerd: those of the agent it is for
\* may be created or started, and only a reboot ends any.
LEMMA TasksStep ==
  ASSUME TypeOK, [Next]_vars, NEW a \in Agent
  PROVE  \/ UNCHANGED <<proc, started>>
         \/ \E c \in Client : CreateTask(c) \/ Start(c)
         \/ Reboot
<1>1. ASSUME NEW c \in Client, Step(c), ~CreateTask(c), ~Start(c)
      PROVE  UNCHANGED <<proc, started>>
  <2>1. CASE Bind(c) \/ Known(c) \/ GetContainer(c) \/ GetTask(c) \/ UpperDir(c) \/ Insert(c)
             \/ Map(c)
    BY <2>1 DEF Bind, Known, GetContainer, GetTask, Lookup, UpperDir, Insert, Map, containerd
  <2>2. CASE DeleteRecord(c) \/ EnsureImage(c) \/ RemoveSnapshot(c) \/ Prepare(c)
             \/ CreateContainer(c)
    BY <2>2 DEF DeleteRecord, EnsureImage, RemoveSnapshot, Prepare, CreateContainer, Attempt,
       containerd
  <2>3. QED  BY <1>1, <2>1, <2>2 DEF Step
<1>2. QED
  BY <1>1 DEF Next, Register, Revoke, Handshake, Exec, Expire, Cancel, Crash, vars, containerd, Step

LEMMA CreateTaskEffect ==
  ASSUME TypeOK, NEW c \in Client, CreateTask(c), NEW a \in Agent
  PROVE  /\ started' = started
         /\ AgentFor(c) # a => proc'[a] = proc[a]
         /\ proc[a] # None => proc'[a] = proc[a] /\ (AgentFor(c) = a => pc'[c] = "idle")
         /\ proc[a] = None /\ proc'[a] # None => pc'[c] = "start" /\ AgentOf[who'[c]] = a
<1>1. RequestsOK /\ MapsOK
  BY TypeParts
<1>2. CASE Goto(c, "start") /\ proc[AgentFor(c)] = None /\ started' = started
           /\ proc' = [proc EXCEPT ![AgentFor(c)] = path[c]]
  BY <1>1, <1>2 DEF Goto, RequestsOK, MapsOK, AgentFor
<1>3. CASE Reply(c) /\ UNCHANGED <<proc, started>>
  BY <1>1, <1>3 DEF Reply, RequestsOK
<1>4. QED  BY <1>2, <1>3 DEF CreateTask, Attempt, containerd

LEMMA StartEffect ==
  ASSUME TypeOK, NEW c \in Client, Start(c), NEW a \in Agent
  PROVE  /\ proc' = proc
         /\ a \in started => a \in started'
         /\ AgentFor(c) # a => (a \in started' <=> a \in started)
         /\ \/ Fault
            \/ AgentFor(c) \in started'
            \/ proc'[AgentFor(c)] = None
<1>1. CASE started' = started \cup {AgentFor(c)} /\ proc' = proc
  BY <1>1
<1>2. CASE (Fault \/ proc[AgentFor(c)] = None \/ AgentFor(c) \in started)
           /\ UNCHANGED <<proc, started>>
  BY <1>2
<1>3. QED  BY <1>1, <1>2 DEF Start, Attempt, containerd

LEMMA ArrivesAtStart ==
  ASSUME TypeOK, [Next]_vars, NEW c \in Client, pc'[c] = "start", ~CreateTask(c)
  PROVE  pc[c] = "start" /\ who'[c] = who[c]
<1>0. RequestsOK
  BY TypeParts
<1>1. ASSUME NEW d \in Client, Step(d)
      PROVE  pc[c] = "start" /\ who'[c] = who[c]
  <2>1. CASE d # c
    BY <1>0, <1>1, <2>1, Movement DEF OthersStay
  <2>2. CASE d = c
    <3>1. Reply(c) \/ \E l \in (Ensuring \cup {"known", "map"}) \ {"start"} : Goto(c, l)
      <4>1. CASE Bind(c) \/ Known(c) \/ Insert(c) \/ Map(c)
        BY <4>1 DEF Bind, Known, Insert, Map, Ensured, Ensuring
      <4>2. CASE GetContainer(c) \/ GetTask(c) \/ UpperDir(c) \/ DeleteRecord(c)
                 \/ RemoveSnapshot(c)
        BY <4>2 DEF GetContainer, GetTask, Lookup, UpperDir, DeleteRecord, RemoveSnapshot,
           Ensuring
      <4>3. CASE EnsureImage(c) \/ Prepare(c) \/ CreateContainer(c) \/ Start(c)
        BY <4>3 DEF EnsureImage, Prepare, CreateContainer, Start, Attempt, Ensuring
      <4>4. QED  BY <1>1, <2>2, <4>1, <4>2, <4>3 DEF Step
    <3>2. QED  BY <1>0, <3>1 DEF Reply, Goto, RequestsOK
  <2>3. QED  BY <2>1, <2>2
<1>2. ASSUME NEW d \in Client, (\E t \in Token : Handshake(d, t)) \/ Exec(d) \/ Cancel(d)
      PROVE  pc[c] = "start" /\ who'[c] = who[c]
  BY <1>0, <1>2 DEF Handshake, Exec, Cancel, RequestsOK
<1>3. QED
  BY <1>1, <1>2 DEF Next, Register, Revoke, Expire, Crash, Reboot, Restart, vars, handlers

LEMMA LeavesStart ==
  ASSUME TypeOK, [Next]_vars, NEW c \in Client, pc[c] = "start", ~Start(c), faults' = faults
  PROVE  pc'[c] = "start" /\ who'[c] = who[c]
<1>0. RequestsOK /\ ~Fault
  BY TypeParts DEF Fault, MapsOK
<1>1. ASSUME NEW d \in Client, Step(d)
      PROVE  pc'[c] = "start" /\ who'[c] = who[c]
  <2>1. d # c
    BY <1>1 DEF Step, Bind, Known, GetContainer, GetTask, UpperDir, DeleteRecord, EnsureImage,
       RemoveSnapshot, Prepare, CreateContainer, CreateTask, Insert, Map
  <2>2. QED  BY <1>0, <1>1, <2>1, Movement DEF OthersStay
<1>2. ASSUME NEW d \in Client, (\E t \in Token : Handshake(d, t)) \/ Exec(d)
      PROVE  pc'[c] = "start" /\ who'[c] = who[c]
  BY <1>0, <1>2 DEF Handshake, Exec, RequestsOK
<1>3. QED
  BY <1>0, <1>1, <1>2 DEF Next, Register, Revoke, Expire, Cancel, Crash, Reboot, Restart, vars,
     handlers

LEMMA StrandedStays ==
  ASSUME TypeOK, [Next]_vars, NEW a \in Agent, Stranded(a), ~Reboot
  PROVE  Stranded(a)'
<1>1. /\ proc[a] # None /\ a \notin started
      /\ \A c \in Client : ~(pc[c] = "start" /\ AgentFor(c) = a)
  BY DEF Stranded
<1>2. proc'[a] # None /\ a \notin started'
  <2>1. ASSUME NEW c \in Client, CreateTask(c)
        PROVE  proc'[a] # None /\ a \notin started'
    BY <1>1, <2>1, CreateTaskEffect
  <2>2. ASSUME NEW c \in Client, Start(c)
        PROVE  proc'[a] # None /\ a \notin started'
    <3>1. AgentFor(c) # a
      BY <1>1, <2>2 DEF Start
    <3>2. QED  BY <1>1, <2>2, <3>1, StartEffect
  <2>3. QED  BY <1>1, <2>1, <2>2, TasksStep
<1>3. ASSUME NEW c \in Client, pc'[c] = "start", AgentOf[who'[c]] = a
      PROVE  FALSE
  <2>1. CASE CreateTask(c)
    <3>1. RequestsOK /\ who'[c] = who[c]
      BY <1>3, <2>1, TypeParts, Movement DEF Step
    <3>2. AgentFor(c) = a
      BY <1>3, <3>1 DEF AgentFor
    <3>3. QED  BY <1>1, <1>3, <2>1, <3>2, CreateTaskEffect
  <2>2. CASE ~CreateTask(c)
    BY <1>1, <1>3, <2>2, ArrivesAtStart DEF AgentFor
  <2>3. QED  BY <2>1, <2>2
<1>4. QED  BY <1>2, <1>3 DEF Stranded, AgentFor

LEMMA StrandedArises ==
  ASSUME TypeOK, [Next]_vars, NEW a \in Agent, ~Stranded(a), Stranded(a)'
  PROVE  faults' # faults
<1>0. RequestsOK /\ MapsOK
  BY TypeParts
<1>1. /\ proc'[a] # None /\ a \notin started'
      /\ \A c \in Client : ~(pc'[c] = "start" /\ AgentOf[who'[c]] = a)
  BY DEF Stranded, AgentFor
<1>2. ASSUME NEW c \in Client, pc[c] = "start", AgentFor(c) = a, faults' = faults
      PROVE  FALSE
  <2>1. CASE Start(c)
    <3>1. ~Fault
      BY <1>0, <1>2 DEF Fault, MapsOK
    <3>2. QED  BY <1>1, <1>2, <2>1, <3>1, StartEffect
  <2>2. CASE ~Start(c)
    BY <1>1, <1>2, <2>2, LeavesStart DEF AgentFor
  <2>3. QED  BY <2>1, <2>2
<1>3. CASE \A c \in Client : ~(pc[c] = "start" /\ AgentFor(c) = a)
  <2>1. proc[a] = None \/ a \in started
    BY <1>3 DEF Stranded
  <2>2. ASSUME NEW c \in Client, CreateTask(c)
        PROVE  FALSE
    BY <1>1, <2>1, <2>2, CreateTaskEffect
  <2>3. ASSUME NEW c \in Client, Start(c)
        PROVE  FALSE
    BY <1>1, <2>1, <2>3, StartEffect
  <2>4. ~Reboot
    BY <1>1 DEF Reboot
  <2>5. QED  BY <1>1, <2>1, <2>2, <2>3, <2>4, TasksStep
<1>4. QED  BY <1>2, <1>3

\* Nothing but a fault - a tasks.start that fails, a handler dropped or a kernel
\* stopped before it - leaves a task created and not started (sandbox.rs:676).
THEOREM StrandedByFaults ==
  Spec => [][\A a \in Agent : ~Stranded(a) /\ Stranded(a)' => faults' # faults]_vars
<1>1. TypeOK /\ [Next]_vars
        => [\A a \in Agent : ~Stranded(a) /\ Stranded(a)' => faults' # faults]_vars
  BY StrandedArises
<1>2. QED  BY <1>1, TypeCorrect, PTL DEF Spec

\* And no call of the kernel, in this run of it or a later one, starts or removes
\* such a task (sandbox.rs:552 takes it for a container): its agent has no running
\* container until the machine restarts.
THEOREM StrandedForGood ==
  Spec => [][\A a \in Agent : Stranded(a) /\ ~Stranded(a)' => Reboot]_vars
<1>1. TypeOK /\ [Next]_vars
        => [\A a \in Agent : Stranded(a) /\ ~Stranded(a)' => Reboot]_vars
  BY StrandedStays
<1>2. QED  BY <1>1, TypeCorrect, PTL DEF Spec

-------------------------------------------------------------------------------
(* Sessions.  A kernel gives out a key once, to a handshake that has not    *)
(* answered yet, and the session under it is for the task of the handshake's*)
(* token.  Nothing is said of the keys of a kernel that has stopped.        *)
KeysFresh ==
    /\ \A e \in sessions : e[1] < counter
    /\ \A c \in Client : slot[c] # None => slot[c] < counter
    /\ \A c \in Client \ outdated : key[c] # None => key[c] < counter
    /\ \A c \in Client : \A d \in Client \ outdated : slot[c] # None => slot[c] # key[d]
    /\ \A c, d \in Client : slot[c] # None /\ c # d => slot[c] # slot[d]

SlotsScoped ==
    \A c \in Client : slot[c] # None =>
        /\ who[c] = TaskOf[token[c]]
        /\ \A e \in sessions : e[1] = slot[c] => e[2] = TaskOf[token[c]]

ScopeInv == KeysFresh /\ SlotsScoped /\ SessionScoped

TokensSpent ==
    \A c \in Client : token[c] # None => token[c] \in issued \ pending

\* Apart from Bind, the steps of ensure_container either go on or answer.
LEMMA StepShape ==
  ASSUME RequestsOK, NEW c \in Client, Step(c), ~Bind(c)
  PROVE  /\ UNCHANGED <<registry, issued, outdated>>
         /\ Reply(c) \/ UNCHANGED <<who, slot, token, key>>
<1>1. CASE Known(c)
  BY <1>1 DEF Known, Ensured, Goto, Reply, NoFault, clients
<1>2. CASE GetContainer(c)
  BY <1>2 DEF GetContainer, Lookup, Goto, NoFault, Fault, clients
<1>3. CASE GetTask(c)
  BY <1>3 DEF GetTask, Lookup, Goto, NoFault, Fault, clients
<1>4. CASE UpperDir(c)
  BY <1>4 DEF UpperDir, Goto, NoFault, Fault, clients
<1>5. CASE DeleteRecord(c)
  BY <1>5 DEF DeleteRecord, Goto, NoFault, Fault, clients
<1>6. CASE EnsureImage(c)
  BY <1>6 DEF EnsureImage, Attempt, Goto, Reply, NoFault, Fault, clients
<1>7. CASE RemoveSnapshot(c)
  BY <1>7 DEF RemoveSnapshot, Goto, NoFault, Fault, clients
<1>8. CASE Prepare(c)
  BY <1>8 DEF Prepare, Attempt, Goto, Reply, NoFault, Fault, clients
<1>9. CASE CreateContainer(c)
  BY <1>9 DEF CreateContainer, Attempt, Goto, Reply, NoFault, Fault, clients
<1>10. CASE CreateTask(c)
  BY <1>10 DEF CreateTask, Attempt, Goto, Reply, NoFault, Fault, clients
<1>11. CASE Start(c)
  BY <1>11 DEF Start, Attempt, Goto, Reply, NoFault, Fault, clients
<1>12. CASE Insert(c)
  BY <1>12 DEF Insert, Ensured, Goto, Reply, books, clients
<1>13. CASE Map(c)
  BY <1>13 DEF Map, Reply, books, clients
<1>14. QED
  BY <1>1, <1>2, <1>3, <1>4, <1>5, <1>6, <1>7, <1>8, <1>9, <1>10, <1>11, <1>12, <1>13 DEF Step

LEMMA ReplyScoped ==
  ASSUME RequestsOK, ScopeInv, NEW c \in Client, Reply(c), UNCHANGED <<registry, outdated>>
  PROVE  ScopeInv'
<1>1. KeysFresh'
  BY ConstantsOK DEF Reply, ScopeInv, KeysFresh, RequestsOK, registry
<1>2. SlotsScoped'
  BY DEF Reply, ScopeInv, SlotsScoped, RequestsOK, registry
<1>3. SessionScoped'
  BY DEF Reply, ScopeInv, SlotsScoped, SessionScoped, RequestsOK, registry
<1>4. QED  BY <1>1, <1>2, <1>3 DEF ScopeInv

LEMMA BindScoped ==
  ASSUME TypeOK, ScopeInv, NEW c \in Client, Bind(c)
  PROVE  ScopeInv'
<1>0. RequestsOK /\ MapsOK /\ pc[c] = "bind" /\ slot[c] \in Nat /\ slot[c] # None
  BY TypeParts DEF Bind, RequestsOK
<1>1. sessions' = { e \in sessions : e[1] # slot[c] } \cup { <<slot[c], who[c]>> } /\ counter' = counter
  BY DEF Bind
<1>2. \A e \in sessions' : e \in sessions \/ (e[1] = slot[c] /\ e[2] = who[c])
  BY <1>1
<1>3. who[c] = TaskOf[token[c]] /\ slot[c] < counter
  BY <1>0 DEF ScopeInv, SlotsScoped, KeysFresh
<1>o. outdated' = outdated
  BY DEF Bind, Goto, Reply, clients
<1>4. CASE UNCHANGED <<who, slot, token, key>>
  <2>1. KeysFresh'
    BY <1>0, <1>1, <1>2, <1>3, <1>o, <1>4 DEF ScopeInv, KeysFresh
  <2>2. SlotsScoped'
    BY <1>0, <1>2, <1>3, <1>o, <1>4 DEF ScopeInv, SlotsScoped, KeysFresh
  <2>3. SessionScoped'
    BY <1>0, <1>2, <1>3, <1>o, <1>4 DEF ScopeInv, SessionScoped, KeysFresh
  <2>4. QED  BY <2>1, <2>2, <2>3 DEF ScopeInv
<1>5. CASE Reply(c)
  <2>1. key' = [key EXCEPT ![c] = slot[c]] /\ slot' = [slot EXCEPT ![c] = None]
        /\ who' = [who EXCEPT ![c] = None] /\ token' = token
    BY <1>0, <1>5 DEF Reply
  <2>2. KeysFresh'
    <3>1. \A e \in sessions' : e[1] < counter'
      BY <1>1, <1>2, <1>3 DEF ScopeInv, KeysFresh
    <3>2. \A d \in Client : slot'[d] # None => slot'[d] < counter' /\ slot'[d] = slot[d] /\ d # c
      BY <1>0, <1>1, <2>1 DEF ScopeInv, KeysFresh, RequestsOK
    <3>3. \A d \in Client \ outdated' : key'[d] # None => key'[d] < counter'
      BY <1>0, <1>1, <1>3, <1>o, <2>1 DEF ScopeInv, KeysFresh, RequestsOK
    <3>4. \A d \in Client : \A f \in Client \ outdated' : slot'[d] # None => slot'[d] # key'[f]
      BY <1>0, <1>o, <2>1, <3>2 DEF ScopeInv, KeysFresh, RequestsOK
    <3>5. \A d, f \in Client : slot'[d] # None /\ d # f => slot'[d] # slot'[f]
      BY <1>0, <1>o, <2>1, <3>2 DEF ScopeInv, KeysFresh, RequestsOK
    <3>6. QED  BY <3>1, <3>2, <3>3, <3>4, <3>5 DEF KeysFresh
  <2>3. SlotsScoped'
    BY <1>0, <1>2, <1>o, <2>1 DEF ScopeInv, SlotsScoped, KeysFresh, RequestsOK
  <2>4. SessionScoped'
    BY <1>0, <1>2, <1>3, <1>o, <2>1 DEF ScopeInv, SessionScoped, SlotsScoped, KeysFresh, RequestsOK
  <2>5. QED  BY <2>2, <2>3, <2>4 DEF ScopeInv
<1>6. QED  BY <1>4, <1>5 DEF Bind, Goto, clients

LEMMA ScopeStep ==
  ASSUME TypeOK, ScopeInv, [Next]_vars
  PROVE  ScopeInv'
<1>0. RequestsOK /\ MapsOK
  BY TypeParts
<1>1. ASSUME NEW c \in Client, Step(c)
      PROVE  ScopeInv'
  <2>1. CASE Bind(c)
    BY <2>1, BindScoped
  <2>2. CASE ~Bind(c)
    <3>1. CASE Reply(c)
      BY <1>0, <1>1, <2>2, <3>1, StepShape, ReplyScoped
    <3>2. CASE UNCHANGED <<who, slot, token, key>>
      BY <1>0, <1>1, <2>2, <3>2, StepShape
         DEF ScopeInv, KeysFresh, SlotsScoped, SessionScoped, registry
    <3>3. QED  BY <1>0, <1>1, <2>2, <3>1, <3>2, StepShape
  <2>3. QED  BY <2>1, <2>2
<1>2. ASSUME NEW c \in Client, NEW t \in Token, Handshake(c, t)
      PROVE  ScopeInv'
  <2>1. /\ slot' = [slot EXCEPT ![c] = counter] /\ key' = [key EXCEPT ![c] = None]
        /\ who' = [who EXCEPT ![c] = TaskOf[t]] /\ token' = [token EXCEPT ![c] = t]
        /\ counter' = counter + 1 /\ sessions' = sessions /\ outdated' = outdated \ {c}
    BY <1>2 DEF Handshake
  <2>2. counter \in Nat /\ None \notin Nat
    BY <1>0, ConstantsOK DEF MapsOK
  <2>3. \A e \in sessions : e[1] \in Nat
    BY <1>0 DEF MapsOK
  <2>4. KeysFresh'
    BY <1>0, <2>1, <2>2, <2>3 DEF ScopeInv, KeysFresh, RequestsOK
  <2>5. SlotsScoped'
    BY <1>0, <2>1, <2>2, <2>3 DEF ScopeInv, KeysFresh, SlotsScoped, RequestsOK
  <2>6. SessionScoped'
    BY <1>0, <2>1, <2>2, <2>3 DEF ScopeInv, SessionScoped, RequestsOK
  <2>7. QED  BY <2>4, <2>5, <2>6 DEF ScopeInv
<1>3. ASSUME NEW c \in Client, Exec(c)
      PROVE  ScopeInv'
  <2>1. slot[c] = None
    BY <1>0, <1>3 DEF Exec, RequestsOK
  <2>2. UNCHANGED <<registry, slot, clients>> /\ \A d \in Client \ {c} : who'[d] = who[d]
    BY <1>0, <1>3 DEF Exec, RequestsOK, clients
  <2>3. QED
    BY <2>1, <2>2 DEF ScopeInv, KeysFresh, SlotsScoped, SessionScoped, registry, clients
<1>4. ASSUME NEW c \in Client, Cancel(c)
      PROVE  ScopeInv'
  <2>1. /\ UNCHANGED <<registry, token, key, outdated>>
        /\ \A d \in Client : slot'[d] # None => slot'[d] = slot[d] /\ who'[d] = who[d]
    BY <1>0, <1>4 DEF Cancel, RequestsOK, clients
  <2>2. QED
    BY <2>1 DEF ScopeInv, KeysFresh, SlotsScoped, SessionScoped, registry
<1>5. CASE Crash \/ Reboot
  <2>1. /\ sessions' = {}
        /\ \A d \in Client : slot'[d] = None
        /\ \A d \in Client \ outdated' : key'[d] = None
    BY <1>5 DEF Crash, Reboot, Restart
  <2>2. QED
    BY <2>1 DEF ScopeInv, KeysFresh, SlotsScoped, SessionScoped
<1>6. CASE \/ \E t \in Token : Register(t) \/ Revoke(t)
           \/ \E e \in sessions : Expire(e)
           \/ UNCHANGED vars
  <2>1. sessions' \subseteq sessions /\ UNCHANGED <<counter, slot, who, clients>>
    BY <1>6 DEF Register, Revoke, Expire, vars, registry, handlers, clients
  <2>2. QED  BY <2>1 DEF ScopeInv, KeysFresh, SlotsScoped, SessionScoped, clients
<1>7. QED  BY <1>1, <1>2, <1>3, <1>4, <1>5, <1>6 DEF Next

LEMMA ScopeInvariant == Spec => []ScopeInv
<1>1. Init => ScopeInv
  BY DEF Init, ScopeInv, KeysFresh, SlotsScoped, SessionScoped
<1>2. TypeOK /\ ScopeInv /\ [Next]_vars => ScopeInv'
  BY ScopeStep
<1>3. QED  BY <1>1, <1>2, TypeCorrect, PTL DEF Spec

\* A client whose key is of the kernel that runs acts for the task of the token
\* it presented or for none, whatever expires, is revoked or cut short, and
\* whatever the clients do that still hold keys of earlier kernels.
THEOREM SessionsAreScoped == Spec => []SessionScoped
<1>1. ScopeInv => SessionScoped
  BY DEF ScopeInv
<1>2. QED  BY <1>1, ScopeInvariant, PTL

LEMMA TokensStep ==
  ASSUME TypeOK, OneTime, TokensSpent, [Next]_vars
  PROVE  OneTime' /\ TokensSpent'
<1>0. RequestsOK /\ MapsOK
  BY TypeParts
<1>1. ASSUME NEW c \in Client, NEW t \in Token, Handshake(c, t)
      PROVE  OneTime' /\ TokensSpent'
  <2>1. /\ slot' = [slot EXCEPT ![c] = counter] /\ key' = [key EXCEPT ![c] = None]
        /\ token' = [token EXCEPT ![c] = t] /\ t \in pending /\ t \in issued
        /\ pending' = pending \ {t} /\ issued' = issued
    BY <1>0, <1>1 DEF Handshake, books, MapsOK
  <2>2. None \notin Token
    BY ConstantsOK
  <2>3. \A d \in Client : token[d] # t
    BY <2>1, <2>2 DEF TokensSpent
  <2>4. QED  BY <1>0, <2>1, <2>3 DEF OneTime, TokensSpent, RequestsOK
<1>2. ASSUME NEW c \in Client, Step(c)
      PROVE  OneTime' /\ TokensSpent'
  <2>1. UNCHANGED <<pending, issued>> /\ (Reply(c) \/ UNCHANGED <<slot, token, key>>)
    BY <1>0, <1>2, StepShape DEF Bind, Goto, clients, registry, books
  <2>2. CASE UNCHANGED <<slot, token, key>>
    BY <2>1, <2>2 DEF OneTime, TokensSpent
  <2>3. CASE Reply(c)
    BY <1>0, <2>1, <2>3 DEF Reply, OneTime, TokensSpent, RequestsOK
  <2>4. QED  BY <2>1, <2>2, <2>3
<1>3. ASSUME NEW t \in Token, Register(t)
      PROVE  OneTime' /\ TokensSpent'
  BY <1>3 DEF Register, OneTime, TokensSpent, handlers, clients
<1>4. CASE \/ \E t \in Token : Revoke(t)
           \/ \E e \in sessions : Expire(e)
           \/ \E c \in Client : Exec(c) \/ Cancel(c)
           \/ Crash \/ Reboot
           \/ UNCHANGED vars
  <2>1. /\ pending' \subseteq pending /\ UNCHANGED <<issued, token>>
        /\ \A d \in Client : slot'[d] # None => slot[d] # None
        /\ \A d \in Client : key'[d] # None => key[d] # None
    BY <1>0, <1>4 DEF Revoke, Expire, Exec, Cancel, Crash, Reboot, Restart, Fault, vars, registry,
       handlers, clients, books, RequestsOK
  <2>2. QED  BY <2>1 DEF OneTime, TokensSpent
<1>5. QED  BY <1>1, <1>2, <1>3, <1>4 DEF Next

\* However handshakes, revocations and restarts interleave, a token gives a
\* session to one client.
THEOREM TokensAreOneTime == Spec => []OneTime
<1>1. Init => OneTime /\ TokensSpent
  BY DEF Init, OneTime, TokensSpent
<1>2. TypeOK /\ OneTime /\ TokensSpent /\ [Next]_vars => OneTime' /\ TokensSpent'
  BY TokensStep
<1>3. QED  BY <1>1, <1>2, TypeCorrect, PTL DEF Spec

-------------------------------------------------------------------------------
(* A handshake that is about to map its task has ensured the container.    *)
AboutToMap == \A c \in Client : pc[c] = "map" => containers[AgentFor(c)] # None

LEMMA MappedStep ==
  ASSUME TypeOK, MappedIsEnsured, AboutToMap, [Next]_vars
  PROVE  MappedIsEnsured' /\ AboutToMap'
<1>0. RequestsOK /\ MapsOK
  BY TypeParts
<1>1. ASSUME NEW c \in Client, UNCHANGED maps, OthersStay(c),
             pc'[c] = "map" => who'[c] = who[c] /\ containers[AgentFor(c)] # None
      PROVE  MappedIsEnsured' /\ AboutToMap'
  BY <1>1 DEF MappedIsEnsured, AboutToMap, OthersStay, AgentFor, maps
<1>2. ASSUME NEW c \in Client, Step(c)
      PROVE  MappedIsEnsured' /\ AboutToMap'
  <2>0. OthersStay(c) /\ (who'[c] = who[c] \/ pc'[c] = "idle") /\ pc[c] # "idle"
    BY <1>0, <1>2, Movement DEF Step, Bind, Known, GetContainer, GetTask, UpperDir, DeleteRecord,
       EnsureImage, RemoveSnapshot, Prepare, CreateContainer, CreateTask, Start, Insert, Map
  <2>1. CASE Insert(c)
    <3>1. path[c] # None /\ path[c] \in Nat /\ AgentFor(c) \in Agent
      BY <1>0, <2>0, <2>1, AgentForType DEF Insert, RequestsOK, WithPath
    <3>2. containers' = [containers EXCEPT ![AgentFor(c)] = path[c]] /\ task_agent' = task_agent
      BY <2>1 DEF Insert
    <3>3. \A a \in Agent : containers[a] # None => containers'[a] # None
      BY <1>0, <3>1, <3>2 DEF MapsOK
    <3>4. MappedIsEnsured'
      BY <1>0, <3>2, <3>3 DEF MappedIsEnsured, MapsOK
    <3>5. ASSUME NEW d \in Client \ {c}, pc'[d] = "map"
          PROVE  containers'[AgentOf[who'[d]]] # None
      <4>1. pc[d] = "map" /\ who'[d] = who[d]
        BY <2>0, <3>5 DEF OthersStay
      <4>2. AgentFor(d) \in Agent /\ containers[AgentFor(d)] # None
        BY <1>0, <4>1, AgentForType DEF AboutToMap
      <4>3. QED  BY <3>3, <4>1, <4>2 DEF AgentFor
    <3>6. pc'[c] = "map" => containers'[AgentOf[who'[c]]] # None
      BY <1>0, <2>0, <3>1, <3>2 DEF AgentFor, MapsOK
    <3>7. QED  BY <3>4, <3>5, <3>6 DEF AboutToMap, AgentFor
  <2>2. CASE Map(c)
    <3>1. /\ pc[c] = "map" /\ who[c] \in Task /\ AgentFor(c) \in Agent
          /\ task_agent' = [task_agent EXCEPT ![who[c]] = AgentFor(c)]
          /\ containers' = containers /\ pc'[c] = "idle"
      BY <1>0, <2>2, AgentForType DEF Map, Reply, RequestsOK
    <3>2. MappedIsEnsured'
      BY <1>0, <3>1 DEF MappedIsEnsured, AboutToMap, MapsOK
    <3>3. QED  BY <2>0, <3>1, <3>2 DEF AboutToMap, OthersStay, AgentFor
  <2>3. CASE Known(c)
    BY <1>0, <1>1, <2>0, <2>3 DEF Known, Ensured, Goto, Reply, RequestsOK
  <2>4. CASE Bind(c)
    BY <1>0, <1>1, <2>0, <2>4 DEF Bind, Goto, Reply, RequestsOK
  <2>5. CASE GetContainer(c) \/ GetTask(c) \/ UpperDir(c) \/ DeleteRecord(c) \/ EnsureImage(c)
             \/ RemoveSnapshot(c) \/ Prepare(c) \/ CreateContainer(c) \/ CreateTask(c) \/ Start(c)
    <3>1. UNCHANGED maps
      BY <2>5 DEF GetContainer, GetTask, UpperDir, DeleteRecord, EnsureImage, RemoveSnapshot,
         Prepare, CreateContainer, CreateTask, Start, Lookup
    <3>2. Reply(c) \/ \E l \in Ensuring : Goto(c, l)
      BY <2>5 DEF GetContainer, GetTask, UpperDir, DeleteRecord, EnsureImage, RemoveSnapshot,
         Prepare, CreateContainer, CreateTask, Start, Lookup, Attempt, Ensuring
    <3>3. pc'[c] # "map"
      BY <1>0, <3>2 DEF Reply, Goto, Ensuring, RequestsOK
    <3>4. QED  BY <1>1, <2>0, <3>1, <3>3
  <2>6. QED  BY <1>2, <2>1, <2>2, <2>3, <2>4, <2>5 DEF Step
<1>3. ASSUME NEW c \in Client, (\E t \in Token : Handshake(c, t)) \/ Exec(c) \/ Cancel(c)
      PROVE  MappedIsEnsured' /\ AboutToMap'
  <2>1. OthersStay(c) /\ pc'[c] # "map" /\ UNCHANGED maps
    BY <1>0, <1>3 DEF Handshake, Exec, Cancel, OthersStay, RequestsOK
  <2>2. QED  BY <1>1, <2>1
<1>4. CASE Crash \/ Reboot
  BY <1>4 DEF Crash, Reboot, Restart, MappedIsEnsured, AboutToMap
<1>5. CASE \/ \E t \in Token : Register(t) \/ Revoke(t)
           \/ \E e \in sessions : Expire(e)
           \/ UNCHANGED vars
  <2>1. UNCHANGED <<maps, handlers>>
    BY <1>5 DEF Register, Revoke, Expire, vars
  <2>2. QED  BY <2>1 DEF MappedIsEnsured, AboutToMap, AgentFor, maps, handlers
<1>6. QED  BY <1>2, <1>3, <1>4, <1>5 DEF Next

\* The two locks of resolve_path never see a task of an agent without a
\* container.
THEOREM MappedAreEnsured == Spec => []MappedIsEnsured
<1>1. Init => MappedIsEnsured /\ AboutToMap
  BY DEF Init, MappedIsEnsured, AboutToMap
<1>2. TypeOK /\ MappedIsEnsured /\ AboutToMap /\ [Next]_vars => MappedIsEnsured' /\ AboutToMap'
  BY MappedStep
<1>3. QED  BY <1>1, <1>2, TypeCorrect, PTL DEF Spec
===============================================================================
