------------------------------ MODULE FileStores ------------------------------
(***************************************************************************)
(* The namespaces kept in files: users, svc-store and proc-store, with the *)
(* registry of services and the external tools that the kernel makes of    *)
(* the latter two when it starts.                                          *)
(*                                                                         *)
(* A file is written in two system calls: opening it truncates it, then    *)
(* the content is written.  The two run in a thread of their own: a caller *)
(* that goes away does not stop them, a restart may come between them.     *)
(* Calls are numbered; an entry or a field is the number of its call.      *)
(***************************************************************************)
EXTENDS Integers, FiniteSets

CONSTANTS
    Client,     \* concurrent callers
    None,
    Short,      \* files below persona/short
    Doc,        \* other files of users
    Service,    \* names of services
    Compose,    \* the services that may have a directory in svc-store
    Tool,       \* directories of proc-store
    Field,      \* fields of a JSON object
    Blank,      \* the content of a file that was truncated
    Mixed,      \* parts of the contents of two calls
    Request,    \* what callers ask for
    Faults,     \* may the file system fail and callers go away?
    MaxCalls, MaxRestarts

File == Short \cup Doc \cup Compose \cup Tool
Nr == 1..MaxCalls

\* A document: a JSON array of entries, a JSON object, a compose.yaml with or
\* without a name, a schema with a run command, or text that is none of these.
Kind == {"array", "object", "compose", "schema", "text"}
Document == [kind : Kind, entries : SUBSET Nr, set : [Field -> 0..MaxCalls],
             name : Service \cup {None}]
Content == Document \cup {None, Blank, Mixed}

Given == [kind : Kind \ {"array"}, fields : SUBSET Field, name : Service \cup {None}]

AllRequests ==
    [op : {"append"}, at : Short, doc : Given] \cup [op : {"patch"}, at : Short \cup Doc, doc : Given]
    \cup [op : {"write"}, at : Doc \cup Compose \cup Tool, doc : Given]

ASSUME ConstantsOK ==
    /\ Short \cap (Doc \cup Compose \cup Tool) = {} /\ Doc \cap (Compose \cup Tool) = {}
    /\ Compose \cap Tool = {}
    /\ Compose \subseteq Service
    /\ None \notin Service \cup Document \cup AllRequests \cup {Blank, Mixed}
    /\ Blank # Mixed /\ Blank \notin Document /\ Mixed \notin Document
    /\ Request \subseteq AllRequests
    /\ \A r \in Request : r.doc.fields # {} => r.doc.kind = "object"
    /\ Faults \in BOOLEAN /\ MaxCalls \in Nat /\ MaxRestarts \in Nat

VARIABLES
    files,          \* the content of each file; None: there is no such file
    registry,       \* the registered services
    tools,          \* the external tools that were loaded
    pc, req, nr,    \* where each call is, what it was asked, its number
    draft,          \* what it is going to write
    gone,           \* calls whose caller has gone away
    calls,          \* history: the number of calls so far
    restarts,       \* history: the number of restarts so far
    disturbed,      \* history: calls that overlapped another on their file, or could not read it
    due,            \* history: what a file must hold after the calls that were acknowledged
    unread          \* history: directories that the last start could not read or clone

locals == <<pc, req, nr, draft, gone>>
runtime == <<registry, tools, unread>>
vars == <<files, runtime, locals, calls, restarts, disturbed, due>>

Init ==
    /\ files = [f \in File |-> None]
    /\ registry = [s \in Service |-> None] /\ tools = {} /\ unread = {}
    /\ pc = [c \in Client |-> "idle"] /\ req = [c \in Client |-> None]
    /\ nr = [c \in Client |-> 0] /\ draft = [c \in Client |-> None] /\ gone = {}
    /\ calls = 0 /\ restarts = 0 /\ disturbed = {}
    /\ due = [f \in File |-> None]

-------------------------------------------------------------------------------
(* Documents. *)

\* A file that is there and not damaged.
Whole(content) == content \notin {None, Blank, Mixed}

Entries(S) ==
    [kind |-> "array", entries |-> S, set |-> [x \in Field |-> 0], name |-> None]

\* What call n writes when it is given doc.
Made(n, doc) ==
    [kind |-> doc.kind, entries |-> {},
     set |-> [x \in Field |-> IF x \in doc.fields THEN n ELSE 0], name |-> doc.name]

IsObject(content) == Whole(content) /\ content.kind = "object"

\* Variant: the partial replaces the document.
PatchedReplaces(content, n, doc) == Made(n, doc)

\* json_deep_merge of two objects; anything else is replaced by the partial.
Patched(content, n, doc) ==
    IF IsObject(content) /\ doc.kind = "object"
    THEN [content EXCEPT !.set = [x \in Field |-> IF x \in doc.fields THEN n ELSE @[x]]]
    ELSE Made(n, doc)

-------------------------------------------------------------------------------
(* Calls on files. *)

Goto(c, at) == pc' = [pc EXCEPT ![c] = at]
FileOf(c) == req[c].at

Leave(c) ==
    /\ Goto(c, "idle")
    /\ req' = [req EXCEPT ![c] = None] /\ nr' = [nr EXCEPT ![c] = 0]
    /\ draft' = [draft EXCEPT ![c] = None] /\ gone' = gone \ {c}

Others(c, f) == { d \in Client \ {c} : pc[d] # "idle" /\ FileOf(d) = f }

\* A call is routed to the namespace of its file; append and patch read it first.
Begin(c) ==
    \E r \in Request :
        /\ pc[c] = "idle" /\ calls < MaxCalls
        /\ calls' = calls + 1
        /\ req' = [req EXCEPT ![c] = r] /\ nr' = [nr EXCEPT ![c] = calls + 1]
        /\ disturbed' = IF Others(c, r.at) = {} THEN disturbed
                        ELSE disturbed \cup Others(c, r.at) \cup {c}
        /\ IF r.op = "write"
           THEN Goto(c, "open") /\ draft' = [draft EXCEPT ![c] = Made(calls + 1, r.doc)]
           ELSE Goto(c, "read") /\ UNCHANGED draft
        /\ UNCHANGED <<files, runtime, gone, restarts, due>>

\* Variant: a file that cannot be parsed counts as an empty array.
ArrayInOrEmpty(content) ==
    IF Whole(content) /\ content.kind = "array" THEN content.entries ELSE {}

\* The entries of a file of persona/short: none if it is missing; None if it is no array.
ArrayIn(content) ==
    CASE content = None -> {}
      [] Whole(content) /\ content.kind = "array" -> content.entries
      [] OTHER -> None

\* append_persona_short up to the write; what is no array is rejected.
ReadAppend(c) ==
    LET array == ArrayIn(files[FileOf(c)])
    IN  /\ pc[c] = "read" /\ req[c].op = "append"
        /\ IF array = None
           THEN Leave(c) /\ disturbed' = disturbed \ {c}
           ELSE /\ draft' = [draft EXCEPT ![c] = Entries(array \cup {nr[c]})]
                /\ Goto(c, "open") /\ UNCHANGED <<req, nr, gone, disturbed>>
        /\ UNCHANGED <<files, runtime, calls, restarts, due>>

\* patch: the file is read, if it can be, and merged.
ReadPatch(c) ==
    /\ pc[c] = "read" /\ req[c].op = "patch"
    /\ \/ /\ draft' = [draft EXCEPT ![c] = Patched(files[FileOf(c)], nr[c], req[c].doc)]
          /\ UNCHANGED disturbed
       \/ /\ Faults
          /\ draft' = [draft EXCEPT ![c] = Made(nr[c], req[c].doc)]
          /\ disturbed' = disturbed \cup {c}
    /\ Goto(c, "open")
    /\ UNCHANGED <<files, runtime, req, nr, gone, calls, restarts, due>>

Open(c) ==
    /\ pc[c] = "open"
    /\ files' = [files EXCEPT ![FileOf(c)] = Blank]
    /\ Goto(c, "fill")
    /\ UNCHANGED <<runtime, req, nr, draft, gone, calls, restarts, disturbed, due>>

\* History: what the file of c must hold once c is acknowledged.
Owed(c) ==
    LET before == due[FileOf(c)]
        n      == nr[c]
        given  == req[c].doc
        stays  == req[c].op = "patch" /\ given.kind = "object" /\ before # None
    IN  IF req[c].op = "append"
        THEN Entries(IF before = None THEN {n} ELSE before.entries \cup {n})
        ELSE [kind |-> given.kind, entries |-> {}, name |-> given.name,
              set |-> [x \in Field |-> IF x \in given.fields THEN n
                                       ELSE IF stays THEN before.set[x] ELSE 0]]

DueAfter(c) ==
    IF c \in disturbed \/ (c \in gone /\ req[c].op # "append") THEN None
    ELSE IF c \in gone THEN due[FileOf(c)] ELSE Owed(c)

\* What is written over a file that was filled meanwhile may leave a tail of it.
Fill(c) ==
    LET f == FileOf(c)
    IN  /\ pc[c] = "fill"
        /\ \E content \in {draft[c], Mixed} :
             /\ content = Mixed => files[f] \notin {Blank, draft[c]}
             /\ files' = [files EXCEPT ![f] = content]
        /\ due' = [due EXCEPT ![f] = DueAfter(c)]
        /\ Leave(c) /\ disturbed' = disturbed \ {c}
        /\ UNCHANGED <<runtime, calls, restarts>>

\* The entries of persona/short that are due stay so, whatever is cut short.
DueIfCut(f) == IF f \in Short THEN due[f] ELSE None

\* A read, mkdir, open or write fails; a file that was truncated stays so.
Fails(c) ==
    /\ Faults
    /\ \/ pc[c] = "read" /\ req[c].op = "append" /\ UNCHANGED due
       \/ pc[c] = "open" /\ UNCHANGED due
       \/ pc[c] = "fill" /\ due' = [due EXCEPT ![FileOf(c)] = DueIfCut(FileOf(c))]
    /\ Leave(c) /\ disturbed' = disturbed \ {c}
    /\ UNCHANGED <<files, runtime, calls, restarts>>

\* The caller goes away; a write that was handed to its thread goes on.
Abort(c) ==
    /\ Faults /\ c \notin gone
    /\ \/ /\ pc[c] \in {"read", "open"}
          /\ Leave(c) /\ disturbed' = disturbed \ {c}
       \/ /\ pc[c] \in {"open", "fill"}
          /\ gone' = gone \cup {c}
          /\ UNCHANGED <<pc, req, nr, draft, disturbed>>
    /\ UNCHANGED <<files, runtime, calls, restarts, due>>

-------------------------------------------------------------------------------
(* The registry of services, behind its lock. *)

Entry == [status : {"running", "stopped"}, endpoint : 0..MaxCalls]
Stopped == [status |-> "stopped", endpoint |-> 0]

\* write: the entry is inserted under the name in the path.
Register(s) ==
    /\ calls < MaxCalls
    /\ calls' = calls + 1
    /\ registry' = [registry EXCEPT ![s] = [status |-> "running", endpoint |-> calls + 1]]
    /\ UNCHANGED <<files, tools, unread, locals, restarts, disturbed, due>>

\* patch: the status of a registered service.
Update(s) ==
    /\ registry[s] # None
    /\ \E status \in {"running", "stopped"} :
         registry' = [registry EXCEPT ![s].status = status]
    /\ UNCHANGED <<files, tools, unread, locals, calls, restarts, disturbed, due>>

-------------------------------------------------------------------------------
(* A restart of the kernel. *)

\* Variant: the name of the directory.
NameOfDirectory(s, name) == s

\* yaml["name"], or else the name of the directory.
NameIn(s, name) == IF name = None THEN s ELSE name

\* What the directory of s may be registered as.  An empty file is YAML, as are
\* many texts; neither has a name.
RestoredAs(s) ==
    LET content == files[s]
    IN  CASE content = None  -> {None}
          [] content = Blank -> {s}
          [] content = Mixed -> Service \cup {None}
          [] Whole(content)  -> IF content.kind = "compose" THEN {NameIn(s, content.name)}
                                ELSE {s, None}

\* restore_from_store
RestoreServices ==
    \E as \in [Compose -> Service \cup {None}] :
        /\ \A s \in Compose : as[s] \in IF s \in unread' THEN {None} ELSE RestoredAs(s)
        /\ registry' = [s \in Service |->
                          IF \E d \in Compose : as[d] = s THEN Stopped ELSE None]

\* restore_tools
RestoreTools ==
    tools' = { t \in Tool \ unread' : Whole(files[t]) /\ files[t].kind = "schema" }

\* Files stay as they are.
Restart ==
    /\ restarts < MaxRestarts
    /\ restarts' = restarts + 1
    /\ unread' \in IF Faults THEN SUBSET (Compose \cup Tool) ELSE {{}}
    /\ RestoreTools /\ RestoreServices
    /\ due' = [f \in File |->
                 IF \E c \in Client : pc[c] = "fill" /\ FileOf(c) = f THEN DueIfCut(f) ELSE due[f]]
    /\ pc' = [c \in Client |-> "idle"] /\ req' = [c \in Client |-> None]
    /\ nr' = [c \in Client |-> 0] /\ draft' = [c \in Client |-> None]
    /\ gone' = {} /\ disturbed' = {}
    /\ UNCHANGED <<files, calls>>

Step(c) ==
    \/ Begin(c) \/ ReadAppend(c) \/ ReadPatch(c) \/ Open(c) \/ Fill(c)
    \/ Fails(c) \/ Abort(c)

Next ==
    \/ Restart
    \/ \E s \in Service : Register(s) \/ Update(s)
    \/ \E c \in Client : Step(c)

Spec == Init /\ [][Next]_vars

-------------------------------------------------------------------------------
(* Properties. *)

CallOK(c) ==
    /\ pc[c] = "idle" <=> req[c] = None
    /\ pc[c] = "idle" <=> nr[c] = 0
    /\ pc[c] \in {"open", "fill"} <=> draft[c] # None
    /\ c \in gone => pc[c] \in {"open", "fill"}
    /\ c \in disturbed => pc[c] # "idle"

(* Types; a call has a draft while it writes, and goes on without its      *)
(* caller only then.                                                       *)
TypeOK ==
    /\ files \in [File -> Content]
    /\ registry \in [Service -> Entry \cup {None}]
    /\ tools \subseteq Tool /\ unread \subseteq Compose \cup Tool
    /\ pc \in [Client -> {"idle", "read", "open", "fill"}]
    /\ req \in [Client -> Request \cup {None}] /\ nr \in [Client -> 0..MaxCalls]
    /\ draft \in [Client -> Document \cup {None}] /\ gone \subseteq Client
    /\ calls \in 0..MaxCalls /\ restarts \in 0..MaxRestarts
    /\ disturbed \subseteq Client /\ due \in [File -> Document \cup {None}]
    /\ \A c \in Client : CallOK(c)

(* "append-only; corrupted files are rejected (not silently cleared)": a   *)
(* file of persona/short that is an array has every entry acknowledged     *)
(* since calls on it last overlapped or patched it, whatever failed or was *)
(* cut short in between.                                                   *)
EntriesKept ==
    \A f \in Short : due[f] # None /\ Whole(files[f])
        => files[f].kind = due[f].kind /\ due[f].entries \subseteq files[f].entries

(* A field keeps the value of the last call that set it, through patches   *)
(* of other fields, unless calls on the file overlapped, or one of them    *)
(* was cut short in writing it or could not read it.                       *)
FieldsKept ==
    \A f \in Doc : due[f] # None /\ Whole(files[f])
        => \A x \in Field : due[f].set[x] # 0 => files[f].set[x] = due[f].set[x]

(* "Restored to services registry on boot": a service whose compose.yaml   *)
(* was acknowledged is registered after a restart under the name that it   *)
(* gives, a tool whose schema was is loaded, unless the write of another   *)
(* call was cut short or overlapped, or the start could not read it.       *)
DeclaredComesBack ==
    [][restarts' # restarts =>
        /\ \A s \in Compose \ unread' :
             due'[s] # None /\ due'[s].kind = "compose"
             => registry'[IF due'[s].name = None THEN s ELSE due'[s].name] = Stopped
        /\ \A t \in Tool \ unread' :
             due'[t] # None /\ due'[t].kind = "schema" => t \in tools']_vars
===============================================================================
