------------------------------ MODULE SearchIndex ------------------------------
(***************************************************************************)
(* What system.search_tasks looks at: tasks with a full-text index of      *)
(* their descriptions, anchors with one of their facts, and the chain in   *)
(* which anchors supersede each other.                                     *)
(*                                                                         *)
(* Every statement commits by itself and calls run concurrently.  The      *)
(* indexes are external-content tables of FTS5: they keep postings and the *)
(* size of each document but no text.  A DELETE therefore removes the      *)
(* postings of the text that the row has now, and fails for a row without  *)
(* a size; a MATCH that meets a posting of a row without a size fails.     *)
(* The number of a deleted row is given to a new row if it was the         *)
(* largest.                                                                *)
(***************************************************************************)
EXTENDS Integers, Sequences, FiniteSets

CONSTANTS
    Client,     \* concurrent callers
    None,       \* an absent row, request or anchor
    Task,
    Text,       \* descriptions; a query matches the description it equals
    Empty,      \* the description that is not indexed
    Facts,      \* facts of anchors; a query matches the facts it equals
    Objects,    \* those that are JSON arrays of objects, as they should be
    Blank,      \* the facts "[]"
    Request,    \* what callers ask for
    Faults,     \* may statements fail and calls be cut short?
    MaxMinute, MaxCalls

Minute == 1..MaxMinute
Row == 1..MaxCalls      \* a call creates one row at most

\* logos://system/anchors/{task_id}/{anchor_id}
Anchor == Task \X Minute

ASSUME ConstantsOK ==
    /\ MaxMinute \in Nat \ {0} /\ MaxCalls \in Nat
    /\ Empty \in Text /\ Objects \subseteq Facts /\ Blank \in Facts \ Objects
    /\ None \notin Text \cup Facts \cup Anchor \cup Request
    /\ None \notin [row : Row, description : Text, pending : BOOLEAN]
    /\ None \notin [facts : Facts, superseded_by : Anchor \cup {None}, nr : Nat]
    /\ Request \subseteq [op : {"create", "update"}, task : Task, description : Text]
                   \cup [op : {"patch"}, task : Task, description : Text \cup {None}]
                   \cup [op : {"anchor"}, task : Task, facts : Facts, supersedes : Seq(Anchor)]
    /\ Faults \in BOOLEAN

VARIABLES
    tasks,          \* tasks[t]: rowid, description and whether it is pending, or None
    tasks_fts,      \* postings <<row, description>>
    sized,          \* the rows with a document size
    anchors,        \* anchors[a]: facts, successor and number (history), or None
    anchors_fts,    \* postings <<anchor, facts>>; anchors keep their rows
    minute,         \* the clock, as the ids of anchors show it
    pc, req,        \* where each call is, and what it was asked
    base,           \* the description that a patch has read
    anchor_id,      \* the anchor that a call is creating
    uris,           \* those that it has still to mark
    facts,          \* what it has read of the first of them
    marks,          \* history: those that it has marked, until it inserts its own
    calls,          \* history: the number of calls so far
    spoilt,         \* history: rows whose index was left behind
    overlapped,     \* history: tasks on which two calls have overlapped
    asked,          \* history: the description last asked for
    orphaned,       \* history: anchors whose mark a call left that inserted nothing
    found           \* history: <<anchor, facts>> of creations that returned Ok

store == <<tasks, tasks_fts, sized>>
chain == <<anchors, anchors_fts>>
locals == <<base, anchor_id, uris, facts, marks>>
history == <<spoilt, overlapped, asked, orphaned, found>>
vars == <<store, chain, minute, pc, req, locals, calls, history>>

Init ==
    /\ tasks = [t \in Task |-> None] /\ tasks_fts = {} /\ sized = {}
    /\ anchors = [a \in Anchor |-> None] /\ anchors_fts = {}
    /\ minute = 1
    /\ pc = [c \in Client |-> "idle"] /\ req = [c \in Client |-> None]
    /\ base = [c \in Client |-> None] /\ anchor_id = [c \in Client |-> None]
    /\ uris = [c \in Client |-> << >>] /\ facts = [c \in Client |-> None]
    /\ marks = [c \in Client |-> {}]
    /\ calls = 0
    /\ spoilt = {} /\ overlapped = {} /\ asked = [t \in Task |-> None]
    /\ orphaned = {} /\ found = {}

-------------------------------------------------------------------------------
(* The search. *)

Exists(t) == tasks[t] # None

\* A MATCH on the descriptions fails if it cannot rank a posting.
SearchFails(q) == \E r \in Row : <<r, q>> \in tasks_fts /\ r \notin sized

L2Hits(q) ==
    { t \in Task : Exists(t) /\ ~tasks[t].pending /\ <<tasks[t].row, q>> \in tasks_fts }

L1Hits(q) == { a \in Anchor : anchors[a] # None /\ <<a, q>> \in anchors_fts }

-------------------------------------------------------------------------------
(* Calls. *)

\* The statements between which a task and its index disagree.
Syncing == {"delete_fts", "insert_fts"}
At(c, t) == pc[c] # "idle" /\ req[c].task = t

Begin(c, r, at) ==
    /\ pc[c] = "idle" /\ calls < MaxCalls
    /\ pc' = [pc EXCEPT ![c] = at] /\ req' = [req EXCEPT ![c] = r]
    /\ calls' = calls + 1
    /\ overlapped' = IF \E d \in Client : At(d, r.task)
                     THEN overlapped \cup {r.task} ELSE overlapped

Leave(c) ==
    /\ pc' = [pc EXCEPT ![c] = "idle"] /\ req' = [req EXCEPT ![c] = None]
    /\ base' = [base EXCEPT ![c] = None]
    /\ anchor_id' = [anchor_id EXCEPT ![c] = None]
    /\ uris' = [uris EXCEPT ![c] = << >>] /\ facts' = [facts EXCEPT ![c] = None]
    /\ marks' = [marks EXCEPT ![c] = {}]

Goto(c, at) == pc' = [pc EXCEPT ![c] = at]

-------------------------------------------------------------------------------
(* Tasks: create, update_description, patch. *)

Write(c) ==
    \E r \in Request :
        /\ r.op \in {"create", "update"}
        /\ Begin(c, r, r.op)
        /\ UNCHANGED <<store, chain, minute, locals, spoilt, asked, orphaned, found>>

\* patch: the task is read, a missing one as null.
Patch(c) ==
    \E r \in Request :
        /\ r.op = "patch"
        /\ Begin(c, r, "merge")
        /\ base' = [base EXCEPT ![c] = IF Exists(r.task)
                                       THEN tasks[r.task].description ELSE None]
        /\ UNCHANGED <<store, chain, minute, anchor_id, uris, facts, marks,
                       spoilt, asked, orphaned, found>>

\* An existing task_id is a conflict.
CreateTaken(c) ==
    /\ pc[c] = "create" /\ Exists(req[c].task)
    /\ Leave(c)
    /\ UNCHANGED <<store, chain, minute, calls, history>>

\* SQLite takes the number after the largest one.
NextRow(r) == /\ \A t \in Task : Exists(t) => tasks[t].row < r
              /\ r = 1 \/ \E t \in Task : Exists(t) /\ tasks[t].row = r - 1

CreateTask(c) ==
    LET t == req[c].task
        d == req[c].description
    IN  /\ pc[c] = "create" /\ ~Exists(t)
        /\ \E r \in Row :
             /\ NextRow(r)
             /\ tasks' = [tasks EXCEPT ![t] = [row |-> r, description |-> d, pending |-> TRUE]]
        /\ asked' = [asked EXCEPT ![t] = d]
        /\ IF d = Empty THEN Leave(c)
           ELSE Goto(c, "insert_fts") /\ UNCHANGED <<req, locals>>
        /\ UNCHANGED <<tasks_fts, sized, chain, minute, calls, spoilt, overlapped, orphaned, found>>

\* Variant: a patch without a description writes an empty one.
MergedOrEmpty(c) == IF req[c].description # None THEN req[c].description ELSE Empty

\* json_deep_merge, then base["description"].
Merged(c) == IF req[c].description # None THEN req[c].description ELSE base[c]

\* A patch of a missing task that says nothing of a description does nothing.
PatchNothing(c) ==
    /\ pc[c] = "merge" /\ Merged(c) = None
    /\ Leave(c)
    /\ UNCHANGED <<store, chain, minute, calls, history>>

UpdateRow(c, d) ==
    LET t == req[c].task
    IN  /\ tasks' = IF Exists(t) THEN [tasks EXCEPT ![t].description = d] ELSE tasks
        /\ asked' = IF Exists(t) /\ req[c].description # None
                    THEN [asked EXCEPT ![t] = d] ELSE asked
        /\ Goto(c, "delete_fts")
        /\ UNCHANGED <<tasks_fts, sized, chain, minute, req, locals, calls,
                       spoilt, overlapped, orphaned, found>>

UpdateDescription(c) ==
    \/ pc[c] = "update" /\ UpdateRow(c, req[c].description)
    \/ pc[c] = "merge" /\ Merged(c) # None /\ UpdateRow(c, Merged(c))

\* DELETE FROM tasks_fts: of the description that the row has now.
DeleteFts(c) ==
    LET t == req[c].task
    IN  /\ pc[c] = "delete_fts"
        /\ IF Exists(t) /\ tasks[t].row \in sized
           THEN /\ tasks_fts' = tasks_fts \ {<<tasks[t].row, tasks[t].description>>}
                /\ sized' = sized \ {tasks[t].row}
           ELSE UNCHANGED <<tasks_fts, sized>>
        /\ Goto(c, "insert_fts")
        /\ UNCHANGED <<tasks, chain, minute, req, locals, calls, history>>

\* A text without words has no postings.
Postings(r, d) == IF d = Empty THEN {} ELSE {<<r, d>>}

IndexAs(c, d) ==
    LET t == req[c].task
    IN  /\ pc[c] = "insert_fts"
        /\ IF Exists(t)
           THEN /\ tasks_fts' = tasks_fts \cup Postings(tasks[t].row, d)
                /\ sized' = sized \cup {tasks[t].row}
                /\ spoilt' = spoilt \ {tasks[t].row}
           ELSE UNCHANGED <<tasks_fts, sized, spoilt>>
        /\ Leave(c)
        /\ UNCHANGED <<tasks, chain, minute, calls, overlapped, asked, orphaned, found>>

\* Variants: what the call wrote is indexed, not what the row has; an empty
\* description is not indexed, as when a task is created.
InsertFtsOfCall(c) == IndexAs(c, Merged(c))
InsertFtsUnlessEmpty(c) ==
    /\ pc[c] = "insert_fts"
    /\ IF Exists(req[c].task) /\ tasks[req[c].task].description = Empty
       THEN Leave(c) /\ UNCHANGED <<store, chain, minute, calls, history>>
       ELSE IndexAs(c, tasks[req[c].task].description)

\* INSERT INTO tasks_fts SELECT rowid, description FROM tasks
InsertFts(c) == IndexAs(c, tasks[req[c].task].description)

\* The rows whose index is left behind if call c stops here.
Spoils(c) == { tasks[t].row : t \in { s \in Task : Exists(s) /\ s = req[c].task } }

\* Errors of the two statements are ignored: let _ = ...
FtsFails(c) ==
    /\ Faults /\ pc[c] \in Syncing
    /\ IF pc[c] = "delete_fts"
       THEN Goto(c, "insert_fts") /\ UNCHANGED <<req, locals, spoilt>>
       ELSE Leave(c) /\ spoilt' = spoilt \cup Spoils(c)
    /\ UNCHANGED <<store, chain, minute, calls, overlapped, asked, orphaned, found>>

\* Statements of TaskSystem: the first transition, and the discard of a task.
Activate(t) ==
    /\ Exists(t) /\ tasks[t].pending
    /\ tasks' = [tasks EXCEPT ![t].pending = FALSE]
    /\ UNCHANGED <<tasks_fts, sized, chain, minute, pc, req, locals, calls, history>>

Discard(t) ==
    /\ Exists(t)
    /\ tasks' = [tasks EXCEPT ![t] = None]
    /\ spoilt' = IF \E c \in Client : pc[c] = "insert_fts" /\ req[c].task = t
                 THEN spoilt \cup {tasks[t].row} ELSE spoilt
    /\ overlapped' = IF \E c \in Client : At(c, t) THEN overlapped \cup {t} ELSE overlapped
    /\ UNCHANGED <<tasks_fts, sized, chain, minute, pc, req, locals, calls, asked, orphaned, found>>

-------------------------------------------------------------------------------
(* Anchors: create and mark_superseded. *)

\* The id is the minute in which the call begins.
CreateAnchor(c) ==
    \E r \in Request :
        /\ r.op = "anchor"
        /\ Begin(c, r, "read_facts")
        /\ anchor_id' = [anchor_id EXCEPT ![c] = <<r.task, minute>>]
        /\ uris' = [uris EXCEPT ![c] = r.supersedes]
        /\ UNCHANGED <<store, chain, minute, base, facts, marks, spoilt, asked, orphaned, found>>

\* An anchor that is not there is skipped, as is one that cannot be read.
SkipTarget(c) ==
    /\ pc[c] \in {"read_facts", "write_facts"} /\ uris[c] # << >>
    /\ Faults \/ (pc[c] = "read_facts" /\ anchors[Head(uris[c])] = None)
    /\ uris' = [uris EXCEPT ![c] = Tail(@)] /\ facts' = [facts EXCEPT ![c] = None]
    /\ Goto(c, "read_facts")
    /\ UNCHANGED <<store, chain, minute, req, base, anchor_id, marks, calls, history>>

ReadFacts(c) ==
    /\ pc[c] = "read_facts" /\ uris[c] # << >> /\ anchors[Head(uris[c])] # None
    /\ facts' = [facts EXCEPT ![c] = anchors[Head(uris[c])].facts]
    /\ Goto(c, "write_facts")
    /\ UNCHANGED <<store, chain, minute, req, base, anchor_id, uris, marks, calls, history>>

\* Variant: the anchor is marked as superseded by itself.
MarkedByItself(c, a) ==
    IF facts[c] \in Objects
    THEN [anchors[a] EXCEPT !.facts = facts[c], !.superseded_by = a]
    ELSE [anchors[a] EXCEPT !.facts = Blank]

\* Every fact gets a status and a successor; facts that do not parse are gone.
Marked(c, a) ==
    IF facts[c] \in Objects
    THEN [anchors[a] EXCEPT !.facts = facts[c], !.superseded_by = anchor_id[c]]
    ELSE [anchors[a] EXCEPT !.facts = Blank]

\* A mark is that of the call that wrote it last.
WriteFacts(c) ==
    LET a == Head(uris[c])
    IN  /\ pc[c] = "write_facts"
        /\ anchors' = [anchors EXCEPT ![a] = Marked(c, a)]
        /\ IF facts[c] \in Objects
           THEN /\ marks' = [d \in Client |-> IF d = c THEN marks[d] \cup {a} ELSE marks[d] \ {a}]
                /\ orphaned' = orphaned \ {a}
           ELSE UNCHANGED <<marks, orphaned>>
        /\ uris' = [uris EXCEPT ![c] = Tail(@)] /\ facts' = [facts EXCEPT ![c] = None]
        /\ Goto(c, "read_facts")
        /\ UNCHANGED <<store, anchors_fts, minute, req, base, anchor_id, calls,
                       spoilt, overlapped, asked, found>>

Inserted == { a \in Anchor : anchors[a] # None }
NewAnchor(c) ==
    [facts |-> req[c].facts, superseded_by |-> None, nr |-> Cardinality(Inserted)]

\* Variant: an anchor of the same minute is replaced.
InsertOrReplaceAnchor(c) ==
    /\ pc[c] = "read_facts" /\ uris[c] = << >>
    /\ anchors' = [anchors EXCEPT ![anchor_id[c]] = NewAnchor(c)]
    /\ Goto(c, "anchor_fts") /\ marks' = [marks EXCEPT ![c] = {}]
    /\ UNCHANGED <<store, anchors_fts, minute, req, base, anchor_id, uris, facts, calls, history>>

InsertAnchor(c) ==
    /\ pc[c] = "read_facts" /\ uris[c] = << >> /\ anchors[anchor_id[c]] = None
    /\ anchors' = [anchors EXCEPT ![anchor_id[c]] = NewAnchor(c)]
    /\ Goto(c, "anchor_fts") /\ marks' = [marks EXCEPT ![c] = {}]
    /\ UNCHANGED <<store, anchors_fts, minute, req, base, anchor_id, uris, facts, calls, history>>

\* The task has an anchor of this minute: the call ends with an error.
AnchorTaken(c) ==
    /\ pc[c] = "read_facts" /\ uris[c] = << >> /\ anchors[anchor_id[c]] # None
    /\ orphaned' = orphaned \cup marks[c]
    /\ Leave(c)
    /\ UNCHANGED <<store, chain, minute, calls, spoilt, overlapped, asked, found>>

SyncAnchorFts(c) ==
    /\ pc[c] = "anchor_fts"
    /\ anchors_fts' = anchors_fts \cup {<<anchor_id[c], req[c].facts>>}
    /\ found' = found \cup {<<anchor_id[c], req[c].facts>>}
    /\ Leave(c)
    /\ UNCHANGED <<store, anchors, minute, calls, spoilt, overlapped, asked, orphaned>>

MinutePasses ==
    /\ minute < MaxMinute
    /\ minute' = minute + 1
    /\ UNCHANGED <<store, chain, pc, req, locals, calls, history>>

\* A statement fails and the error is returned, the caller is gone, or the
\* kernel restarts.
Abort(c) ==
    /\ Faults /\ pc[c] # "idle"
    /\ spoilt' = IF pc[c] \in Syncing THEN spoilt \cup Spoils(c) ELSE spoilt
    /\ orphaned' = orphaned \cup marks[c]
    /\ Leave(c)
    /\ UNCHANGED <<store, chain, minute, calls, overlapped, asked, found>>

Step(c) ==
    \/ Write(c) \/ Patch(c) \/ CreateTaken(c) \/ CreateTask(c) \/ PatchNothing(c)
    \/ UpdateDescription(c) \/ DeleteFts(c) \/ InsertFts(c) \/ FtsFails(c)
    \/ CreateAnchor(c) \/ SkipTarget(c) \/ ReadFacts(c) \/ WriteFacts(c)
    \/ InsertAnchor(c) \/ AnchorTaken(c) \/ SyncAnchorFts(c) \/ Abort(c)

Next ==
    \/ MinutePasses
    \/ \E t \in Task : Activate(t) \/ Discard(t)
    \/ \E c \in Client : Step(c)

Spec == Init /\ [][Next]_vars

-------------------------------------------------------------------------------
(* Properties. *)

TaskRow == [row : Row, description : Text, pending : BOOLEAN]
AnchorRow == [facts : Facts, superseded_by : Anchor \cup {None}, nr : Nat]

Places == {"idle", "create", "update", "merge", "delete_fts", "insert_fts",
           "read_facts", "write_facts", "anchor_fts"}
Creating == {"read_facts", "write_facts", "anchor_fts"}

StoreOK ==
    /\ tasks \in [Task -> TaskRow \cup {None}]
    /\ \A s, t \in Task : Exists(s) /\ Exists(t) /\ tasks[s].row = tasks[t].row => s = t
    /\ tasks_fts \subseteq Row \X Text /\ sized \subseteq Row
    /\ anchors \in [Anchor -> AnchorRow \cup {None}]
    /\ anchors_fts \subseteq Anchor \X Facts
    /\ minute \in Minute

LocalsOK ==
    /\ pc \in [Client -> Places] /\ req \in [Client -> Request \cup {None}]
    /\ base \in [Client -> Text \cup {None}]
    /\ anchor_id \in [Client -> Anchor \cup {None}]
    /\ uris \in [Client -> Seq(Anchor)] /\ facts \in [Client -> Facts \cup {None}]
    /\ marks \in [Client -> SUBSET Anchor]

CallOK(c) ==
    /\ pc[c] = "idle" <=> req[c] = None
    /\ anchor_id[c] # None <=> pc[c] \in Creating
    /\ pc[c] \in Creating => req[c].op = "anchor"
    /\ pc[c] \in {"create", "update"} => req[c].op = pc[c]
    /\ pc[c] = "merge" => req[c].op = "patch"
    /\ pc[c] \in Syncing => req[c].op \in {"create", "update", "patch"}
    /\ pc[c] = "write_facts" => /\ uris[c] # << >> /\ facts[c] # None
                                /\ anchors[Head(uris[c])] # None

HistoryOK ==
    /\ calls \in 0..MaxCalls
    /\ spoilt \subseteq Row /\ overlapped \subseteq Task /\ orphaned \subseteq Anchor
    /\ asked \in [Task -> Text \cup {None}] /\ found \subseteq Anchor \X Facts

(* Types; tasks have rows of their own; a call that is not creating an     *)
(* anchor has none, and one that is marking an anchor has read its facts.  *)
TypeOK ==
    StoreOK /\ LocalsOK /\ HistoryOK /\ \A c \in Client : CallOK(c)

(* A task that is not pending is found by its description, unless a call   *)
(* on it has not finished or the index was left behind by a failure: that  *)
(* calls overlap, that tasks are discarded and their row numbers used      *)
(* again does no harm.  An anchor whose creation returned Ok is found by   *)
(* the facts it was created with.                                          *)
Found ==
    /\ \A t \in Task :
         /\ Exists(t) /\ ~tasks[t].pending
         /\ tasks[t].description # Empty /\ tasks[t].row \notin spoilt
         /\ \A c \in Client : pc[c] \in Syncing => req[c].task # t
         => t \in L2Hits(tasks[t].description)
    /\ \A p \in found : p[1] \in L1Hits(p[2])

(* A search fails only while an update is between its two statements, or   *)
(* after one was left there: by a failure, or by the discard of its task.  *)
SearchWorks ==
    \A q \in Text : SearchFails(q) =>
        \E r \in Row :
            /\ <<r, q>> \in tasks_fts
            /\ \/ r \in spoilt
               \/ \E c \in Client : pc[c] = "insert_fts" /\ r \in Spoils(c)

(* While no two calls overlap on a task, its description is the one that   *)
(* was last asked for: a patch of other fields, which writes back the      *)
(* description it has read, keeps it.                                      *)
PatchKeepsDescription ==
    \A t \in Task \ overlapped : Exists(t) => tasks[t].description = asked[t]

(* An anchor stays, and once it is superseded it is never current again.   *)
SupersededStays ==
    [][\A a \in Anchor : anchors[a] # None =>
         /\ anchors'[a] # None
         /\ anchors[a].superseded_by # None => anchors'[a].superseded_by # None]_vars

(* What supersedes an anchor is an anchor inserted after it, so that the   *)
(* chain never closes.  This is said of every mark, except while the call  *)
(* that wrote it has not inserted its own anchor, and for good if it never *)
(* did: it was cut short, or found that the minute was taken.              *)
SupersededByLater ==
    \A a \in Anchor \ (orphaned \cup UNION { marks[c] : c \in Client }) :
        LET b == anchors[a].superseded_by
        IN  anchors[a] # None /\ b # None
            => anchors[b] # None /\ anchors[a].nr < anchors[b].nr
===============================================================================
