--------------------------- MODULE SearchIndexProofs ---------------------------
(***************************************************************************)
(* Theorems about SearchIndex: for any callers, tasks, texts, requests and *)
(* interleavings, wherever calls fail or are cut short.                    *)
(***************************************************************************)
EXTENDS SearchIndex, FiniteSetTheorems, TLAPS

-------------------------------------------------------------------------------
(* Requests and places *)

LEMMA RequestCases ==
  ASSUME NEW r \in Request
  PROVE  /\ r # None /\ r.task \in Task
         /\ r.op \in {"create", "update", "patch", "anchor"}
         /\ r.op \in {"create", "update"} => r.description \in Text /\ r.description # None
         /\ r.op = "patch" => r.description \in Text \cup {None}
         /\ r.op = "anchor" => r.facts \in Facts /\ r.supersedes \in Seq(Anchor)
<1>1. /\ Request \subseteq [op : {"create", "update"}, task : Task, description : Text]
                   \cup [op : {"patch"}, task : Task, description : Text \cup {None}]
                   \cup [op : {"anchor"}, task : Task, facts : Facts, supersedes : Seq(Anchor)]
      /\ None \notin Text /\ None \notin Request
  BY ConstantsOK
<1>2. CASE r \in [op : {"create", "update"}, task : Task, description : Text]
  BY <1>1, <1>2
<1>3. CASE r \in [op : {"patch"}, task : Task, description : Text \cup {None}]
  BY <1>1, <1>3
<1>4. CASE r \in [op : {"anchor"}, task : Task, facts : Facts, supersedes : Seq(Anchor)]
  BY <1>1, <1>4
<1> QED
  BY <1>1, <1>2, <1>3, <1>4

\* What the call of c is about, at each place.
LEMMA CallFacts ==
  ASSUME TypeOK, NEW c \in Client, pc[c] # "idle"
  PROVE  /\ req[c] \in Request /\ req[c].task \in Task /\ CallOK(c)
         /\ pc[c] \in {"create", "update"} => req[c].description \in Text
                                              /\ req[c].description # None
         /\ pc[c] \in {"merge", "delete_fts", "insert_fts"}
              => req[c].description \in Text \cup {None}
         /\ pc[c] \in Creating => /\ req[c].facts \in Facts
                                  /\ anchor_id[c] \in Anchor /\ anchor_id[c] # None
<1>1. CallOK(c) /\ LocalsOK
  BY DEF TypeOK
<1>2. req[c] \in Request
  BY <1>1 DEF CallOK, LocalsOK
<1>3. pc[c] \in Creating => anchor_id[c] \in Anchor /\ anchor_id[c] # None
  BY <1>1 DEF CallOK, LocalsOK
<1> QED
  BY <1>1, <1>2, <1>3, RequestCases DEF CallOK, Syncing

-------------------------------------------------------------------------------
(* Types *)

LEMMA LeaveType ==
  ASSUME LocalsOK, NEW c \in Client, Leave(c)
  PROVE  LocalsOK'
BY DEF Leave, LocalsOK, Places

\* A call that ends is consistent, and so are the ones that are not concerned.
LEMMA OtherCalls ==
  ASSUME NEW c \in Client, LocalsOK, \A d \in Client : CallOK(d),
         \A d \in Client \ {c} : /\ pc'[d] = pc[d] /\ req'[d] = req[d]
                                 /\ anchor_id'[d] = anchor_id[d]
                                 /\ uris'[d] = uris[d] /\ facts'[d] = facts[d],
         \A a \in Anchor : anchors[a] # None => anchors'[a] # None,
         CallOK(c)'
  PROVE  \A d \in Client : CallOK(d)'
<1> SUFFICES ASSUME NEW d \in Client, d # c PROVE CallOK(d)'
  OBVIOUS
<1>1. CallOK(d)
  OBVIOUS
<1>2. uris[d] # << >> => Head(uris[d]) \in Anchor
  BY DEF LocalsOK
<1> QED
  BY <1>1, <1>2 DEF CallOK

LEMMA LeaveCalls ==
  ASSUME NEW c \in Client, LocalsOK, \A d \in Client : CallOK(d), Leave(c),
         \A a \in Anchor : anchors[a] # None => anchors'[a] # None
  PROVE  \A d \in Client : CallOK(d)'
<1>1. \A d \in Client \ {c} : /\ pc'[d] = pc[d] /\ req'[d] = req[d]
                              /\ anchor_id'[d] = anchor_id[d]
                              /\ uris'[d] = uris[d] /\ facts'[d] = facts[d]
  BY DEF Leave, LocalsOK
<1>2. CallOK(c)'
  BY DEF Leave, LocalsOK, CallOK, Creating, Syncing
<1> QED
  BY <1>1, <1>2, OtherCalls

\* A step that only moves c keeps the calls consistent if c stays so.
LEMMA GotoCalls ==
  ASSUME NEW c \in Client, NEW at \in Places, LocalsOK, \A d \in Client : CallOK(d), Goto(c, at),
         UNCHANGED <<req, locals>>,
         \A a \in Anchor : anchors[a] # None => anchors'[a] # None,
         CallOK(c)'
  PROVE  LocalsOK' /\ \A d \in Client : CallOK(d)'
<1>1. \A d \in Client \ {c} : /\ pc'[d] = pc[d] /\ req'[d] = req[d]
                              /\ anchor_id'[d] = anchor_id[d]
                              /\ uris'[d] = uris[d] /\ facts'[d] = facts[d]
  BY DEF Goto, LocalsOK, locals
<1>2. LocalsOK'
  BY DEF Goto, LocalsOK, locals
<1> QED
  BY <1>1, <1>2, OtherCalls

LEMMA BeginType ==
  ASSUME TypeOK, NEW c \in Client, NEW r \in Request, NEW at \in Places, Begin(c, r, at)
  PROVE  /\ pc' \in [Client -> Places] /\ req' \in [Client -> Request \cup {None}]
         /\ calls' \in 0..MaxCalls /\ overlapped' \subseteq Task
         /\ pc'[c] = at /\ req'[c] = r /\ pc[c] = "idle"
         /\ \A d \in Client \ {c} : pc'[d] = pc[d] /\ req'[d] = req[d]
<1>1. r.task \in Task
  BY RequestCases
<1>2. calls' \in 0..MaxCalls
  BY ConstantsOK DEF Begin, TypeOK, HistoryOK
<1> QED
  BY <1>1, <1>2 DEF Begin, TypeOK, LocalsOK, HistoryOK

LEMMA WriteType ==
  ASSUME TypeOK, NEW c \in Client, Write(c) PROVE TypeOK'
<1>1. PICK r \in Request : /\ r.op \in {"create", "update"} /\ Begin(c, r, r.op)
                           /\ UNCHANGED <<store, chain, minute, locals, spoilt, asked, orphaned, found>>
  BY DEF Write
<1>2. r.op \in Places /\ r # None
  BY <1>1, RequestCases DEF Places
<1>3. /\ LocalsOK' /\ StoreOK' /\ HistoryOK'
  BY <1>1, <1>2, BeginType DEF TypeOK, LocalsOK, StoreOK, HistoryOK, locals, store, chain, Exists
<1>4. CallOK(c)'
  <2>1. /\ pc[c] = "idle" /\ pc'[c] = r.op /\ req'[c] = r /\ anchor_id' = anchor_id
    BY <1>1, <1>2, BeginType DEF locals
  <2>2. anchor_id[c] = None
    BY <2>1 DEF TypeOK, CallOK, Creating
  <2> QED
    BY <1>1, <1>2, <2>1, <2>2 DEF CallOK, Creating, Syncing
<1>5. \A d \in Client : CallOK(d)'
  BY <1>1, <1>2, <1>4, BeginType, OtherCalls DEF TypeOK, locals, chain
<1> QED
  BY <1>3, <1>5 DEF TypeOK

LEMMA PatchType ==
  ASSUME TypeOK, NEW c \in Client, Patch(c) PROVE TypeOK'
<1>1. PICK r \in Request : /\ r.op = "patch" /\ Begin(c, r, "merge")
                           /\ base' = [base EXCEPT ![c] = IF Exists(r.task)
                                          THEN tasks[r.task].description ELSE None]
                           /\ UNCHANGED <<store, chain, minute, anchor_id, uris, facts, marks,
                                          spoilt, asked, orphaned, found>>
  BY DEF Patch
<1>2. r.task \in Task /\ r # None /\ "merge" \in Places
  BY <1>1, RequestCases DEF Places
<1>3. base' \in [Client -> Text \cup {None}]
  <2>1. Exists(r.task) => tasks[r.task].description \in Text
    BY <1>2 DEF TypeOK, StoreOK, TaskRow, Exists
  <2> QED
    BY <1>1, <2>1 DEF TypeOK, LocalsOK
<1>4. /\ LocalsOK' /\ StoreOK' /\ HistoryOK'
  BY <1>1, <1>2, <1>3, BeginType DEF TypeOK, LocalsOK, StoreOK, HistoryOK, store, chain, Exists
<1>5. CallOK(c)'
  <2>1. pc[c] = "idle" /\ pc'[c] = "merge" /\ req'[c] = r /\ anchor_id' = anchor_id
    BY <1>1, <1>2, BeginType
  <2>2. anchor_id[c] = None
    BY <2>1 DEF TypeOK, CallOK, Creating
  <2> QED
    BY <1>1, <1>2, <2>1, <2>2 DEF CallOK, Creating, Syncing
<1>6. \A d \in Client \ {c} : /\ pc'[d] = pc[d] /\ req'[d] = req[d]
                              /\ anchor_id'[d] = anchor_id[d]
                              /\ uris'[d] = uris[d] /\ facts'[d] = facts[d]
  BY <1>1, <1>2, BeginType DEF TypeOK, LocalsOK
<1>7. \A d \in Client : CallOK(d)'
  BY <1>1, <1>5, <1>6, OtherCalls DEF TypeOK, chain
<1> QED
  BY <1>4, <1>7 DEF TypeOK

LEMMA CreateAnchorType ==
  ASSUME TypeOK, NEW c \in Client, CreateAnchor(c) PROVE TypeOK'
<1>1. PICK r \in Request : /\ r.op = "anchor" /\ Begin(c, r, "read_facts")
                           /\ anchor_id' = [anchor_id EXCEPT ![c] = <<r.task, minute>>]
                           /\ uris' = [uris EXCEPT ![c] = r.supersedes]
                           /\ UNCHANGED <<store, chain, minute, base, facts, marks,
                                          spoilt, asked, orphaned, found>>
  BY DEF CreateAnchor
<1>2. r.task \in Task /\ r # None /\ r.supersedes \in Seq(Anchor) /\ "read_facts" \in Places
  BY <1>1, RequestCases DEF Places
<1>3. <<r.task, minute>> \in Anchor /\ <<r.task, minute>> # None
  BY <1>2, ConstantsOK DEF TypeOK, StoreOK, Anchor
<1>4. /\ LocalsOK' /\ StoreOK' /\ HistoryOK'
  BY <1>1, <1>2, <1>3, BeginType DEF TypeOK, LocalsOK, StoreOK, HistoryOK, store, chain, Exists
<1>5. CallOK(c)'
  BY <1>1, <1>2, <1>3, BeginType DEF TypeOK, LocalsOK, CallOK, Creating, Syncing
<1>6. \A d \in Client \ {c} : /\ pc'[d] = pc[d] /\ req'[d] = req[d]
                              /\ anchor_id'[d] = anchor_id[d]
                              /\ uris'[d] = uris[d] /\ facts'[d] = facts[d]
  BY <1>1, <1>2, BeginType DEF TypeOK, LocalsOK
<1>7. \A d \in Client : CallOK(d)'
  BY <1>1, <1>5, <1>6, OtherCalls DEF TypeOK, chain
<1> QED
  BY <1>4, <1>7 DEF TypeOK

LEMMA CreateTaskType ==
  ASSUME TypeOK, NEW c \in Client, CreateTask(c) PROVE TypeOK'
<1> DEFINE t == req[c].task
           d == req[c].description
<1>1. pc[c] = "create" /\ ~Exists(t)
  BY DEF CreateTask
<1>2. t \in Task /\ d \in Text /\ CallOK(c) /\ req[c].op = "create"
  BY <1>1, CallFacts DEF CallOK
<1>3. PICK r \in Row : /\ NextRow(r)
                       /\ tasks' = [tasks EXCEPT ![t] = [row |-> r, description |-> d, pending |-> TRUE]]
  BY DEF CreateTask
<1>4. \A s \in Task : Exists(s) => tasks[s].row # r
  <2>1. ASSUME NEW s \in Task, Exists(s) PROVE tasks[s].row # r
    <3>1. tasks[s].row \in Nat /\ r \in Nat
      BY <2>1, ConstantsOK DEF TypeOK, StoreOK, TaskRow, Row, Exists
    <3>2. tasks[s].row < r
      BY <1>3, <2>1 DEF NextRow
    <3> QED
      BY <3>1, <3>2
  <2> QED
    BY <2>1
<1>5. tasks' \in [Task -> TaskRow \cup {None}]
  BY <1>2, <1>3 DEF TypeOK, StoreOK, TaskRow
<1>6. \A s, u \in Task : Exists(s)' /\ Exists(u)' /\ tasks'[s].row = tasks'[u].row => s = u
  <2>1. \A s \in Task \ {t} : tasks'[s] = tasks[s]
    BY <1>2, <1>3 DEF TypeOK, StoreOK
  <2>2. tasks'[t].row = r
    BY <1>2, <1>3 DEF TypeOK, StoreOK
  <2> QED
    BY <1>2, <1>4, <2>1, <2>2 DEF TypeOK, StoreOK, Exists
<1>7. StoreOK'
  BY <1>5, <1>6 DEF CreateTask, StoreOK, TypeOK, chain, Exists
<1>8. HistoryOK'
  BY <1>2 DEF CreateTask, HistoryOK, TypeOK
<1>9. LocalsOK' /\ \A e \in Client : CallOK(e)'
  <2>1. CASE d = Empty
    BY <2>1, LeaveType, LeaveCalls DEF CreateTask, TypeOK, chain
  <2>2. CASE d # Empty
    <3>1. "insert_fts" \in Places /\ Goto(c, "insert_fts") /\ UNCHANGED <<req, locals, chain>>
      BY <2>2 DEF CreateTask, Places
    <3>2. CallOK(c)'
      BY <3>1, <1>1, <1>2 DEF Goto, CallOK, TypeOK, LocalsOK, Creating, Syncing, locals
    <3> QED
      BY <3>1, <3>2, GotoCalls DEF TypeOK, chain
  <2> QED
    BY <2>1, <2>2
<1> QED
  BY <1>7, <1>8, <1>9 DEF TypeOK

\* Descriptions and the pending flag may change, and tasks go; rows stay.
LEMMA TasksType ==
  ASSUME StoreOK, tasks' \in [Task -> TaskRow \cup {None}],
         \A t \in Task : Exists(t)' => Exists(t) /\ tasks'[t].row = tasks[t].row,
         tasks_fts' \subseteq Row \X Text, sized' \subseteq Row,
         UNCHANGED <<chain, minute>>
  PROVE  StoreOK'
BY DEF StoreOK, chain, Exists

LEMMA UpdateRowType ==
  ASSUME TypeOK, NEW c \in Client, pc[c] \in {"update", "merge"}, NEW d \in Text, UpdateRow(c, d)
  PROVE  TypeOK'
<1> DEFINE t == req[c].task
<1>1. t \in Task /\ CallOK(c) /\ req[c].op \in {"update", "patch"}
  BY CallFacts DEF CallOK
<1>2. tasks' \in [Task -> TaskRow \cup {None}]
      /\ \A s \in Task : Exists(s)' => Exists(s) /\ tasks'[s].row = tasks[s].row
  <2>1. CASE Exists(t)
    <3>1. tasks[t] \in TaskRow
      BY <1>1, <2>1 DEF Exists, TypeOK, StoreOK
    <3>2. [tasks[t] EXCEPT !.description = d] \in TaskRow
      BY <3>1 DEF TaskRow
    <3>3. tasks' = [tasks EXCEPT ![t] = [tasks[t] EXCEPT !.description = d]]
      BY <2>1 DEF UpdateRow
    <3>4. [tasks[t] EXCEPT !.description = d].row = tasks[t].row
      BY <3>1 DEF TaskRow
    <3> QED
      BY <1>1, <2>1, <3>2, <3>3, <3>4 DEF TypeOK, StoreOK, Exists
  <2>2. CASE ~Exists(t)
    BY <2>2 DEF UpdateRow, TypeOK, StoreOK, Exists
  <2> QED
    BY <2>1, <2>2
<1>3. StoreOK'
  BY <1>2, TasksType DEF UpdateRow, TypeOK, StoreOK
<1>4. HistoryOK'
  BY <1>1 DEF UpdateRow, HistoryOK, TypeOK
<1>5. "delete_fts" \in Places /\ Goto(c, "delete_fts") /\ UNCHANGED <<req, locals, chain>>
  BY DEF UpdateRow, Places
<1>6. CallOK(c)'
  BY <1>5, <1>1 DEF Goto, CallOK, TypeOK, LocalsOK, Creating, Syncing, locals
<1> QED
  BY <1>3, <1>4, <1>5, <1>6, GotoCalls DEF TypeOK, chain

LEMMA MergedType ==
  ASSUME TypeOK, NEW c \in Client, pc[c] = "merge", Merged(c) # None
  PROVE  Merged(c) \in Text
<1>1. req[c].description \in Text \cup {None}
  BY CallFacts
<1> QED
  BY <1>1 DEF Merged, TypeOK, LocalsOK

LEMMA UpdateType ==
  ASSUME TypeOK, NEW c \in Client, UpdateDescription(c) PROVE TypeOK'
<1>1. CASE pc[c] = "update" /\ UpdateRow(c, req[c].description)
  BY <1>1, CallFacts, UpdateRowType
<1>2. CASE pc[c] = "merge" /\ Merged(c) # None /\ UpdateRow(c, Merged(c))
  BY <1>2, MergedType, UpdateRowType
<1> QED
  BY <1>1, <1>2 DEF UpdateDescription

LEMMA DeleteFtsType ==
  ASSUME TypeOK, NEW c \in Client, DeleteFts(c) PROVE TypeOK'
<1>1. pc[c] = "delete_fts" /\ Goto(c, "insert_fts") /\ UNCHANGED <<tasks, chain, minute, req, locals>>
  BY DEF DeleteFts
<1>2. CallOK(c) /\ req[c].op \in {"create", "update", "patch"}
  BY <1>1, CallFacts DEF CallOK, Syncing
<1>3. tasks_fts' \subseteq tasks_fts /\ sized' \subseteq sized
  BY DEF DeleteFts
<1>4. StoreOK'
  BY <1>1, <1>3, TasksType DEF TypeOK, StoreOK, Exists
<1>5. HistoryOK'
  BY DEF DeleteFts, TypeOK, HistoryOK, history
<1>6. "insert_fts" \in Places
  BY DEF Places
<1>7. CallOK(c)'
  BY <1>1, <1>2 DEF Goto, CallOK, TypeOK, LocalsOK, Creating, Syncing, locals
<1> QED
  BY <1>1, <1>4, <1>5, <1>6, <1>7, GotoCalls DEF TypeOK, chain

\* What the last statement of a sync does, in short.
LEMMA InsertFtsFacts ==
  ASSUME TypeOK, NEW c \in Client, InsertFts(c)
  PROVE  /\ pc[c] = "insert_fts" /\ Leave(c) /\ req[c].task \in Task
         /\ UNCHANGED <<tasks, chain, minute, calls, overlapped, asked, orphaned, found>>
         /\ ~Exists(req[c].task) => UNCHANGED <<tasks_fts, sized, spoilt>>
         /\ Exists(req[c].task) =>
              LET k == tasks[req[c].task]
              IN  /\ k \in TaskRow
                  /\ tasks_fts' = tasks_fts \cup Postings(k.row, k.description)
                  /\ sized' = sized \cup {k.row} /\ spoilt' = spoilt \ {k.row}
<1>1. pc[c] = "insert_fts"
  BY DEF InsertFts, IndexAs
<1>2. req[c].task \in Task
  BY <1>1, CallFacts
<1>3. Exists(req[c].task) => tasks[req[c].task] \in TaskRow
  BY <1>2 DEF Exists, TypeOK, StoreOK
<1> QED
  BY <1>1, <1>2, <1>3 DEF InsertFts, IndexAs

LEMMA InsertFtsType ==
  ASSUME TypeOK, NEW c \in Client, InsertFts(c) PROVE TypeOK'
<1>1. /\ tasks_fts' \subseteq Row \X Text /\ sized' \subseteq Row /\ spoilt' \subseteq Row
  BY InsertFtsFacts DEF TypeOK, StoreOK, HistoryOK, Postings, TaskRow
<1>2. Leave(c) /\ UNCHANGED <<tasks, chain, minute, calls, overlapped, asked, orphaned, found>>
  BY InsertFtsFacts
<1>3. StoreOK'
  BY <1>1, <1>2, TasksType DEF TypeOK, StoreOK, Exists
<1>4. HistoryOK'
  BY <1>1, <1>2 DEF TypeOK, HistoryOK
<1> QED
  BY <1>2, <1>3, <1>4, LeaveType, LeaveCalls DEF TypeOK, chain

LEMMA SpoilsType ==
  ASSUME TypeOK, NEW c \in Client PROVE Spoils(c) \subseteq Row
BY DEF Spoils, TypeOK, StoreOK, TaskRow, Exists

LEMMA FtsFailsType ==
  ASSUME TypeOK, NEW c \in Client, FtsFails(c) PROVE TypeOK'
<1>1. StoreOK'
  BY TasksType DEF FtsFails, TypeOK, store, StoreOK, Exists
<1>2. HistoryOK'
  BY SpoilsType DEF FtsFails, TypeOK, HistoryOK
<1>3. LocalsOK' /\ \A e \in Client : CallOK(e)'
  <2>1. CASE pc[c] = "delete_fts"
    <3>1. "insert_fts" \in Places /\ Goto(c, "insert_fts") /\ UNCHANGED <<req, locals, chain>>
      BY <2>1 DEF FtsFails, Places
    <3>2. CallOK(c) /\ req[c].op \in {"create", "update", "patch"}
      BY <2>1, CallFacts DEF CallOK, Syncing
    <3>3. CallOK(c)'
      BY <3>1, <3>2, <2>1 DEF Goto, CallOK, TypeOK, LocalsOK, Creating, Syncing, locals
    <3> QED
      BY <3>1, <3>3, GotoCalls DEF TypeOK, chain
  <2>2. CASE pc[c] # "delete_fts"
    BY <2>2, LeaveType, LeaveCalls DEF FtsFails, TypeOK, chain
  <2> QED
    BY <2>1, <2>2
<1> QED
  BY <1>1, <1>2, <1>3 DEF TypeOK

LEMMA ActivateType ==
  ASSUME TypeOK, NEW t \in Task, Activate(t) PROVE TypeOK'
<1>1. Exists(t) /\ tasks[t] \in TaskRow
      /\ tasks' = [tasks EXCEPT ![t] = [tasks[t] EXCEPT !.pending = FALSE]]
      /\ UNCHANGED <<tasks_fts, sized, chain, minute, pc, req, locals, calls, history>>
  BY DEF Activate, Exists, TypeOK, StoreOK
<1>2. [tasks[t] EXCEPT !.pending = FALSE] \in TaskRow
      /\ [tasks[t] EXCEPT !.pending = FALSE].row = tasks[t].row
  BY <1>1 DEF TaskRow
<1>3. tasks' \in [Task -> TaskRow \cup {None}]
      /\ \A s \in Task : Exists(s)' => Exists(s) /\ tasks'[s].row = tasks[s].row
  BY <1>1, <1>2 DEF TypeOK, StoreOK, Exists
<1>4. StoreOK'
  BY <1>1, <1>3, TasksType DEF TypeOK, StoreOK
<1>5. LocalsOK' /\ HistoryOK' /\ \A c \in Client : CallOK(c)'
  BY <1>1 DEF TypeOK, LocalsOK, HistoryOK, CallOK, locals, history, chain
<1> QED
  BY <1>4, <1>5 DEF TypeOK

LEMMA DiscardType ==
  ASSUME TypeOK, NEW t \in Task, Discard(t) PROVE TypeOK'
<1>1. Exists(t) /\ tasks[t].row \in Row
  BY DEF Discard, Exists, TypeOK, StoreOK, TaskRow
<1>2. tasks' \in [Task -> TaskRow \cup {None}]
      /\ \A s \in Task : Exists(s)' => Exists(s) /\ tasks'[s].row = tasks[s].row
  BY DEF Discard, TypeOK, StoreOK, Exists
<1>3. StoreOK'
  BY <1>2, TasksType DEF Discard, TypeOK, StoreOK
<1>4. HistoryOK'
  BY <1>1 DEF Discard, TypeOK, HistoryOK
<1>5. LocalsOK' /\ \A c \in Client : CallOK(c)'
  BY DEF Discard, TypeOK, LocalsOK, CallOK, locals, chain
<1> QED
  BY <1>3, <1>4, <1>5 DEF TypeOK

\* A call that marks anchors stays within its own locals.
LEMMA MarkingType ==
  ASSUME TypeOK, NEW c \in Client, NEW at \in Creating, pc[c] \in Creating, Goto(c, at),
         UNCHANGED <<req, base, anchor_id>>, marks' \in [Client -> SUBSET Anchor],
         uris' \in [Client -> Seq(Anchor)], facts' \in [Client -> Facts \cup {None}],
         \A d \in Client \ {c} : uris'[d] = uris[d] /\ facts'[d] = facts[d],
         at = "write_facts" => /\ uris'[c] # << >> /\ facts'[c] # None
                               /\ anchors'[Head(uris'[c])] # None,
         \A a \in Anchor : anchors[a] # None => anchors'[a] # None
  PROVE  LocalsOK' /\ \A d \in Client : CallOK(d)'
<1>1. at \in Places
  BY DEF Creating, Places
<1>2. LocalsOK'
  BY <1>1 DEF TypeOK, LocalsOK, Goto
<1>4. pc'[c] = at /\ \A d \in Client \ {c} : pc'[d] = pc[d]
  BY DEF TypeOK, LocalsOK, Goto
<1>5. req[c].op = "anchor" /\ req[c] # None /\ anchor_id[c] # None
  BY DEF TypeOK, CallOK, Creating
<1>6. CallOK(c)'
  BY <1>4, <1>5 DEF CallOK, Creating, Syncing
<1>7. \A d \in Client : CallOK(d)'
  BY <1>4, <1>6, OtherCalls DEF TypeOK
<1> QED
  BY <1>2, <1>7

LEMMA SkipTargetType ==
  ASSUME TypeOK, NEW c \in Client, SkipTarget(c) PROVE TypeOK'
<1>1. pc[c] \in Creating /\ "read_facts" \in Creating /\ Goto(c, "read_facts")
  BY DEF SkipTarget, Creating
<1>2. /\ uris' \in [Client -> Seq(Anchor)] /\ facts' \in [Client -> Facts \cup {None}]
      /\ \A d \in Client \ {c} : uris'[d] = uris[d] /\ facts'[d] = facts[d]
  BY DEF SkipTarget, TypeOK, LocalsOK
<1>3. UNCHANGED <<store, chain, minute, req, base, anchor_id, marks, calls, history>>
  BY DEF SkipTarget
<1>4. StoreOK'
  BY <1>3 DEF TypeOK, StoreOK, store, chain, Exists
<1>5. HistoryOK' /\ marks' \in [Client -> SUBSET Anchor]
  BY <1>3 DEF TypeOK, HistoryOK, LocalsOK, history
<1> QED
  BY <1>1, <1>2, <1>3, <1>4, <1>5, MarkingType DEF TypeOK, chain

\* The anchor that is read or marked next.
LEMMA HeadFacts ==
  ASSUME TypeOK, NEW c \in Client, uris[c] # << >>
  PROVE  /\ Head(uris[c]) \in Anchor /\ Tail(uris[c]) \in Seq(Anchor)
         /\ anchors[Head(uris[c])] # None => anchors[Head(uris[c])] \in AnchorRow
<1>1. uris[c] \in Seq(Anchor)
  BY DEF TypeOK, LocalsOK
<1>2. Head(uris[c]) \in Anchor /\ Tail(uris[c]) \in Seq(Anchor)
  BY <1>1
<1> QED
  BY <1>2 DEF TypeOK, StoreOK

LEMMA ReadFactsType ==
  ASSUME TypeOK, NEW c \in Client, ReadFacts(c) PROVE TypeOK'
<1>1. /\ pc[c] \in Creating /\ "write_facts" \in Creating /\ Goto(c, "write_facts")
      /\ UNCHANGED <<store, chain, minute, req, base, anchor_id, uris, marks, calls, history>>
      /\ uris[c] # << >> /\ anchors[Head(uris[c])] # None
      /\ facts' = [facts EXCEPT ![c] = anchors[Head(uris[c])].facts]
  BY DEF ReadFacts, Creating
<1>2. anchors[Head(uris[c])].facts \in Facts /\ None \notin Facts
  BY <1>1, HeadFacts, ConstantsOK DEF AnchorRow
<1>3. /\ uris' \in [Client -> Seq(Anchor)] /\ facts' \in [Client -> Facts \cup {None}]
      /\ \A d \in Client \ {c} : uris'[d] = uris[d] /\ facts'[d] = facts[d]
      /\ facts'[c] # None
  BY <1>1, <1>2 DEF TypeOK, LocalsOK
<1>4. StoreOK'
  BY <1>1 DEF TypeOK, StoreOK, store, chain, Exists
<1>5. HistoryOK' /\ marks' \in [Client -> SUBSET Anchor]
  BY <1>1 DEF TypeOK, HistoryOK, LocalsOK, history
<1> QED
  BY <1>1, <1>3, <1>4, <1>5, MarkingType DEF TypeOK, chain

\* Marking keeps the number, and puts the successor of the call or nothing new.
LEMMA MarkedFacts ==
  ASSUME TypeOK, NEW c \in Client, pc[c] = "write_facts"
  PROVE  LET a == Head(uris[c])
         IN  /\ a \in Anchor /\ anchors[a] # None /\ uris[c] # << >>
             /\ Marked(c, a) \in AnchorRow /\ Marked(c, a) # None
             /\ Marked(c, a).nr = anchors[a].nr
             /\ Marked(c, a).superseded_by \in {anchor_id[c], anchors[a].superseded_by}
             /\ anchor_id[c] \in Anchor /\ anchor_id[c] # None
<1> DEFINE a == Head(uris[c])
<1>1. uris[c] # << >> /\ facts[c] # None /\ anchors[a] # None
  BY DEF TypeOK, CallOK
<1>2. a \in Anchor /\ anchors[a] \in AnchorRow
  BY <1>1, HeadFacts
<1>3. anchor_id[c] \in Anchor /\ anchor_id[c] # None
  BY CallFacts DEF Creating
<1>4. facts[c] \in Facts /\ Blank \in Facts
  BY <1>1, ConstantsOK DEF TypeOK, LocalsOK
<1>5. Marked(c, a) \in AnchorRow /\ Marked(c, a).nr = anchors[a].nr
      /\ Marked(c, a).superseded_by \in {anchor_id[c], anchors[a].superseded_by}
  <2>1. CASE facts[c] \in Objects
    BY <2>1, <1>2, <1>3, <1>4 DEF Marked, AnchorRow
  <2>2. CASE facts[c] \notin Objects
    BY <2>2, <1>2, <1>3, <1>4 DEF Marked, AnchorRow
  <2> QED
    BY <2>1, <2>2
<1>6. None \notin AnchorRow
  BY ConstantsOK DEF AnchorRow
<1> QED
  BY <1>1, <1>2, <1>3, <1>5, <1>6

LEMMA WriteFactsType ==
  ASSUME TypeOK, NEW c \in Client, WriteFacts(c) PROVE TypeOK'
<1> DEFINE a == Head(uris[c])
<1>1. /\ pc[c] = "write_facts" /\ Goto(c, "read_facts")
      /\ anchors' = [anchors EXCEPT ![a] = Marked(c, a)]
      /\ uris' = [uris EXCEPT ![c] = Tail(@)] /\ facts' = [facts EXCEPT ![c] = None]
      /\ UNCHANGED <<store, anchors_fts, minute, req, base, anchor_id, calls,
                     spoilt, overlapped, asked, found>>
  BY DEF WriteFacts
<1>2. a \in Anchor /\ anchors[a] # None /\ uris[c] # << >>
      /\ Marked(c, a) \in AnchorRow /\ Marked(c, a) # None
  BY <1>1, MarkedFacts
<1>3. anchors' \in [Anchor -> AnchorRow \cup {None}]
      /\ \A b \in Anchor : anchors[b] # None => anchors'[b] # None
  BY <1>1, <1>2 DEF TypeOK, StoreOK
<1>4. StoreOK'
  BY <1>1, <1>3 DEF TypeOK, StoreOK, store, Exists
<1>5. /\ uris' \in [Client -> Seq(Anchor)] /\ facts' \in [Client -> Facts \cup {None}]
      /\ \A d \in Client \ {c} : uris'[d] = uris[d] /\ facts'[d] = facts[d]
  BY <1>1, <1>2, HeadFacts DEF TypeOK, LocalsOK
<1>6. pc[c] \in Creating /\ "read_facts" \in Creating
  BY <1>1 DEF Creating
<1>7. marks' \in [Client -> SUBSET Anchor] /\ orphaned' \subseteq Anchor
  <2>1. CASE facts[c] \in Objects
    <3>1. /\ marks' = [d \in Client |-> IF d = c THEN marks[d] \cup {a} ELSE marks[d] \ {a}]
          /\ orphaned' = orphaned \ {a}
      BY <2>1 DEF WriteFacts
    <3>2. \A d \in Client : marks[d] \cup {a} \subseteq Anchor /\ orphaned \subseteq Anchor
      BY <1>2 DEF TypeOK, LocalsOK, HistoryOK
    <3>3. \A d \in Client :
            (IF d = c THEN marks[d] \cup {a} ELSE marks[d] \ {a}) \in SUBSET Anchor
      BY <3>2
    <3> QED
      BY <3>1, <3>2, <3>3
  <2>2. CASE facts[c] \notin Objects
    BY <2>2 DEF WriteFacts, TypeOK, LocalsOK, HistoryOK
  <2> QED
    BY <2>1, <2>2
<1>8. HistoryOK'
  BY <1>1, <1>7 DEF TypeOK, HistoryOK
<1> QED
  BY <1>1, <1>3, <1>4, <1>5, <1>6, <1>7, <1>8, MarkingType DEF TypeOK

LEMMA NewAnchorType ==
  ASSUME TypeOK, IsFiniteSet(Inserted), NEW c \in Client, pc[c] \in Creating
  PROVE  NewAnchor(c) \in AnchorRow /\ NewAnchor(c) # None
         /\ NewAnchor(c).nr = Cardinality(Inserted) /\ Cardinality(Inserted) \in Nat
<1>1. req[c].facts \in Facts
  BY CallFacts DEF Creating
<1>2. Cardinality(Inserted) \in Nat
  BY FS_CardinalityType
<1>3. None \notin AnchorRow
  BY ConstantsOK DEF AnchorRow
<1> QED
  BY <1>1, <1>2, <1>3 DEF NewAnchor, AnchorRow

LEMMA InsertAnchorType ==
  ASSUME TypeOK, IsFiniteSet(Inserted), NEW c \in Client, InsertAnchor(c) PROVE TypeOK'
<1>1. /\ pc[c] \in Creating /\ "anchor_fts" \in Creating /\ Goto(c, "anchor_fts")
      /\ anchors' = [anchors EXCEPT ![anchor_id[c]] = NewAnchor(c)]
      /\ marks' = [marks EXCEPT ![c] = {}]
      /\ UNCHANGED <<store, anchors_fts, minute, req, base, anchor_id, uris, facts, calls, history>>
  BY DEF InsertAnchor, Creating
<1>2. anchor_id[c] \in Anchor /\ NewAnchor(c) \in AnchorRow /\ NewAnchor(c) # None
  <2>1. pc[c] \in Creating /\ pc[c] # "idle"
    BY <1>1 DEF Creating
  <2>2. anchor_id[c] \in Anchor
    BY <2>1, CallFacts
  <2> QED
    BY <2>1, <2>2, NewAnchorType
<1>3. anchors' \in [Anchor -> AnchorRow \cup {None}]
      /\ \A b \in Anchor : anchors[b] # None => anchors'[b] # None
  BY <1>1, <1>2 DEF TypeOK, StoreOK
<1>4. StoreOK'
  BY <1>1, <1>3 DEF TypeOK, StoreOK, store, Exists
<1>5. /\ uris' \in [Client -> Seq(Anchor)] /\ facts' \in [Client -> Facts \cup {None}]
      /\ \A d \in Client \ {c} : uris'[d] = uris[d] /\ facts'[d] = facts[d]
  BY <1>1 DEF TypeOK, LocalsOK
<1>6. HistoryOK' /\ marks' \in [Client -> SUBSET Anchor]
  BY <1>1 DEF TypeOK, HistoryOK, LocalsOK, history
<1> QED
  BY <1>1, <1>3, <1>4, <1>5, <1>6, MarkingType DEF TypeOK

\* A call that ends without touching the stores.
LEMMA EndType ==
  ASSUME TypeOK, NEW c \in Client, Leave(c), UNCHANGED <<store, anchors, minute>>,
         anchors_fts' \subseteq Anchor \X Facts, HistoryOK'
  PROVE  TypeOK'
<1>1. StoreOK'
  BY DEF TypeOK, StoreOK, store, Exists
<1> QED
  BY <1>1, LeaveType, LeaveCalls DEF TypeOK

LEMMA OthersType ==
  ASSUME TypeOK, NEW c \in Client,
         CreateTaken(c) \/ PatchNothing(c) \/ AnchorTaken(c) \/ SyncAnchorFts(c) \/ Abort(c)
  PROVE  TypeOK'
<1>1. CASE CreateTaken(c) \/ PatchNothing(c)
  <2>1. HistoryOK'
    BY <1>1 DEF CreateTaken, PatchNothing, TypeOK, HistoryOK, history
  <2> QED
    BY <1>1, <2>1, EndType DEF CreateTaken, PatchNothing, chain, TypeOK, StoreOK
<1>2. CASE AnchorTaken(c)
  <2>2. HistoryOK'
    BY <1>2 DEF AnchorTaken, TypeOK, HistoryOK, LocalsOK
  <2> QED
    BY <1>2, <2>2, EndType DEF AnchorTaken, chain, TypeOK, StoreOK
<1>3. CASE SyncAnchorFts(c)
  <2>1. anchor_id[c] \in Anchor /\ req[c].facts \in Facts
    BY <1>3, CallFacts DEF SyncAnchorFts, Creating
  <2>2. HistoryOK' /\ anchors_fts' \subseteq Anchor \X Facts
    BY <1>3, <2>1 DEF SyncAnchorFts, TypeOK, HistoryOK, StoreOK
  <2> QED
    BY <1>3, <2>2, EndType DEF SyncAnchorFts
<1>4. CASE Abort(c)
  <2>2. HistoryOK'
    BY <1>4, SpoilsType DEF Abort, TypeOK, HistoryOK, LocalsOK
  <2> QED
    BY <1>4, <2>2, EndType DEF Abort, chain, TypeOK, StoreOK
<1> QED
  BY <1>1, <1>2, <1>3, <1>4

-------------------------------------------------------------------------------
(* What the properties rest on.  Anchors are numbered, so only finitely *)
(* many of them have been inserted. *)

Numbered == TypeOK /\ IsFiniteSet(Inserted)

LEMMA StepType ==
  ASSUME Numbered, [Next]_vars PROVE TypeOK'
<1> USE DEF Numbered
<1>1. ASSUME NEW c \in Client, Step(c) PROVE TypeOK'
  BY <1>1, WriteType, PatchType, CreateTaskType, UpdateType, DeleteFtsType, InsertFtsType,
     FtsFailsType, CreateAnchorType, SkipTargetType, ReadFactsType, WriteFactsType,
     InsertAnchorType, OthersType DEF Step
<1>2. ASSUME NEW t \in Task, Activate(t) \/ Discard(t) PROVE TypeOK'
  BY <1>2, ActivateType, DiscardType
<1>3. CASE MinutePasses
  <2>1. minute' \in Minute
    BY <1>3, ConstantsOK DEF MinutePasses, TypeOK, StoreOK, Minute
  <2> QED
    BY <1>3, <2>1 DEF MinutePasses, TypeOK, StoreOK, LocalsOK, HistoryOK, CallOK,
       store, chain, locals, history, Exists
<1>4. CASE UNCHANGED vars
  BY <1>4 DEF vars, TypeOK, StoreOK, LocalsOK, HistoryOK, CallOK, store, chain, locals, history,
     Exists
<1> QED
  BY <1>1, <1>2, <1>3, <1>4 DEF Next

\* What becomes of the anchors in a step: one is marked or inserted, or none.
LEMMA AnchorsStep ==
  ASSUME Numbered, [Next]_vars
  PROVE  \/ UNCHANGED anchors
         \/ \E c \in Client : WriteFacts(c) \/ InsertAnchor(c)
BY DEF Next, Step, vars, chain, Activate, Discard, MinutePasses, Write, Patch, CreateTaken,
   CreateTask, PatchNothing, UpdateDescription, UpdateRow, DeleteFts, InsertFts, IndexAs,
   FtsFails, CreateAnchor, SkipTarget, ReadFacts, AnchorTaken, SyncAnchorFts, Abort

LEMMA StepNumbered ==
  ASSUME Numbered, [Next]_vars PROVE Numbered'
<1>1. TypeOK'
  BY StepType
<1>2. IsFiniteSet(Inserted)'
  <2>1. CASE UNCHANGED anchors
    BY <2>1 DEF Numbered, Inserted
  <2>2. ASSUME NEW c \in Client, WriteFacts(c) PROVE IsFiniteSet(Inserted)'
    <3>1. Inserted' = Inserted
      BY <2>2, MarkedFacts DEF Numbered, WriteFacts, Inserted, TypeOK, StoreOK
    <3> QED
      BY <3>1 DEF Numbered
  <2>3. ASSUME NEW c \in Client, InsertAnchor(c) PROVE IsFiniteSet(Inserted)'
    <3>1. pc[c] \in Creating
      BY <2>3 DEF InsertAnchor, Creating
    <3>2. Inserted' \subseteq Inserted \cup {anchor_id[c]}
      BY <2>3 DEF Numbered, InsertAnchor, Inserted, TypeOK, StoreOK
    <3>3. IsFiniteSet(Inserted \cup {anchor_id[c]})
      BY FS_AddElement DEF Numbered
    <3> QED
      BY <3>2, <3>3, FS_Subset
  <2> QED
    BY <2>1, <2>2, <2>3, AnchorsStep
<1> QED
  BY <1>1, <1>2 DEF Numbered

LEMMA InitNumbered ==
  ASSUME Init PROVE Numbered
<1>1. Inserted = {}
  BY DEF Init, Inserted
<1>2. IsFiniteSet(Inserted)
  BY <1>1, FS_EmptySet
<1>3. StoreOK
  BY ConstantsOK DEF Init, StoreOK, Exists, Minute
<1>4. LocalsOK /\ HistoryOK /\ \A c \in Client : CallOK(c)
  BY ConstantsOK DEF Init, LocalsOK, HistoryOK, CallOK, Places, Creating, Syncing
<1> QED
  BY <1>2, <1>3, <1>4 DEF Numbered, TypeOK

LEMMA AlwaysNumbered == Spec => []Numbered
<1>1. Init => Numbered
  BY InitNumbered
<1>2. Numbered /\ [Next]_vars => Numbered'
  BY StepNumbered
<1> QED
  BY <1>1, <1>2, PTL DEF Spec

(* Tasks have rows of their own, whatever rows were used before; a call    *)
(* that marks an anchor has read the facts of one that exists.             *)
THEOREM TypeCorrect == Spec => []TypeOK
<1>1. Numbered => TypeOK
  BY DEF Numbered
<1> QED
  BY <1>1, AlwaysNumbered, PTL

(* Inserted anchors stay, and a superseded one is never current again:     *)
(* marks are rewritten but not taken back.                                 *)
THEOREM SupersededForGood == Spec => SupersededStays
<1>1. ASSUME Numbered, [Next]_vars, NEW a \in Anchor, anchors[a] # None
      PROVE  /\ anchors'[a] # None
             /\ anchors[a].superseded_by # None => anchors'[a].superseded_by # None
  <2>1. CASE UNCHANGED anchors
    BY <1>1, <2>1
  <2>2. ASSUME NEW c \in Client, WriteFacts(c)
        PROVE  /\ anchors'[a] # None
               /\ anchors[a].superseded_by # None => anchors'[a].superseded_by # None
    BY <1>1, <2>2, MarkedFacts DEF Numbered, WriteFacts, TypeOK, StoreOK
  <2>3. ASSUME NEW c \in Client, InsertAnchor(c)
        PROVE  anchors'[a] = anchors[a]
    BY <1>1, <2>3 DEF Numbered, InsertAnchor, TypeOK, StoreOK
  <2> QED
    BY <1>1, <2>1, <2>2, <2>3, AnchorsStep
<1>2. Numbered /\ [Next]_vars =>
        [\A a \in Anchor : anchors[a] # None =>
         /\ anchors'[a] # None
         /\ anchors[a].superseded_by # None => anchors'[a].superseded_by # None]_vars
  BY <1>1
<1> QED
  BY <1>2, AlwaysNumbered, PTL DEF Spec, SupersededStays
-------------------------------------------------------------------------------
(* The chain of anchors *)

Marking == {"read_facts", "write_facts"}

\* Anchors are numbered in the order of their insertion.
NrsBelow == \A a \in Anchor : anchors[a] # None => anchors[a].nr < Cardinality(Inserted)

\* What a call has marked names the anchor that the call is about to insert.
MarksOK ==
    \A c \in Client : \A a \in marks[c] :
        pc[c] \in Marking /\ anchors[a] # None /\ anchors[a].superseded_by = anchor_id[c]

\* A successor is later, or the call that wrote the mark has not inserted it.
Chained ==
    \A a \in Anchor :
        LET b == anchors[a].superseded_by
        IN  anchors[a] # None /\ b # None
            => \/ a \in orphaned
               \/ \E c \in Client : a \in marks[c]
               \/ anchors[b] # None /\ anchors[a].nr < anchors[b].nr

ChainInv == Numbered /\ NrsBelow /\ MarksOK /\ Chained

\* A call keeps its marks until it writes another, inserts its anchor or ends.
MarkersGoOn ==
    /\ orphaned \subseteq orphaned'
    /\ \A c \in Client :
         \/ marks'[c] = marks[c] /\ (pc[c] \in Marking => pc'[c] \in Marking
                                                         /\ anchor_id'[c] = anchor_id[c])
         \/ marks'[c] = {} /\ marks[c] \subseteq orphaned'

LEMMA OtherStepsGoOn ==
  ASSUME TypeOK, MarksOK, [Next]_vars, \A c \in Client : ~WriteFacts(c) /\ ~InsertAnchor(c)
  PROVE  MarkersGoOn
<1> USE DEF MarkersGoOn, MarksOK, Marking, TypeOK, LocalsOK
<1>1. ASSUME NEW d \in Client, Write(d) \/ Patch(d) \/ CreateAnchor(d) PROVE MarkersGoOn
  BY <1>1 DEF Write, Patch, CreateAnchor, Begin, locals
<1>2. ASSUME NEW d \in Client, CreateTaken(d) \/ PatchNothing(d) \/ InsertFts(d) PROVE MarkersGoOn
  BY <1>2 DEF CreateTaken, PatchNothing, InsertFts, IndexAs, Leave, history
<1>3. ASSUME NEW d \in Client, SyncAnchorFts(d) \/ AnchorTaken(d) \/ Abort(d) PROVE MarkersGoOn
  BY <1>3 DEF SyncAnchorFts, AnchorTaken, Abort, Leave
<1>4. ASSUME NEW d \in Client, CreateTask(d) \/ FtsFails(d) PROVE MarkersGoOn
  BY <1>4 DEF CreateTask, FtsFails, Leave, Goto, locals, Syncing
<1>5. ASSUME NEW d \in Client, UpdateDescription(d) \/ DeleteFts(d) PROVE MarkersGoOn
  BY <1>5 DEF UpdateDescription, UpdateRow, DeleteFts, Goto, locals, history
<1>6. ASSUME NEW d \in Client, SkipTarget(d) \/ ReadFacts(d) PROVE MarkersGoOn
  BY <1>6 DEF SkipTarget, ReadFacts, Goto, history
<1>7. ASSUME NEW t \in Task, Activate(t) \/ Discard(t) PROVE MarkersGoOn
  BY <1>7 DEF Activate, Discard, locals, history
<1>8. CASE MinutePasses \/ UNCHANGED vars
  BY <1>8 DEF MinutePasses, vars, locals, history
<1> QED
  BY <1>1, <1>2, <1>3, <1>4, <1>5, <1>6, <1>7, <1>8 DEF Next, Step

LEMMA InsertedFacts ==
  ASSUME Numbered, NrsBelow, NEW c \in Client, InsertAnchor(c)
  PROVE  /\ anchor_id[c] \in Anchor /\ anchors[anchor_id[c]] = None
         /\ \A a \in Anchor \ {anchor_id[c]} : anchors'[a] = anchors[a]
         /\ anchors'[anchor_id[c]] # None /\ anchors'[anchor_id[c]].superseded_by = None
         /\ anchors'[anchor_id[c]].nr = Cardinality(Inserted)
         /\ Cardinality(Inserted) \in Nat /\ Cardinality(Inserted)' = Cardinality(Inserted) + 1
<1>1. pc[c] \in Creating
  BY DEF InsertAnchor, Creating
<1>2. anchor_id[c] \in Anchor
  BY <1>1, CallFacts DEF Numbered, Creating
<1>3. /\ NewAnchor(c) # None /\ NewAnchor(c).nr = Cardinality(Inserted)
      /\ Cardinality(Inserted) \in Nat
  BY <1>1, NewAnchorType DEF Numbered
<1>4. /\ anchors[anchor_id[c]] = None /\ anchors'[anchor_id[c]] = NewAnchor(c)
      /\ \A a \in Anchor \ {anchor_id[c]} : anchors'[a] = anchors[a]
  BY <1>2 DEF InsertAnchor, Numbered, TypeOK, StoreOK
<1>5. Inserted' = Inserted \cup {anchor_id[c]} /\ anchor_id[c] \notin Inserted
  BY <1>2, <1>3, <1>4 DEF Inserted
<1>6. Cardinality(Inserted)' = Cardinality(Inserted) + 1
  BY <1>5, FS_AddElement DEF Numbered
<1> QED
  BY <1>2, <1>3, <1>4, <1>6 DEF NewAnchor

\* The write back names the successor, or leaves marks as they are; it changes
\* neither which anchors there are nor their numbers.
LEMMA WrittenFacts ==
  ASSUME Numbered, NEW c \in Client, WriteFacts(c)
  PROVE  /\ \A a \in Anchor : /\ anchors'[a] # None <=> anchors[a] # None
                              /\ anchors'[a].nr = anchors[a].nr
         /\ Inserted' = Inserted
         /\ pc[c] \in Marking /\ pc'[c] \in Marking
         /\ anchor_id' = anchor_id /\ \A d \in Client \ {c} : pc'[d] = pc[d]
         /\ \/ /\ UNCHANGED <<marks, orphaned>>
               /\ \A a \in Anchor : anchors'[a].superseded_by = anchors[a].superseded_by
            \/ \E h \in Anchor :
                 /\ anchors'[h] # None /\ anchors'[h].superseded_by = anchor_id[c]
                 /\ \A a \in Anchor \ {h} : anchors'[a] = anchors[a]
                 /\ \A d \in Client : \A a \in marks'[d] :
                      (a = h /\ d = c) \/ (a # h /\ a \in marks[d])
                 /\ \A d \in Client : \A a \in marks[d] : a = h \/ a \in marks'[d]
                 /\ h \in marks'[c] /\ \A a \in orphaned : a = h \/ a \in orphaned'
<1> DEFINE h == Head(uris[c])
<1>1. pc[c] = "write_facts" /\ anchors' = [anchors EXCEPT ![h] = Marked(c, h)]
  BY DEF WriteFacts
<1>2. /\ h \in Anchor /\ anchors[h] # None /\ anchors[h] \in AnchorRow
      /\ Marked(c, h) # None /\ Marked(c, h).nr = anchors[h].nr
  BY <1>1, MarkedFacts, HeadFacts DEF Numbered
<1>3. /\ anchors'[h] = Marked(c, h) /\ \A a \in Anchor \ {h} : anchors'[a] = anchors[a]
  BY <1>1, <1>2 DEF Numbered, TypeOK, StoreOK
<1>4. \A a \in Anchor : /\ anchors'[a] # None <=> anchors[a] # None
                        /\ anchors'[a].nr = anchors[a].nr
  BY <1>2, <1>3
<1>5. /\ pc'[c] \in Marking /\ anchor_id' = anchor_id
      /\ \A d \in Client \ {c} : pc'[d] = pc[d]
  BY DEF WriteFacts, Goto, Marking, Numbered, TypeOK, LocalsOK
<1>6. CASE facts[c] \in Objects
  <2>1. anchors'[h].superseded_by = anchor_id[c]
    BY <1>2, <1>3, <1>6 DEF Marked, AnchorRow
  <2>2. /\ marks' = [d \in Client |-> IF d = c THEN marks[d] \cup {h} ELSE marks[d] \ {h}]
        /\ orphaned' = orphaned \ {h}
    BY <1>6 DEF WriteFacts
  <2>3. \A d \in Client : marks'[d] = IF d = c THEN marks[d] \cup {h} ELSE marks[d] \ {h}
    BY <2>2
  <2>4. /\ \A d \in Client : \A a \in marks'[d] : (a = h /\ d = c) \/ (a # h /\ a \in marks[d])
        /\ \A d \in Client : \A a \in marks[d] : a = h \/ a \in marks'[d]
        /\ h \in marks'[c] /\ \A a \in orphaned : a = h \/ a \in orphaned'
    BY <2>2, <2>3
  <2> QED
    BY <1>1, <1>2, <1>3, <1>4, <1>5, <2>1, <2>4 DEF Inserted, Marking
<1>7. CASE facts[c] \notin Objects
  <2>1. UNCHANGED <<marks, orphaned>>
    BY <1>7 DEF WriteFacts
  <2>2. Marked(c, h).superseded_by = anchors[h].superseded_by
    BY <1>2, <1>7 DEF Marked, AnchorRow
  <2> QED
    BY <1>1, <1>3, <1>4, <1>5, <2>1, <2>2 DEF Inserted, Marking
<1> QED
  BY <1>6, <1>7

LEMMA WriteChain ==
  ASSUME ChainInv, NEW c \in Client, WriteFacts(c) PROVE NrsBelow' /\ MarksOK' /\ Chained'
<1>1. NrsBelow'
  BY WrittenFacts DEF ChainInv, NrsBelow
<1>2. /\ \A d \in Client : pc[d] \in Marking => pc'[d] \in Marking
      /\ anchor_id' = anchor_id /\ pc'[c] \in Marking
  BY WrittenFacts DEF ChainInv
<1>3. /\ \A d \in Client : marks[d] \subseteq Anchor
      /\ \A a \in Anchor : anchors[a] # None => anchors[a] \in AnchorRow
  BY DEF ChainInv, Numbered, TypeOK, LocalsOK, StoreOK
<1>4. CASE /\ UNCHANGED <<marks, orphaned>>
           /\ \A a \in Anchor : anchors'[a].superseded_by = anchors[a].superseded_by
  <2>1. MarksOK'
    BY <1>2, <1>3, <1>4, WrittenFacts DEF ChainInv, MarksOK
  <2>2. Chained'
    <3> SUFFICES ASSUME NEW a \in Anchor, anchors'[a] # None, anchors'[a].superseded_by # None,
                        a \notin orphaned', \A d \in Client : a \notin marks'[d]
                 PROVE  /\ anchors'[anchors'[a].superseded_by] # None
                        /\ anchors'[a].nr < anchors'[anchors'[a].superseded_by].nr
      BY DEF Chained
    <3>1. anchors[a] # None /\ anchors'[a].superseded_by = anchors[a].superseded_by
      BY <1>4, WrittenFacts DEF ChainInv
    <3>2. anchors[a].superseded_by \in Anchor
      BY <1>3, <3>1 DEF AnchorRow
    <3> QED
      BY <1>4, <3>1, <3>2, WrittenFacts DEF ChainInv, Chained
  <2> QED
    BY <1>1, <2>1, <2>2
<1>5. ASSUME NEW h \in Anchor,
             anchors'[h] # None /\ anchors'[h].superseded_by = anchor_id[c],
             \A a \in Anchor \ {h} : anchors'[a] = anchors[a],
             \A d \in Client : \A a \in marks'[d] : (a = h /\ d = c) \/ (a # h /\ a \in marks[d]),
             \A d \in Client : \A a \in marks[d] : a = h \/ a \in marks'[d],
             h \in marks'[c] /\ \A a \in orphaned : a = h \/ a \in orphaned'
      PROVE  MarksOK' /\ Chained'
  <2>1. MarksOK'
    BY <1>2, <1>3, <1>5 DEF ChainInv, MarksOK
  <2>2. Chained'
    <3> SUFFICES ASSUME NEW a \in Anchor, anchors'[a] # None, anchors'[a].superseded_by # None,
                        a \notin orphaned', \A d \in Client : a \notin marks'[d]
                 PROVE  /\ anchors'[anchors'[a].superseded_by] # None
                        /\ anchors'[a].nr < anchors'[anchors'[a].superseded_by].nr
      BY DEF Chained
    <3>1. a # h /\ anchors'[a] = anchors[a]
      BY <1>5
    <3>2. anchors[a].superseded_by \in Anchor
      BY <1>3, <3>1 DEF AnchorRow
    <3>3. a \notin orphaned /\ \A d \in Client : a \notin marks[d]
      BY <1>5, <3>1
    <3>4. /\ anchors[anchors[a].superseded_by] # None
          /\ anchors[a].nr < anchors[anchors[a].superseded_by].nr
      BY <3>1, <3>3 DEF ChainInv, Chained
    <3> QED
      BY <3>1, <3>2, <3>4, WrittenFacts DEF ChainInv
  <2> QED
    BY <2>1, <2>2
<1> QED
  BY <1>1, <1>4, <1>5, WrittenFacts DEF ChainInv

LEMMA InsertChain ==
  ASSUME ChainInv, NEW c \in Client, InsertAnchor(c) PROVE NrsBelow' /\ MarksOK' /\ Chained'
<1> USE DEF ChainInv
<1>1. /\ \A a \in Anchor : anchors[a] # None => anchors[a] \in AnchorRow /\ anchors[a].nr \in Nat
      /\ \A d \in Client : marks[d] \subseteq Anchor
  BY DEF Numbered, TypeOK, StoreOK, LocalsOK, AnchorRow
<1>2. NrsBelow'
  BY <1>1, InsertedFacts DEF NrsBelow
<1>3. /\ marks'[c] = {} /\ orphaned' = orphaned /\ anchor_id' = anchor_id
      /\ \A d \in Client \ {c} : marks'[d] = marks[d] /\ pc'[d] = pc[d]
  BY DEF InsertAnchor, Goto, history, Numbered, TypeOK, LocalsOK
<1>4. MarksOK'
  BY <1>1, <1>3, InsertedFacts DEF MarksOK
<1>5. Chained'
  <2> SUFFICES ASSUME NEW a \in Anchor, anchors'[a] # None, anchors'[a].superseded_by # None,
                      a \notin orphaned', \A d \in Client : a \notin marks'[d]
               PROVE  /\ anchors'[anchors'[a].superseded_by] # None
                      /\ anchors'[a].nr < anchors'[anchors'[a].superseded_by].nr
    BY DEF Chained
  <2> DEFINE b == anchors[a].superseded_by
  <2>1. a # anchor_id[c] /\ anchors'[a] = anchors[a] /\ anchors[a] # None
    BY InsertedFacts
  <2>2. b \in Anchor
    BY <1>1, <2>1 DEF AnchorRow
  <2>3. CASE a \in marks[c]
    <3>1. b = anchor_id[c]
      BY <2>3 DEF MarksOK
    <3> QED
      BY <2>1, <3>1, InsertedFacts DEF NrsBelow
  <2>4. CASE a \notin marks[c]
    <3>1. anchors[b] # None /\ anchors[a].nr < anchors[b].nr
      BY <1>3, <2>1, <2>4 DEF Chained
    <3>2. anchors'[b] = anchors[b]
      BY <2>2, <3>1, InsertedFacts
    <3> QED
      BY <2>1, <3>1, <3>2
  <2> QED
    BY <2>3, <2>4
<1> QED
  BY <1>2, <1>4, <1>5

LEMMA StepChain ==
  ASSUME ChainInv, [Next]_vars PROVE ChainInv'
<1> USE DEF ChainInv
<1>1. Numbered' /\ TypeOK
  BY StepNumbered DEF Numbered
<1>2. CASE \A c \in Client : ~WriteFacts(c) /\ ~InsertAnchor(c)
  <2>1. UNCHANGED anchors /\ MarkersGoOn
    BY <1>1, <1>2, AnchorsStep, OtherStepsGoOn
  <2>2. NrsBelow'
    BY <2>1 DEF NrsBelow, Inserted
  <2>3. MarksOK'
    BY <2>1 DEF MarksOK, MarkersGoOn
  <2>4. Chained'
    BY <2>1 DEF Chained, MarkersGoOn
  <2> QED
    BY <1>1, <2>2, <2>3, <2>4
<1> QED
  BY <1>1, <1>2, WriteChain, InsertChain

LEMMA AlwaysChained == Spec => []ChainInv
<1>1. Init => ChainInv
  BY InitNumbered DEF Init, ChainInv, NrsBelow, MarksOK, Chained
<1>2. ChainInv /\ [Next]_vars => ChainInv'
  BY StepChain
<1> QED
  BY <1>1, <1>2, PTL DEF Spec

(* The successor of an anchor is inserted after it, so that no anchor      *)
(* supersedes itself in a circle: what a call marks names an anchor that   *)
(* is not there yet, and gets a number above all others when the call      *)
(* inserts it.  Only the marks of calls that have not inserted their       *)
(* anchor, and of those that ended without, are left out.                  *)
THEOREM SuccessorsAreLater == Spec => []SupersededByLater
<1>1. ChainInv => SupersededByLater
  BY DEF ChainInv, Chained, SupersededByLater
<1> QED
  BY <1>1, AlwaysChained, PTL
-------------------------------------------------------------------------------
(* The index of descriptions *)

\* What is stored, not left behind and not being synced is in the index.
Indexed ==
    \A t \in Task :
        /\ Exists(t) /\ tasks[t].description # Empty /\ tasks[t].row \notin spoilt
        /\ \A c \in Client : pc[c] \in Syncing => req[c].task # t
        => <<tasks[t].row, tasks[t].description>> \in tasks_fts

\* A posting without a size is one that a call is about to complete, or was.
Sized ==
    \A r \in Row : (\E q \in Text : <<r, q>> \in tasks_fts) /\ r \notin sized
        => r \in spoilt \/ \E c \in Client : pc[c] = "insert_fts" /\ r \in Spoils(c)

\* Anchors that are acknowledged are there and indexed.
AnchorsFound ==
    /\ \A c \in Client : pc[c] = "anchor_fts" => anchors[anchor_id[c]] # None
    /\ \A p \in found : anchors[p[1]] # None /\ p \in anchors_fts

IndexInv == Numbered /\ Indexed /\ Sized /\ AnchorsFound

\* The calls that are syncing a task are the same before and after.
SyncersStay ==
    \A c \in Client : pc[c] \in Syncing \/ pc'[c] \in Syncing
                      => pc'[c] = pc[c] /\ req'[c] = req[c]

LEMMA IndexUntouched ==
  ASSUME TypeOK, Indexed, Sized, SyncersStay, UNCHANGED <<tasks_fts, sized, spoilt>>,
         \A t \in Task : /\ Exists(t)' <=> Exists(t)
                         /\ Exists(t) => /\ tasks'[t].row = tasks[t].row
                                         /\ tasks'[t].description = tasks[t].description
  PROVE  Indexed' /\ Sized'
<1>1. Indexed'
  BY DEF Indexed, SyncersStay, Syncing
<1>2. \A c \in Client : pc[c] = "insert_fts" => pc'[c] = "insert_fts" /\ Spoils(c)' = Spoils(c)
  BY DEF SyncersStay, Syncing, Spoils
<1>3. Sized'
  BY <1>2 DEF Sized
<1> QED
  BY <1>1, <1>3

\* Most actions have nothing to do with the index.
LEMMA OutsideIndex ==
  ASSUME TypeOK, Indexed, Sized, NEW c \in Client,
         \/ Write(c) \/ Patch(c) \/ CreateTaken(c) \/ PatchNothing(c) \/ CreateAnchor(c)
         \/ SkipTarget(c) \/ ReadFacts(c) \/ WriteFacts(c) \/ InsertAnchor(c)
         \/ AnchorTaken(c) \/ SyncAnchorFts(c)
  PROVE  Indexed' /\ Sized'
<1>1. UNCHANGED <<tasks, tasks_fts, sized, spoilt>>
  BY DEF Write, Patch, CreateTaken, PatchNothing, CreateAnchor, SkipTarget, ReadFacts, WriteFacts,
     InsertAnchor, AnchorTaken, SyncAnchorFts, store, history
<1>2. SyncersStay
  <2>1. CASE Write(c) \/ Patch(c) \/ CreateAnchor(c)
    BY <2>1 DEF Write, Patch, CreateAnchor, Begin, SyncersStay, Syncing, TypeOK, LocalsOK
  <2>2. CASE CreateTaken(c) \/ PatchNothing(c) \/ AnchorTaken(c) \/ SyncAnchorFts(c)
    BY <2>2 DEF CreateTaken, PatchNothing, AnchorTaken, SyncAnchorFts, Leave, SyncersStay,
       Syncing, TypeOK, LocalsOK
  <2>3. CASE SkipTarget(c) \/ ReadFacts(c) \/ WriteFacts(c) \/ InsertAnchor(c)
    BY <2>3 DEF SkipTarget, ReadFacts, WriteFacts, InsertAnchor, Goto, SyncersStay, Syncing,
       TypeOK, LocalsOK
  <2> QED
    BY <2>1, <2>2, <2>3
<1> QED
  BY <1>1, <1>2, IndexUntouched DEF Exists

\* The row of a new task, whatever it was before.
LEMMA CreatedFacts ==
  ASSUME TypeOK, NEW c \in Client, CreateTask(c)
  PROVE  LET t == req[c].task
         IN  /\ t \in Task /\ ~Exists(t) /\ pc[c] = "create"
             /\ req[c].description \in Text /\ req[c].description # None
             /\ \A s \in Task \ {t} : tasks'[s] = tasks[s]
             /\ tasks'[t] # None /\ tasks'[t].description = req[c].description
             /\ UNCHANGED <<tasks_fts, sized, spoilt>>
             /\ \A d \in Client \ {c} : pc'[d] = pc[d] /\ req'[d] = req[d]
             /\ IF req[c].description = Empty THEN pc'[c] = "idle"
                ELSE pc'[c] = "insert_fts" /\ req'[c] = req[c]
<1> DEFINE t == req[c].task
           d == req[c].description
<1>1. pc[c] = "create" /\ ~Exists(t) /\ UNCHANGED <<tasks_fts, sized, spoilt>>
  BY DEF CreateTask
<1>2. t \in Task /\ d \in Text /\ d # None
  BY <1>1, CallFacts
<1>3. PICK r \in Row : tasks' = [tasks EXCEPT ![t] = [row |-> r, description |-> d, pending |-> TRUE]]
  BY DEF CreateTask
<1>4. [row |-> r, description |-> d, pending |-> TRUE] # None
  <2>1. [row |-> r, description |-> d, pending |-> TRUE] \in TaskRow
    BY <1>2 DEF TaskRow
  <2>2. None \notin TaskRow
    BY ConstantsOK DEF TaskRow
  <2> QED
    BY <2>1, <2>2
<1>5. /\ \A s \in Task \ {t} : tasks'[s] = tasks[s]
      /\ tasks'[t] # None /\ tasks'[t].description = d
  <2>1. tasks'[t] = [row |-> r, description |-> d, pending |-> TRUE]
    BY <1>2, <1>3 DEF TypeOK, StoreOK
  <2>2. \A s \in Task \ {t} : tasks'[s] = tasks[s]
    BY <1>2, <1>3 DEF TypeOK, StoreOK
  <2> QED
    BY <1>4, <2>1, <2>2
<1>6. /\ \A e \in Client \ {c} : pc'[e] = pc[e] /\ req'[e] = req[e]
      /\ IF d = Empty THEN pc'[c] = "idle" ELSE pc'[c] = "insert_fts" /\ req'[c] = req[c]
  BY DEF CreateTask, Leave, Goto, TypeOK, LocalsOK
<1> QED
  BY <1>1, <1>2, <1>5, <1>6

LEMMA CreateIndex ==
  ASSUME TypeOK, TypeOK', Indexed, Sized, NEW c \in Client, CreateTask(c)
  PROVE  Indexed' /\ Sized'
<1> DEFINE t == req[c].task
<1>1. Indexed'
  <2> SUFFICES ASSUME NEW s \in Task, Exists(s)', tasks'[s].description # Empty,
                      tasks'[s].row \notin spoilt',
                      \A d \in Client : pc'[d] \in Syncing => req'[d].task # s
               PROVE  <<tasks'[s].row, tasks'[s].description>> \in tasks_fts'
    BY DEF Indexed
  <2>1. s # t
    BY CreatedFacts DEF Syncing
  <2>2. tasks'[s] = tasks[s] /\ Exists(s)
    BY <2>1, CreatedFacts DEF Exists
  <2>3. \A d \in Client : pc[d] \in Syncing => req[d].task # s
    BY CreatedFacts DEF Syncing
  <2> QED
    BY <2>2, <2>3, CreatedFacts DEF Indexed
<1>2. \A d \in Client : pc[d] = "insert_fts" => pc'[d] = "insert_fts" /\ Spoils(d) \subseteq Spoils(d)'
  BY CreatedFacts DEF Spoils, Exists
<1>3. Sized'
  BY <1>2, CreatedFacts DEF Sized
<1> QED
  BY <1>1, <1>3

\* What UPDATE does to the row and the call.
LEMMA UpdatedFacts ==
  ASSUME TypeOK, NEW c \in Client, UpdateDescription(c)
  PROVE  LET t == req[c].task
         IN  /\ t \in Task /\ pc[c] \in {"update", "merge"}
             /\ \A s \in Task : /\ Exists(s)' <=> Exists(s)
                                /\ Exists(s) => tasks'[s].row = tasks[s].row
                                /\ s # t => tasks'[s] = tasks[s]
             /\ Exists(t) => tasks'[t].description
                               = IF req[c].description # None THEN req[c].description ELSE base[c]
             /\ UNCHANGED <<tasks_fts, sized, spoilt, overlapped, req, base>>
             /\ pc' = [pc EXCEPT ![c] = "delete_fts"]
             /\ asked' = IF Exists(t) /\ req[c].description # None
                         THEN [asked EXCEPT ![t] = req[c].description] ELSE asked
<1> DEFINE t == req[c].task
           d == IF req[c].description # None THEN req[c].description ELSE base[c]
<1>1. pc[c] \in {"update", "merge"}
  BY DEF UpdateDescription
<1>2. t \in Task
  BY <1>1, CallFacts
<1>3. pc[c] = "update" => req[c].description \in Text /\ req[c].description # None
  BY CallFacts
<1>4. UpdateRow(c, d) /\ d \in Text
  BY <1>3, MergedType DEF UpdateDescription, Merged
<1>5. Exists(t) => /\ tasks[t] \in TaskRow /\ tasks' = [tasks EXCEPT ![t].description = d]
                   /\ [tasks[t] EXCEPT !.description = d] \in TaskRow
  BY <1>2, <1>4 DEF UpdateRow, TypeOK, StoreOK, Exists, TaskRow
<1>6. None \notin TaskRow
  BY ConstantsOK DEF TaskRow
<1>7. Exists(t) => /\ tasks'[t] = [tasks[t] EXCEPT !.description = d]
                   /\ \A s \in Task \ {t} : tasks'[s] = tasks[s]
  BY <1>2, <1>5 DEF TypeOK, StoreOK
<1>8. Exists(t) => /\ tasks'[t].description = d /\ tasks'[t].row = tasks[t].row /\ tasks'[t] # None
  BY <1>5, <1>6, <1>7 DEF TaskRow
<1>9. ~Exists(t) => tasks' = tasks
  BY <1>4 DEF UpdateRow
<1>10. /\ UNCHANGED <<tasks_fts, sized, spoilt, overlapped, req, base>>
       /\ pc' = [pc EXCEPT ![c] = "delete_fts"]
       /\ asked' = IF Exists(t) /\ req[c].description # None
                   THEN [asked EXCEPT ![t] = req[c].description] ELSE asked
  BY <1>4 DEF UpdateRow, Goto, locals
<1> QED
  BY <1>1, <1>2, <1>7, <1>8, <1>9, <1>10 DEF Exists

LEMMA UpdateIndex ==
  ASSUME TypeOK, Indexed, Sized, NEW c \in Client, UpdateDescription(c)
  PROVE  Indexed' /\ Sized'
<1>1. pc'[c] \in Syncing /\ req' = req /\ \A d \in Client \ {c} : pc'[d] = pc[d]
  BY UpdatedFacts DEF TypeOK, LocalsOK, Syncing
<1>2. Indexed'
  <2> SUFFICES ASSUME NEW s \in Task, Exists(s)', tasks'[s].description # Empty,
                      tasks'[s].row \notin spoilt',
                      \A d \in Client : pc'[d] \in Syncing => req'[d].task # s
               PROVE  <<tasks'[s].row, tasks'[s].description>> \in tasks_fts'
    BY DEF Indexed
  <2>1. s # req[c].task
    BY <1>1
  <2>2. tasks'[s] = tasks[s] /\ Exists(s)
    BY <2>1, UpdatedFacts
  <2>3. \A d \in Client : pc[d] \in Syncing => req[d].task # s
    BY <1>1, <2>1
  <2> QED
    BY <2>2, <2>3, UpdatedFacts DEF Indexed
<1>3. \A d \in Client : pc[d] = "insert_fts" => d # c
  BY UpdatedFacts
<1>4. \A d \in Client : Spoils(d)' = Spoils(d)
  BY <1>1, UpdatedFacts DEF Spoils
<1>5. Sized'
  BY <1>1, <1>3, <1>4, UpdatedFacts DEF Sized
<1> QED
  BY <1>2, <1>5

LEMMA DeleteIndex ==
  ASSUME TypeOK, Indexed, Sized, NEW c \in Client, DeleteFts(c)
  PROVE  Indexed' /\ Sized'
<1> DEFINE t == req[c].task
<1>1. /\ pc[c] = "delete_fts" /\ UNCHANGED <<tasks, req, spoilt>>
      /\ pc'[c] = "insert_fts" /\ \A d \in Client \ {c} : pc'[d] = pc[d]
  BY DEF DeleteFts, Goto, locals, history, TypeOK, LocalsOK
<1>2. t \in Task /\ c \in Client
  BY <1>1, CallFacts
<1>3. \/ Exists(t) /\ /\ tasks_fts' = tasks_fts \ {<<tasks[t].row, tasks[t].description>>}
                      /\ sized' = sized \ {tasks[t].row}
      \/ UNCHANGED <<tasks_fts, sized>>
  BY DEF DeleteFts
<1>4. Indexed'
  <2> SUFFICES ASSUME NEW s \in Task, Exists(s)', tasks'[s].description # Empty,
                      tasks'[s].row \notin spoilt',
                      \A d \in Client : pc'[d] \in Syncing => req'[d].task # s
               PROVE  <<tasks'[s].row, tasks'[s].description>> \in tasks_fts'
    BY DEF Indexed
  <2>1. s # t /\ Exists(s)
    BY <1>1 DEF Syncing, Exists
  <2>2. \A d \in Client : pc[d] \in Syncing => req[d].task # s
    BY <1>1, <2>1 DEF Syncing
  <2>3. <<tasks[s].row, tasks[s].description>> \in tasks_fts
    BY <1>1, <2>1, <2>2 DEF Indexed
  <2>4. Exists(t) => tasks[s].row # tasks[t].row
    BY <1>2, <2>1 DEF TypeOK, StoreOK
  <2> QED
    BY <1>1, <1>3, <2>3, <2>4
<1>5. Sized'
  <2>1. \A d \in Client : Spoils(d)' = Spoils(d)
    BY <1>1 DEF Spoils, Exists
  <2>2. Exists(t) => tasks[t].row \in Spoils(c)
    BY <1>2 DEF Spoils
  <2> QED
    BY <1>1, <1>2, <1>3, <2>1, <2>2 DEF Sized
<1> QED
  BY <1>4, <1>5

LEMMA InsertIndex ==
  ASSUME TypeOK, Indexed, Sized, NEW c \in Client, InsertFts(c)
  PROVE  Indexed' /\ Sized'
<1> DEFINE t == req[c].task
<1>1. /\ pc[c] = "insert_fts" /\ t \in Task /\ UNCHANGED tasks
      /\ pc'[c] = "idle" /\ \A d \in Client \ {c} : pc'[d] = pc[d] /\ req'[d] = req[d]
  BY InsertFtsFacts DEF Leave, TypeOK, LocalsOK
<1>2. Indexed'
  <2> SUFFICES ASSUME NEW s \in Task, Exists(s)', tasks'[s].description # Empty,
                      tasks'[s].row \notin spoilt',
                      \A d \in Client : pc'[d] \in Syncing => req'[d].task # s
               PROVE  <<tasks'[s].row, tasks'[s].description>> \in tasks_fts'
    BY DEF Indexed
  <2>1. Exists(s)
    BY <1>1 DEF Exists
  <2>2. CASE s = t
    BY <1>1, <2>1, <2>2, InsertFtsFacts DEF Postings
  <2>3. CASE s # t
    <3>1. Exists(t) => tasks[s].row # tasks[t].row
      BY <1>1, <2>1, <2>3 DEF TypeOK, StoreOK
    <3>2. tasks[s].row \notin spoilt /\ tasks_fts \subseteq tasks_fts'
      BY <1>1, <3>1, InsertFtsFacts
    <3>3. \A d \in Client : pc[d] \in Syncing => req[d].task # s
      BY <1>1, <2>3
    <3> QED
      BY <1>1, <2>1, <3>2, <3>3 DEF Indexed
  <2> QED
    BY <2>2, <2>3
<1>3. Sized'
  <2> SUFFICES ASSUME NEW r \in Row, NEW q \in Text, <<r, q>> \in tasks_fts', r \notin sized'
               PROVE  r \in spoilt' \/ \E d \in Client : pc'[d] = "insert_fts" /\ r \in Spoils(d)'
    BY DEF Sized
  <2>1. r \notin Spoils(c)
    BY <1>1, InsertFtsFacts DEF Spoils
  <2>2. <<r, q>> \in tasks_fts /\ r \notin sized /\ (r \in spoilt => r \in spoilt')
    BY <1>1, InsertFtsFacts DEF Postings
  <2>3. r \in spoilt \/ \E d \in Client : pc[d] = "insert_fts" /\ r \in Spoils(d)
    BY <2>2 DEF Sized
  <2>4. \A d \in Client \ {c} : Spoils(d)' = Spoils(d)
    BY <1>1 DEF Spoils, Exists
  <2> QED
    BY <1>1, <2>1, <2>2, <2>3, <2>4
<1> QED
  BY <1>2, <1>3

\* A call that stops between the statements leaves its row behind.
LEMMA LeftIndex ==
  ASSUME TypeOK, Indexed, Sized, NEW c \in Client, UNCHANGED store,
         \A d \in Client \ {c} : pc'[d] = pc[d] /\ req'[d] = req[d],
         \/ pc[c] \in Syncing /\ pc'[c] = "idle" /\ spoilt' = spoilt \cup Spoils(c)
         \/ pc[c] = "delete_fts" /\ pc'[c] = "insert_fts" /\ req'[c] = req[c] /\ spoilt' = spoilt
         \/ pc[c] \notin Syncing /\ pc'[c] = "idle" /\ spoilt' = spoilt
  PROVE  Indexed' /\ Sized'
<1>1. UNCHANGED <<tasks, tasks_fts, sized>> /\ spoilt \subseteq spoilt'
  BY DEF store
<1>2. Indexed'
  <2> SUFFICES ASSUME NEW s \in Task, Exists(s)', tasks'[s].description # Empty,
                      tasks'[s].row \notin spoilt',
                      \A d \in Client : pc'[d] \in Syncing => req'[d].task # s
               PROVE  <<tasks'[s].row, tasks'[s].description>> \in tasks_fts'
    BY DEF Indexed
  <2>1. Exists(s) /\ tasks[s].row \notin spoilt
    BY <1>1 DEF Exists
  <2>2. pc[c] \in Syncing => req[c].task # s
    BY <1>1, <2>1 DEF Syncing, Spoils
  <2> QED
    BY <1>1, <2>1, <2>2 DEF Indexed
<1>3. Sized'
  <2>1. \A d \in Client \ {c} : Spoils(d)' = Spoils(d)
    BY <1>1 DEF Spoils, Exists
  <2>2. req'[c] = req[c] => Spoils(c)' = Spoils(c)
    BY <1>1 DEF Spoils, Exists
  <2> QED
    BY <1>1, <2>1, <2>2 DEF Sized, Syncing
<1> QED
  BY <1>2, <1>3

LEMMA CutIndex ==
  ASSUME TypeOK, Indexed, Sized, NEW c \in Client, FtsFails(c) \/ Abort(c)
  PROVE  Indexed' /\ Sized'
<1>1. UNCHANGED store
  BY DEF FtsFails, Abort
<1>2. \A d \in Client \ {c} : pc'[d] = pc[d] /\ req'[d] = req[d]
  BY DEF FtsFails, Abort, Leave, Goto, TypeOK, LocalsOK
<1>3. \/ pc[c] \in Syncing /\ pc'[c] = "idle" /\ spoilt' = spoilt \cup Spoils(c)
      \/ pc[c] = "delete_fts" /\ pc'[c] = "insert_fts" /\ req'[c] = req[c] /\ spoilt' = spoilt
      \/ pc[c] \notin Syncing /\ pc'[c] = "idle" /\ spoilt' = spoilt
  <2>1. CASE FtsFails(c)
    BY <2>1 DEF FtsFails, Leave, Goto, TypeOK, LocalsOK, Syncing
  <2>2. CASE Abort(c)
    BY <2>2 DEF Abort, Leave, TypeOK, LocalsOK
  <2> QED
    BY <2>1, <2>2
<1> QED
  BY <1>1, <1>2, <1>3, LeftIndex

LEMMA ActivateIndex ==
  ASSUME TypeOK, TypeOK', Indexed, Sized, NEW t \in Task, Activate(t)
  PROVE  Indexed' /\ Sized'
<1>1. /\ tasks' = [tasks EXCEPT ![t] = [tasks[t] EXCEPT !.pending = FALSE]]
      /\ Exists(t) /\ tasks[t] \in TaskRow
      /\ UNCHANGED <<tasks_fts, sized, spoilt, pc, req>>
  BY DEF Activate, Exists, TypeOK, StoreOK, history
<1>2. [tasks[t] EXCEPT !.pending = FALSE] \in TaskRow /\ None \notin TaskRow
  BY <1>1, ConstantsOK DEF TaskRow
<1>3. \A s \in Task : tasks'[s] = IF s = t THEN [tasks[t] EXCEPT !.pending = FALSE] ELSE tasks[s]
  BY <1>1 DEF TypeOK, StoreOK
<1>4. \A s \in Task : /\ Exists(s)' <=> Exists(s)
                      /\ Exists(s) => /\ tasks'[s].row = tasks[s].row
                                      /\ tasks'[s].description = tasks[s].description
  <2>1. /\ tasks'[t] # None /\ tasks'[t].row = tasks[t].row
        /\ tasks'[t].description = tasks[t].description
    <3>1. tasks'[t] = [tasks[t] EXCEPT !.pending = FALSE]
      BY <1>3
    <3>2. /\ [tasks[t] EXCEPT !.pending = FALSE].row = tasks[t].row
          /\ [tasks[t] EXCEPT !.pending = FALSE].description = tasks[t].description
      BY <1>1 DEF TaskRow
    <3> QED
      BY <1>2, <3>1, <3>2
  <2>2. \A s \in Task \ {t} : tasks'[s] = tasks[s]
    BY <1>3
  <2> QED
    BY <1>1, <2>1, <2>2 DEF Exists
<1>5. SyncersStay
  BY <1>1 DEF SyncersStay
<1> QED
  BY <1>1, <1>4, <1>5, IndexUntouched

LEMMA DiscardIndex ==
  ASSUME TypeOK, Indexed, Sized, NEW t \in Task, Discard(t)
  PROVE  Indexed' /\ Sized'
<1>1. /\ Exists(t) /\ ~Exists(t)' /\ \A s \in Task \ {t} : tasks'[s] = tasks[s]
      /\ UNCHANGED <<tasks_fts, sized, pc, req>> /\ spoilt \subseteq spoilt'
      /\ (\E c \in Client : pc[c] = "insert_fts" /\ req[c].task = t) => tasks[t].row \in spoilt'
  BY DEF Discard, Exists, TypeOK, StoreOK
<1>2. Indexed'
  BY <1>1 DEF Indexed, Exists
<1>3. Sized'
  <2> SUFFICES ASSUME NEW r \in Row, NEW q \in Text, <<r, q>> \in tasks_fts', r \notin sized'
               PROVE  r \in spoilt' \/ \E d \in Client : pc'[d] = "insert_fts" /\ r \in Spoils(d)'
    BY DEF Sized
  <2>1. CASE r \in spoilt
    BY <1>1, <2>1
  <2>2. ASSUME NEW d \in Client, pc[d] = "insert_fts", r \in Spoils(d)
        PROVE  r \in spoilt' \/ r \in Spoils(d)'
    <3>1. r = tasks[req[d].task].row /\ Exists(req[d].task) /\ req[d].task \in Task
      BY <2>2 DEF Spoils
    <3>2. CASE req[d].task = t
      BY <1>1, <2>2, <3>1, <3>2
    <3>3. CASE req[d].task # t
      BY <1>1, <3>1, <3>3 DEF Spoils, Exists
    <3> QED
      BY <3>2, <3>3
  <2> QED
    BY <1>1, <2>1, <2>2 DEF Sized
<1> QED
  BY <1>2, <1>3

\* Only its INSERT brings a call to the index of anchors.
LEMMA AnnouncersStay ==
  ASSUME TypeOK, [Next]_vars, NEW c \in Client, pc'[c] = "anchor_fts", ~InsertAnchor(c)
  PROVE  pc[c] = "anchor_fts" /\ anchor_id'[c] = anchor_id[c]
<1> USE DEF TypeOK, LocalsOK
<1>1. ASSUME NEW d \in Client, Write(d) \/ Patch(d) \/ CreateAnchor(d)
      PROVE  pc[c] = "anchor_fts" /\ anchor_id'[c] = anchor_id[c]
  BY <1>1 DEF Write, Patch, CreateAnchor, Begin, locals
<1>2. ASSUME NEW d \in Client,
             \/ CreateTaken(d) \/ PatchNothing(d) \/ InsertFts(d) \/ SyncAnchorFts(d)
             \/ AnchorTaken(d) \/ Abort(d)
      PROVE  pc[c] = "anchor_fts" /\ anchor_id'[c] = anchor_id[c]
  BY <1>2 DEF CreateTaken, PatchNothing, InsertFts, IndexAs, SyncAnchorFts, AnchorTaken, Abort, Leave
<1>3. ASSUME NEW d \in Client, CreateTask(d) \/ FtsFails(d)
      PROVE  pc[c] = "anchor_fts" /\ anchor_id'[c] = anchor_id[c]
  BY <1>3 DEF CreateTask, FtsFails, Leave, Goto, locals
<1>4. ASSUME NEW d \in Client,
             \/ UpdateDescription(d) \/ DeleteFts(d) \/ SkipTarget(d) \/ ReadFacts(d)
             \/ WriteFacts(d) \/ InsertAnchor(d)
      PROVE  pc[c] = "anchor_fts" /\ anchor_id'[c] = anchor_id[c]
  BY <1>4 DEF UpdateDescription, UpdateRow, DeleteFts, SkipTarget, ReadFacts, WriteFacts,
     InsertAnchor, Goto, locals
<1>5. ASSUME NEW t \in Task, Activate(t) \/ Discard(t)
      PROVE  UNCHANGED <<pc, anchor_id>>
  BY <1>5 DEF Activate, Discard, locals
<1>6. CASE MinutePasses \/ UNCHANGED vars
  BY <1>6 DEF MinutePasses, vars, locals
<1> QED
  BY <1>1, <1>2, <1>3, <1>4, <1>5, <1>6 DEF Next, Step

\* Inserted anchors stay, and a call announces what it found after its INSERT.
LEMMA AnchorsFoundStep ==
  ASSUME Numbered, Numbered', AnchorsFound, [Next]_vars PROVE AnchorsFound'
<1>1. TypeOK /\ TypeOK'
  BY DEF Numbered
<1>2. \A a \in Anchor : anchors[a] # None => anchors'[a] # None
  <2>1. ASSUME NEW c \in Client, WriteFacts(c)
        PROVE  \A a \in Anchor : anchors[a] # None => anchors'[a] # None
    BY <2>1, WrittenFacts
  <2>2. ASSUME NEW c \in Client, InsertAnchor(c)
        PROVE  \A a \in Anchor : anchors[a] # None => anchors'[a] # None
    BY <1>1, <2>2 DEF InsertAnchor, TypeOK, StoreOK
  <2> QED
    BY <2>1, <2>2, AnchorsStep
<1>3. \A c \in Client : pc[c] = "anchor_fts" => anchor_id[c] \in Anchor
  BY <1>1, CallFacts DEF Creating
<1>4. ASSUME NEW c \in Client, pc'[c] = "anchor_fts" PROVE anchors'[anchor_id'[c]] # None
  <2>1. CASE InsertAnchor(c)
    <3>1. anchor_id'[c] = anchor_id[c] /\ anchor_id[c] \in Anchor
      BY <1>1, <2>1, CallFacts DEF InsertAnchor, Creating
    <3> QED
      BY <1>1, <2>1, <3>1, NewAnchorType DEF InsertAnchor, Numbered, TypeOK, StoreOK, Creating
  <2>2. CASE ~InsertAnchor(c)
    <3>1. pc[c] = "anchor_fts" /\ anchor_id'[c] = anchor_id[c]
      BY <1>1, <1>4, <2>2, AnnouncersStay
    <3> QED
      BY <1>2, <1>3, <3>1 DEF AnchorsFound
  <2> QED
    BY <2>1, <2>2
<1>5. ASSUME NEW p \in found' PROVE anchors'[p[1]] # None /\ p \in anchors_fts'
  <2>1. \/ found' = found /\ anchors_fts' = anchors_fts
        \/ \E c \in Client : SyncAnchorFts(c)
    <3>1. ASSUME NEW c \in Client,
                 \/ Write(c) \/ Patch(c) \/ CreateTaken(c) \/ CreateTask(c) \/ PatchNothing(c)
                 \/ UpdateDescription(c) \/ DeleteFts(c) \/ InsertFts(c) \/ FtsFails(c)
          PROVE  found' = found /\ anchors_fts' = anchors_fts
      BY <3>1 DEF chain, history, Write, Patch, CreateTaken, CreateTask, PatchNothing,
         UpdateDescription, UpdateRow, DeleteFts, InsertFts, IndexAs, FtsFails
    <3>2. ASSUME NEW c \in Client,
                 \/ CreateAnchor(c) \/ SkipTarget(c) \/ ReadFacts(c) \/ WriteFacts(c)
                 \/ InsertAnchor(c) \/ AnchorTaken(c) \/ Abort(c)
          PROVE  found' = found /\ anchors_fts' = anchors_fts
      BY <3>2 DEF chain, history, CreateAnchor, SkipTarget, ReadFacts, WriteFacts, InsertAnchor,
         AnchorTaken, Abort
    <3>3. ASSUME NEW t \in Task, Activate(t) \/ Discard(t)
          PROVE  found' = found /\ anchors_fts' = anchors_fts
      BY <3>3 DEF chain, history, Activate, Discard
    <3> QED
      BY <3>1, <3>2, <3>3 DEF Next, Step, MinutePasses, vars, chain, history
  <2>2. p[1] \in Anchor
    BY <1>1 DEF TypeOK, HistoryOK
  <2>3. CASE found' = found /\ anchors_fts' = anchors_fts
    BY <1>2, <2>2, <2>3 DEF AnchorsFound
  <2>4. ASSUME NEW c \in Client, SyncAnchorFts(c)
        PROVE  anchors'[p[1]] # None /\ p \in anchors_fts'
    <3>1. pc[c] = "anchor_fts"
      BY <2>4 DEF SyncAnchorFts
    <3>2. /\ anchors_fts' = anchors_fts \cup {<<anchor_id[c], req[c].facts>>}
          /\ found' = found \cup {<<anchor_id[c], req[c].facts>>}
      BY <2>4 DEF SyncAnchorFts
    <3>3. CASE p = <<anchor_id[c], req[c].facts>>
      BY <1>2, <2>2, <3>1, <3>2, <3>3 DEF AnchorsFound
    <3>4. CASE p \in found
      BY <1>2, <2>2, <3>2, <3>4 DEF AnchorsFound
    <3> QED
      BY <3>2, <3>3, <3>4
  <2> QED
    BY <2>1, <2>3, <2>4
<1> QED
  BY <1>4, <1>5 DEF AnchorsFound

LEMMA StepIndex ==
  ASSUME IndexInv, [Next]_vars PROVE IndexInv'
<1> USE DEF IndexInv
<1>1. Numbered' /\ TypeOK /\ TypeOK'
  BY StepNumbered DEF Numbered
<1>2. AnchorsFound'
  BY <1>1, AnchorsFoundStep
<1>3. Indexed' /\ Sized'
  <2>1. ASSUME NEW c \in Client, Step(c) PROVE Indexed' /\ Sized'
    BY <1>1, <2>1, OutsideIndex, CreateIndex, UpdateIndex, DeleteIndex, InsertIndex, CutIndex
       DEF Step
  <2>2. ASSUME NEW t \in Task, Activate(t) \/ Discard(t) PROVE Indexed' /\ Sized'
    BY <1>1, <2>2, ActivateIndex, DiscardIndex
  <2>3. CASE MinutePasses \/ UNCHANGED vars
    <3>1. UNCHANGED <<tasks, tasks_fts, sized, spoilt, pc, req>>
      BY <2>3 DEF MinutePasses, vars, store, history
    <3> QED
      BY <1>1, <3>1, IndexUntouched DEF Exists, SyncersStay
  <2> QED
    BY <2>1, <2>2, <2>3 DEF Next
<1> QED
  BY <1>1, <1>2, <1>3

LEMMA AlwaysIndexed == Spec => []IndexInv
<1>1. Init => IndexInv
  BY InitNumbered DEF Init, IndexInv, Indexed, Sized, AnchorsFound, Exists
<1>2. IndexInv /\ [Next]_vars => IndexInv'
  BY StepIndex
<1> QED
  BY <1>1, <1>2, PTL DEF Spec

(* What is stored is found: rows that are used again and overlapping calls *)
(* leave no task out of the index, only a call that stops between its two  *)
(* statements does.                                                        *)
THEOREM StoredIsFound == Spec => []Found
<1>1. IndexInv => Found
  <2> SUFFICES ASSUME IndexInv PROVE Found
    OBVIOUS
  <2>1. ASSUME NEW t \in Task, Exists(t), ~tasks[t].pending, tasks[t].description # Empty,
               tasks[t].row \notin spoilt,
               \A c \in Client : pc[c] \in Syncing => req[c].task # t
        PROVE  t \in L2Hits(tasks[t].description)
    BY <2>1 DEF IndexInv, Indexed, L2Hits
  <2>2. ASSUME NEW p \in found PROVE p[1] \in L1Hits(p[2])
    <3>1. p[1] \in Anchor /\ p = <<p[1], p[2]>>
      BY <2>2 DEF IndexInv, Numbered, TypeOK, HistoryOK
    <3> QED
      BY <2>2, <3>1 DEF IndexInv, AnchorsFound, L1Hits
  <2> QED
    BY <2>1, <2>2 DEF Found
<1> QED
  BY <1>1, AlwaysIndexed, PTL

(* A search fails only for a row that a call is about to index, or that    *)
(* one left behind.                                                        *)
THEOREM SearchesWork == Spec => []SearchWorks
<1>1. IndexInv => SearchWorks
  BY DEF IndexInv, Sized, SearchWorks, SearchFails
<1> QED
  BY <1>1, AlwaysIndexed, PTL

-------------------------------------------------------------------------------
(* Descriptions *)

\* Calls that are on one task at one time are known.
Alone ==
    \A c, d \in Client : c # d /\ pc[c] # "idle" /\ pc[d] # "idle" /\ req[c].task = req[d].task
                         => req[c].task \in overlapped

\* What a patch has read is still so.
BaseHolds ==
    \A c \in Client : pc[c] = "merge" /\ req[c].task \notin overlapped =>
        base[c] = IF Exists(req[c].task) THEN tasks[req[c].task].description ELSE None

AskedInv == TypeOK /\ Alone /\ BaseHolds /\ PatchKeepsDescription

\* A step that changes no description, and after which no new call runs.
LEMMA AskedUntouched ==
  ASSUME AskedInv, overlapped \subseteq overlapped', asked' = asked,
         \A c \in Client : pc'[c] # "idle" =>
            pc[c] # "idle" /\ req'[c] = req[c] /\ base'[c] = base[c]
            /\ (pc'[c] = "merge" => pc[c] = "merge"),
         \A t \in Task \ overlapped' :
            /\ Exists(t)' => Exists(t) /\ tasks'[t].description = tasks[t].description
            /\ Exists(t) => Exists(t)' \/ \A c \in Client : ~At(c, t)
  PROVE  Alone' /\ BaseHolds' /\ PatchKeepsDescription'
<1>1. Alone'
  BY DEF AskedInv, Alone
<1>2. \A c \in Client : pc'[c] # "idle" => req[c].task \in Task
  BY CallFacts DEF AskedInv
<1>3. BaseHolds'
  BY <1>2 DEF AskedInv, BaseHolds, Exists, At
<1>4. PatchKeepsDescription'
  BY DEF AskedInv, PatchKeepsDescription, Exists
<1> QED
  BY <1>1, <1>3, <1>4

LEMMA BeginAsked ==
  ASSUME AskedInv, NEW c \in Client, Write(c) \/ Patch(c) \/ CreateAnchor(c)
  PROVE  Alone' /\ BaseHolds' /\ PatchKeepsDescription'
<1>1. PICK r \in Request :
        \E at \in Places :
          /\ Begin(c, r, at) /\ UNCHANGED <<tasks, asked>>
          /\ \A d \in Client \ {c} : base'[d] = base[d]
          /\ at = "merge" => base'[c] = IF Exists(r.task) THEN tasks[r.task].description ELSE None
  <2>1. CASE Write(c)
    BY <2>1 DEF Write, Places, store, locals
  <2>2. CASE Patch(c)
    BY <2>2 DEF Patch, Places, store, AskedInv, TypeOK, LocalsOK
  <2>3. CASE CreateAnchor(c)
    BY <2>3 DEF CreateAnchor, Places, store
  <2> QED
    BY <2>1, <2>2, <2>3
<1>2. /\ pc[c] = "idle" /\ req'[c] = r
      /\ \A d \in Client \ {c} : pc'[d] = pc[d] /\ req'[d] = req[d]
      /\ overlapped' = IF \E d \in Client : At(d, r.task)
                       THEN overlapped \cup {r.task} ELSE overlapped
  BY <1>1 DEF Begin, AskedInv, TypeOK, LocalsOK
<1>3. Alone'
  BY <1>2 DEF AskedInv, Alone, At
<1>4. BaseHolds'
  <2>1. pc'[c] = "merge" => base'[c] = IF Exists(r.task) THEN tasks[r.task].description ELSE None
    BY <1>1 DEF Begin, AskedInv, TypeOK, LocalsOK
  <2> QED
    BY <1>1, <1>2, <2>1 DEF AskedInv, BaseHolds, Exists
<1>5. PatchKeepsDescription'
  BY <1>1, <1>2 DEF AskedInv, PatchKeepsDescription, Exists
<1> QED
  BY <1>3, <1>4, <1>5

LEMMA CreateAsked ==
  ASSUME AskedInv, NEW c \in Client, CreateTask(c)
  PROVE  Alone' /\ BaseHolds' /\ PatchKeepsDescription'
<1> DEFINE t == req[c].task
<1>1. /\ overlapped' = overlapped /\ asked' = [asked EXCEPT ![t] = req[c].description]
      /\ \A d \in Client \ {c} : base'[d] = base[d]
  BY DEF CreateTask, Leave, locals, AskedInv, TypeOK, LocalsOK
<1>2. Alone'
  BY <1>1, CreatedFacts DEF AskedInv, Alone
<1>3. BaseHolds'
  <2> SUFFICES ASSUME NEW d \in Client, pc'[d] = "merge", req'[d].task \notin overlapped
               PROVE  base'[d] = IF Exists(req[d].task)'
                                 THEN tasks'[req'[d].task].description ELSE None
    BY <1>1 DEF BaseHolds, Exists
  <2>1. d # c
    BY CreatedFacts DEF AskedInv
  <2>2. pc[d] = "merge" /\ req'[d] = req[d] /\ req[d].task \in Task
    BY <2>1, CreatedFacts, CallFacts DEF AskedInv
  <2>3. req[d].task # t
    BY <2>1, <2>2, CreatedFacts DEF AskedInv, Alone
  <2>4. tasks'[req[d].task] = tasks[req[d].task]
    BY <2>2, <2>3, CreatedFacts DEF AskedInv
  <2> QED
    BY <1>1, <2>1, <2>2, <2>4 DEF AskedInv, BaseHolds, Exists
<1>4. PatchKeepsDescription'
  <2>1. \A s \in Task : asked'[s] = IF s = t THEN req[c].description ELSE asked[s]
    BY <1>1 DEF AskedInv, TypeOK, HistoryOK
  <2> QED
    BY <1>1, <2>1, CreatedFacts DEF AskedInv, PatchKeepsDescription, Exists
<1> QED
  BY <1>2, <1>3, <1>4

LEMMA UpdateAsked ==
  ASSUME AskedInv, NEW c \in Client, UpdateDescription(c)
  PROVE  Alone' /\ BaseHolds' /\ PatchKeepsDescription'
<1> DEFINE t == req[c].task
<1>1. /\ t \in Task /\ pc[c] \in {"update", "merge"} /\ UNCHANGED <<overlapped, req, base>>
      /\ pc'[c] = "delete_fts" /\ \A d \in Client \ {c} : pc'[d] = pc[d]
  BY UpdatedFacts DEF AskedInv, TypeOK, LocalsOK
<1>2. Alone'
  BY <1>1 DEF AskedInv, Alone
<1>3. BaseHolds'
  <2> SUFFICES ASSUME NEW d \in Client, pc'[d] = "merge", req[d].task \notin overlapped
               PROVE  base[d] = IF Exists(req[d].task)' THEN tasks'[req[d].task].description ELSE None
    BY <1>1 DEF BaseHolds, Exists
  <2>1. d # c /\ pc[d] = "merge"
    BY <1>1
  <2>2. req[d].task # t /\ req[d].task \in Task
    BY <1>1, <2>1, CallFacts DEF AskedInv, Alone
  <2>3. tasks'[req[d].task] = tasks[req[d].task]
    BY <2>2, UpdatedFacts DEF AskedInv
  <2> QED
    BY <1>1, <2>1, <2>3 DEF AskedInv, BaseHolds, Exists
<1>4. PatchKeepsDescription'
  <2> SUFFICES ASSUME NEW s \in Task, s \notin overlapped, Exists(s)'
               PROVE  tasks'[s].description = asked'[s]
    BY <1>1 DEF PatchKeepsDescription
  <2>1. Exists(s) /\ tasks[s].description = asked[s]
    BY UpdatedFacts DEF AskedInv, PatchKeepsDescription
  <2>2. CASE s # t
    BY <2>1, <2>2, UpdatedFacts DEF AskedInv, TypeOK, HistoryOK
  <2>3. CASE s = t /\ req[c].description # None
    BY <2>1, <2>3, UpdatedFacts DEF AskedInv, TypeOK, HistoryOK
  <2>4. CASE s = t /\ req[c].description = None
    <3>1. pc[c] = "merge"
      BY <1>1, <2>4, CallFacts DEF AskedInv
    <3>2. base[c] = tasks[t].description
      BY <2>1, <2>4, <3>1 DEF AskedInv, BaseHolds
    <3> QED
      BY <2>1, <2>4, <3>2, UpdatedFacts DEF AskedInv
  <2> QED
    BY <2>2, <2>3, <2>4
<1> QED
  BY <1>2, <1>3, <1>4

LEMMA StepAsked ==
  ASSUME Numbered, AskedInv, [Next]_vars PROVE AskedInv'
<1>1. TypeOK /\ TypeOK'
  BY StepType DEF AskedInv
<1>2. Alone' /\ BaseHolds' /\ PatchKeepsDescription'
  <2>1. ASSUME NEW c \in Client,
               \/ CreateTaken(c) \/ PatchNothing(c) \/ InsertFts(c) \/ SyncAnchorFts(c)
               \/ AnchorTaken(c) \/ Abort(c)
        PROVE  Alone' /\ BaseHolds' /\ PatchKeepsDescription'
    <3>1. Leave(c) /\ UNCHANGED <<tasks, overlapped, asked>>
      BY <2>1 DEF CreateTaken, PatchNothing, InsertFts, IndexAs, SyncAnchorFts, AnchorTaken, Abort,
         store, history
    <3>2. pc'[c] = "idle" /\ \A d \in Client \ {c} : pc'[d] = pc[d] /\ req'[d] = req[d]
                                                     /\ base'[d] = base[d]
      BY <1>1, <3>1 DEF Leave, TypeOK, LocalsOK
    <3> QED
      BY <3>1, <3>2, AskedUntouched DEF Exists
  <2>2. ASSUME NEW c \in Client,
               \/ DeleteFts(c) \/ FtsFails(c) \/ SkipTarget(c) \/ ReadFacts(c) \/ WriteFacts(c)
               \/ InsertAnchor(c)
        PROVE  Alone' /\ BaseHolds' /\ PatchKeepsDescription'
    <3>1. UNCHANGED <<tasks, overlapped, asked>>
      BY <2>2 DEF DeleteFts, FtsFails, SkipTarget, ReadFacts, WriteFacts, InsertAnchor, store, history
    <3>2. \A d \in Client : pc'[d] # "idle" =>
            pc[d] # "idle" /\ req'[d] = req[d] /\ base'[d] = base[d]
            /\ (pc'[d] = "merge" => pc[d] = "merge")
      <4>1. CASE FtsFails(c)
        BY <1>1, <4>1 DEF FtsFails, Goto, Leave, locals, Syncing, TypeOK, LocalsOK
      <4>2. CASE ~FtsFails(c)
        <5>1. /\ UNCHANGED <<req, base>> /\ pc[c] # "idle"
              /\ \E at \in {"insert_fts", "read_facts", "write_facts", "anchor_fts"} : Goto(c, at)
          BY <2>2, <4>2 DEF DeleteFts, SkipTarget, ReadFacts, WriteFacts, InsertAnchor, locals
        <5> QED
          BY <1>1, <5>1 DEF Goto, TypeOK, LocalsOK
      <4> QED
        BY <4>1, <4>2
    <3> QED
      BY <3>1, <3>2, AskedUntouched DEF Exists
  <2>3. ASSUME NEW c \in Client, Step(c)
        PROVE  Alone' /\ BaseHolds' /\ PatchKeepsDescription'
    BY <2>1, <2>2, <2>3, BeginAsked, CreateAsked, UpdateAsked DEF Step
  <2>4. ASSUME NEW t \in Task, Activate(t)
        PROVE  Alone' /\ BaseHolds' /\ PatchKeepsDescription'
    <3>1. /\ tasks' = [tasks EXCEPT ![t] = [tasks[t] EXCEPT !.pending = FALSE]]
          /\ Exists(t) /\ tasks[t] \in TaskRow
          /\ UNCHANGED <<pc, req, base, overlapped, asked>>
      BY <1>1, <2>4 DEF Activate, Exists, TypeOK, StoreOK, locals, history
    <3>2. \A s \in Task \ {t} : tasks'[s] = tasks[s]
      BY <1>1, <3>1 DEF TypeOK, StoreOK
    <3>3. tasks'[t] = [tasks[t] EXCEPT !.pending = FALSE]
      BY <1>1, <3>1 DEF TypeOK, StoreOK
    <3>4. /\ [tasks[t] EXCEPT !.pending = FALSE] \in TaskRow
          /\ [tasks[t] EXCEPT !.pending = FALSE].description = tasks[t].description
      BY <3>1 DEF TaskRow
    <3>5. None \notin TaskRow
      BY ConstantsOK DEF TaskRow
    <3>6. \A s \in Task : /\ Exists(s)' <=> Exists(s)
                          /\ Exists(s) => tasks'[s].description = tasks[s].description
      BY <3>1, <3>2, <3>3, <3>4, <3>5 DEF Exists
    <3> QED
      BY <3>1, <3>6, AskedUntouched
  <2>5. ASSUME NEW t \in Task, Discard(t)
        PROVE  Alone' /\ BaseHolds' /\ PatchKeepsDescription'
    <3>1. /\ ~Exists(t)' /\ \A s \in Task \ {t} : tasks'[s] = tasks[s]
          /\ UNCHANGED <<pc, req, base, asked>> /\ overlapped \subseteq overlapped'
          /\ (\E c \in Client : At(c, t)) => t \in overlapped'
      BY <1>1, <2>5 DEF Discard, Exists, TypeOK, StoreOK, locals
    <3> QED
      BY <3>1, AskedUntouched DEF Exists
  <2>6. CASE MinutePasses \/ UNCHANGED vars
    <3>1. UNCHANGED <<tasks, pc, req, base, overlapped, asked>>
      BY <2>6 DEF MinutePasses, vars, store, locals, history
    <3> QED
      BY <3>1, AskedUntouched DEF Exists
  <2> QED
    BY <2>3, <2>4, <2>5, <2>6 DEF Next
<1> QED
  BY <1>1, <1>2 DEF AskedInv

(* A description is the one last asked for, also after patches that write  *)
(* back what they have read, as long as no two calls overlap on the task.  *)
THEOREM DescriptionsStay == Spec => []PatchKeepsDescription
<1>1. Init => AskedInv
  BY InitNumbered DEF Init, AskedInv, Alone, BaseHolds, PatchKeepsDescription, Exists, Numbered
<1>2. Numbered /\ AskedInv /\ [Next]_vars => AskedInv'
  BY StepAsked
<1>3. AskedInv => PatchKeepsDescription
  BY DEF AskedInv
<1> QED
  BY <1>1, <1>2, <1>3, AlwaysNumbered, PTL DEF Spec
===============================================================================
