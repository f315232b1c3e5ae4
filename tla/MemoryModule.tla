----------------------------- MODULE MemoryModule -----------------------------
(***************************************************************************)
(* The memory module of logos-mm, for one chat: every chat has a SQLite    *)
(* database of its own, with the messages, a full-text index of them, the  *)
(* summaries and the knowledge graph.                                      *)
(*                                                                         *)
(* A call is a few statements, each of which commits by itself, and calls  *)
(* run concurrently.  An error of a statement ends the call; so do a       *)
(* caller that goes away and a restart, which lose nothing else, because   *)
(* the pools of connections are rebuilt at need.  What SessionStore makes  *)
(* of a message that it is told of is that module's business.              *)
(***************************************************************************)
EXTENDS Integers, Sequences, FiniteSets

CONSTANTS
    Client,         \* concurrent callers
    None,           \* an absent row, msg_id or reply_to
    Text,           \* texts of messages; a query matches the text it equals
    MessageRequest, \* messages that callers write
    SummaryRequest, \* writes and patches of summaries
    GraphRequest,   \* sequences of triples written by one call
    Triple, Layer, Content,
    latest,         \* the period key "latest"
    Ranges,         \* pairs <<start, end>> that the reader fetches
    Limit,          \* the limit it asks for
    RANGE_FETCH_MAX_LIMIT,
    ViewLimit,      \* how many recent messages a caller looks at
    Faults,         \* may calls be cut short?
    MaxId, MaxPeriod,
    MaxCalls        \* bound on the number of calls

Id == 1..MaxId
Period == 1..MaxPeriod

\* The columns of a summary that matter here, and what a missing one becomes.
Column == {"layer", "period_start", "content"}
Default == [f \in Column |-> IF f = "period_start" THEN 0 ELSE ""]
Cell(f) == CASE f = "layer" -> Layer \cup {""}
             [] f = "period_start" -> Nat
             [] f = "content" -> Content \cup {""}

\* A summary in JSON has some of the columns, a row has them all.
IsJson(d) == DOMAIN d \subseteq Column /\ \A f \in DOMAIN d : d[f] \in Cell(f)

ASSUME ConstantsOK ==
    /\ MaxId \in Nat /\ MaxPeriod \in Nat /\ MaxCalls \in Nat
    /\ None \notin Int /\ None \notin Text /\ latest \notin Int
    /\ None \notin [text : Text, reply_to : Id \cup {None}]
    /\ Limit \in Int /\ RANGE_FETCH_MAX_LIMIT \in Nat \ {0}
    /\ Ranges \subseteq Int \X Int
    /\ MessageRequest \subseteq [msg_id : Id \cup {None}, text : Text, reply : BOOLEAN]
    /\ \A r \in SummaryRequest :
         /\ r.patch \in BOOLEAN /\ r.layer \in Layer
         /\ r.period \in Period \cup {latest} /\ IsJson(r.json)
    /\ GraphRequest \subseteq Seq(Triple)
    /\ Faults \in BOOLEAN

VARIABLES
    messages,       \* messages[id]: the row, or None
    messages_fts,   \* messages_fts[id]: the text indexed under rowid id, or None
    observed,       \* history: the MsgRefs given to SessionStore::observe
    summaries,      \* rows of the summaries table in the order of their ids
    triples,        \* rows of the triples table
    pc,             \* where each call is
    req,            \* its arguments
    reply_to,       \* the message it answers
    msg_id,         \* the id of the row it has inserted, None before
    json,           \* the summary it is about to insert
    left,           \* the triples it has not written yet
    reader,         \* a caller that pages through Ranges
    acked,          \* history: messages and triples whose write returned Ok
    calls           \* history: the number of calls so far

locals == <<req, reply_to, msg_id, json, left>>
vars == <<messages, messages_fts, observed, summaries, triples, pc, locals,
          reader, acked, calls>>

Stored == { i \in Id : messages[i] # None }

Init ==
    /\ messages = [i \in Id |-> None] /\ messages_fts = [i \in Id |-> None]
    /\ observed = {} /\ summaries = << >> /\ triples = {}
    /\ pc = [c \in Client |-> "idle"]
    /\ req = [c \in Client |-> None] /\ reply_to = [c \in Client |-> None]
    /\ msg_id = [c \in Client |-> None] /\ json = [c \in Client |-> None]
    /\ left = [c \in Client |-> << >>]
    /\ reader = [at |-> "idle", offset |-> 0, got |-> {}, owed |-> {}]
    /\ acked = [messages |-> {}, triples |-> {}] /\ calls = 0

-------------------------------------------------------------------------------
(* What the queries return. *)

\* messages_fts holds no text of its own: hits are joined with the messages.
SearchHits(q) == { i \in Stored : messages_fts[i] = q }

\* The view "recent": the n rows with the largest ids.
Recent(n) == { i \in Stored : Cardinality({ j \in Stored : j > i }) < n }

Clamp(n, lo, hi) == IF n < lo THEN lo ELSE IF n > hi THEN hi ELSE n

InRanges == { i \in Stored : \E r \in Ranges : r[1] <= i /\ i <= r[2] }

\* ORDER BY msg_id ASC LIMIT limit OFFSET offset
Rank(i, rows) == Cardinality({ j \in rows : j < i })
Page(rows, limit, offset) ==
    { i \in rows : offset <= Rank(i, rows) /\ Rank(i, rows) < offset + limit }

\* Variant: the end of a range is left out.
RangeFetchSkips(limit, offset) ==
    Page({ i \in Stored : \E r \in Ranges : r[1] <= i /\ i < r[2] },
         Clamp(limit, 1, RANGE_FETCH_MAX_LIMIT), offset)
RangeFetch(limit, offset) ==
    Page(InRanges, Clamp(limit, 1, RANGE_FETCH_MAX_LIMIT), offset)

Of(layer) == { k \in DOMAIN summaries : summaries[k].layer = layer }
Matching(layer, key) ==
    { k \in Of(layer) : key = latest \/ summaries[k].period_start = key }

\* ORDER BY period_start DESC walks the index on (chat_id, layer, period_start)
\* backwards: rows that tie come with the newest id first.
Newest(rows) ==
    CHOOSE k \in rows : \A j \in rows :
        \/ summaries[j].period_start < summaries[k].period_start
        \/ summaries[j].period_start = summaries[k].period_start /\ j <= k

\* Without ORDER BY the index is walked forwards.
Oldest(rows) == CHOOSE k \in rows : \A j \in rows : k <= j

\* Variant: the latest summary is the one written last.
ReadSummaryById(layer, key) ==
    IF key = latest
      THEN CHOOSE k \in Of(layer) : \A j \in Of(layer) : j <= k
      ELSE Oldest(Matching(layer, key))
\* SummaryDb::read: the number of the row, if any matches.  Months are written
\* under the year and month that they are looked up by.
ReadSummary(layer, key) ==
    IF key = latest \/ layer = "long" THEN Newest(Matching(layer, key))
    ELSE Oldest(Matching(layer, key))

-------------------------------------------------------------------------------
(* Calls.  Every call first takes the pool of its chat, which sets up the   *)
(* schema when it opens the database; a pool is kept only after that.       *)

Begin(c, r, l) ==
    /\ pc[c] = "idle" /\ calls < MaxCalls
    /\ pc' = [pc EXCEPT ![c] = l] /\ req' = [req EXCEPT ![c] = r]
    /\ calls' = calls + 1
    /\ UNCHANGED <<messages, messages_fts, observed, summaries, triples, msg_id, reader, acked>>

\* A call that is over forgets its locals.
\* Variant: all but the id.
LeaveKeepsId(c) ==
    /\ pc' = [pc EXCEPT ![c] = "idle"] /\ req' = [req EXCEPT ![c] = None]
    /\ reply_to' = [reply_to EXCEPT ![c] = None] /\ UNCHANGED msg_id
    /\ json' = [json EXCEPT ![c] = None] /\ left' = [left EXCEPT ![c] = << >>]
Leave(c) ==
    /\ pc' = [pc EXCEPT ![c] = "idle"] /\ req' = [req EXCEPT ![c] = None]
    /\ reply_to' = [reply_to EXCEPT ![c] = None] /\ msg_id' = [msg_id EXCEPT ![c] = None]
    /\ json' = [json EXCEPT ![c] = None] /\ left' = [left EXCEPT ![c] = << >>]

\* A patch of messages is a write too.  A reply is to a message its author has
\* seen, whose own write need not be over.
WriteMessage(c) ==
    \E r \in MessageRequest :
        /\ Begin(c, r, "insert")
        /\ \E t \in IF r.reply THEN Recent(ViewLimit) ELSE {None} :
             reply_to' = [reply_to EXCEPT ![c] = t]
        /\ UNCHANGED <<json, left>>

\* The row number is the caller's or the largest one plus 1.
NextId(i) == (\A j \in Stored : j < i) /\ i - 1 \in Stored \cup {0}

Insert(c, i) ==
    /\ messages' = [messages EXCEPT ![i] = [text |-> req[c].text, reply_to |-> reply_to[c]]]
    /\ msg_id' = [msg_id EXCEPT ![c] = i]
    /\ pc' = [pc EXCEPT ![c] = "fts"]
    /\ UNCHANGED <<messages_fts, observed, summaries, triples, req, reply_to, json, left,
                   reader, acked, calls>>

\* Variant: INSERT OR REPLACE.
InsertMessageReplaces(c) ==
    /\ pc[c] = "insert"
    /\ \E i \in Id :
         /\ \/ i = req[c].msg_id
            \/ req[c].msg_id = None /\ NextId(i)
         /\ Insert(c, i)
\* An id that is taken violates the primary key.
InsertMessage(c) ==
    /\ pc[c] = "insert"
    /\ \E i \in Id :
         /\ \/ i = req[c].msg_id /\ i \notin Stored
            \/ req[c].msg_id = None /\ NextId(i)
         /\ Insert(c, i)

IdTaken(c) ==
    /\ pc[c] = "insert" /\ req[c].msg_id \in Stored
    /\ Leave(c)
    /\ UNCHANGED <<messages, messages_fts, observed, summaries, triples, reader, acked, calls>>

\* Variant: an error of the index is ignored.
SyncFtsIgnoresError(c) ==
    /\ pc[c] = "fts"
    /\ \/ messages_fts' = [messages_fts EXCEPT ![msg_id[c]] = req[c].text]
       \/ Faults /\ UNCHANGED messages_fts
    /\ pc' = [pc EXCEPT ![c] = "observe"]
    /\ UNCHANGED <<messages, observed, summaries, triples, locals, reader, acked, calls>>
SyncFts(c) ==
    /\ pc[c] = "fts"
    /\ messages_fts' = [messages_fts EXCEPT ![msg_id[c]] = req[c].text]
    /\ pc' = [pc EXCEPT ![c] = "observe"]
    /\ UNCHANGED <<messages, observed, summaries, triples, locals, reader, acked, calls>>

MsgRef(i, text, to) == [msg_id |-> i, text |-> text, reply_to |-> to]

\* observe cannot fail: the write returns Ok.
Observe(c) ==
    /\ pc[c] = "observe"
    /\ observed' = observed \cup { MsgRef(msg_id[c], req[c].text, reply_to[c]) }
    /\ acked' = [acked EXCEPT !.messages = @ \cup {msg_id[c]}]
    /\ Leave(c)
    /\ UNCHANGED <<messages, messages_fts, summaries, triples, reader, calls>>

-------------------------------------------------------------------------------
(* The plugins: summaries and graph. *)

\* A write fills in the columns that its JSON lacks, and takes layer and period
\* from the JSON, not from the path it is written to.
Merge(base, partial) ==
    [f \in DOMAIN base \cup DOMAIN partial |->
        IF f \in DOMAIN partial THEN partial[f] ELSE base[f]]

WriteSummary(c) ==
    \E r \in SummaryRequest :
        /\ ~r.patch /\ Begin(c, r, "write_summary")
        /\ json' = [json EXCEPT ![c] = r.json]
        /\ UNCHANGED <<reply_to, left>>

PatchSummary(c) ==
    \E r \in SummaryRequest :
        /\ r.patch /\ Begin(c, r, "patch")
        /\ UNCHANGED <<reply_to, json, left>>

\* What is not there reads as null, and a patch of null is the patch itself.
PatchRead(c) ==
    /\ pc[c] = "patch"
    /\ json' = [json EXCEPT ![c] =
         IF Matching(req[c].layer, req[c].period) = {} THEN req[c].json
         ELSE Merge(summaries[ReadSummary(req[c].layer, req[c].period)], req[c].json)]
    /\ pc' = [pc EXCEPT ![c] = "write_summary"]
    /\ UNCHANGED <<messages, messages_fts, observed, summaries, triples, req, reply_to,
                   msg_id, left, reader, acked, calls>>

InsertSummary(c) ==
    /\ pc[c] = "write_summary"
    /\ summaries' = Append(summaries, Merge(Default, json[c]))
    /\ Leave(c)
    /\ UNCHANGED <<messages, messages_fts, observed, triples, reader, acked, calls>>

WriteGraph(c) ==
    \E r \in GraphRequest :
        /\ Begin(c, r, "graph")
        /\ left' = [left EXCEPT ![c] = r]
        /\ UNCHANGED <<reply_to, json>>

\* INSERT OR REPLACE, one statement per triple.
InsertTriple(c) ==
    /\ pc[c] = "graph" /\ left[c] # << >>
    /\ triples' = triples \cup {Head(left[c])}
    /\ left' = [left EXCEPT ![c] = Tail(@)]
    /\ UNCHANGED <<messages, messages_fts, observed, summaries, pc, req, reply_to, msg_id,
                   json, reader, acked, calls>>

GraphDone(c) ==
    /\ pc[c] = "graph" /\ left[c] = << >>
    /\ acked' = [acked EXCEPT !.triples =
         @ \cup { req[c][k] : k \in DOMAIN req[c] }]
    /\ Leave(c)
    /\ UNCHANGED <<messages, messages_fts, observed, summaries, triples, reader, calls>>

\* A statement fails, the caller goes away or the kernel stops.
Abort(c) ==
    /\ Faults /\ pc[c] # "idle"
    /\ Leave(c)
    /\ UNCHANGED <<messages, messages_fts, observed, summaries, triples, reader, acked, calls>>

-------------------------------------------------------------------------------
(* A caller that fetches page after page until one is empty, as the         *)
(* consolidator does with the messages of the past hour.                    *)

StartReading ==
    /\ reader.at = "idle"
    /\ reader' = [at |-> "reading", offset |-> 0, got |-> {}, owed |-> InRanges]
    /\ UNCHANGED <<messages, messages_fts, observed, summaries, triples, pc, locals,
                   acked, calls>>

NextPage ==
    /\ reader.at = "reading"
    /\ LET page == RangeFetch(Limit, reader.offset)
       IN  reader' = [reader EXCEPT !.at = IF page = {} THEN "done" ELSE @,
                                    !.offset = @ + Cardinality(page),
                                    !.got = @ \cup page]
    /\ UNCHANGED <<messages, messages_fts, observed, summaries, triples, pc, locals,
                   acked, calls>>

Step(c) ==
    \/ WriteMessage(c) \/ InsertMessage(c) \/ IdTaken(c) \/ SyncFts(c) \/ Observe(c)
    \/ WriteSummary(c) \/ PatchSummary(c) \/ PatchRead(c) \/ InsertSummary(c)
    \/ WriteGraph(c) \/ InsertTriple(c) \/ GraphDone(c)
    \/ Abort(c)

Next == (\E c \in Client : Step(c)) \/ StartReading \/ NextPage

Spec == Init /\ [][Next]_vars

-------------------------------------------------------------------------------
Row == [text : Text, reply_to : Id \cup {None}]
SummaryRow == [layer : Layer \cup {""}, period_start : Nat, content : Content \cup {""}]

\* The types, and which locals a call has at which point.
TypeOK ==
    /\ messages \in [Id -> Row \cup {None}]
    /\ messages_fts \in [Id -> Text \cup {None}]
    /\ observed \subseteq [msg_id : Id, text : Text, reply_to : Id \cup {None}]
    /\ summaries \in Seq(SummaryRow)
    /\ triples \subseteq Triple
    /\ pc \in [Client -> {"idle", "insert", "fts", "observe", "patch", "write_summary", "graph"}]
    /\ reply_to \in [Client -> Id \cup {None}]
    /\ msg_id \in [Client -> Id \cup {None}]
    /\ left \in [Client -> Seq(Triple)]
    /\ DOMAIN req = Client /\ DOMAIN json = Client
    /\ \A c \in Client :
         /\ pc[c] \in {"insert", "fts", "observe"} => req[c] \in MessageRequest
         /\ pc[c] \in {"fts", "observe"} <=> msg_id[c] # None
         /\ pc[c] = "patch" => req[c] \in SummaryRequest
         /\ pc[c] = "write_summary" => IsJson(json[c])
         /\ pc[c] = "graph" => req[c] \in GraphRequest
    /\ reader \in [at : {"idle", "reading", "done"}, offset : Nat,
                   got : SUBSET Id, owed : SUBSET Id]
    /\ acked \in [messages : SUBSET Id, triples : SUBSET Triple]

\* messages.rs:16: messages are append-only.  No write changes or removes a
\* message, though callers choose ids that others may have been given.
AppendOnly ==
    [][\A i \in Id : messages[i] # None => messages'[i] = messages[i]]_vars

\* messages.rs:133-137 joins the index with the messages by row number: a hit
\* is a message with the text that was searched for.
SearchSound == \A q \in Text : \A i \in SearchHits(q) : messages[i].text = q

\* lib.rs:177-191: what a caller was told is written can be read back, is
\* found by a search for its text, and the session store was told of it
\* exactly as it is stored.  A graph write that returned has all its triples.
AckedIsComplete ==
    /\ \A i \in acked.messages :
         /\ i \in Stored
         /\ i \in SearchHits(messages[i].text)
         /\ MsgRef(i, messages[i].text, messages[i].reply_to) \in observed
    /\ acked.triples \subseteq triples

\* messages.rs:155-196: a caller that fetches pages until one is empty has seen
\* every message that was in the ranges when it began, although others are
\* inserted between its pages, below and above the ones it has seen.
PagesMissNothing == reader.at = "done" => reader.owed \subseteq reader.got

\* summaries.rs:92-101: "latest" never goes back to an earlier period, though
\* summaries are written late and out of order.
LatestMovesForward ==
    [][\A l \in Layer : Of(l) # {} =>
         summaries[ReadSummary(l, latest)].period_start
           <= summaries'[ReadSummary(l, latest)'].period_start]_vars
===============================================================================
