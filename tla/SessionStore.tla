----------------------------- MODULE SessionStore -----------------------------
(***************************************************************************)
(* The session store of logos-session: messages are clustered into         *)
(* sessions, which move between three layers.  L0 and L1 are maps in       *)
(* memory, with an index from message to session, all behind one mutex; L2 *)
(* is a LanceDB database with a table of sessions and an index table.      *)
(*                                                                         *)
(* observe takes the mutex twice and never across an await.  In between it *)
(* pages a session in from L2 (reads it, deletes it, then inserts it into  *)
(* L0), and afterwards it writes the session it evicted to L2.  Every L2   *)
(* operation below is one step, so calls for other messages run in the     *)
(* gaps, a failure can strike at each, a caller can go away (Cancel) and   *)
(* the kernel can die (Crash), which loses the memory and keeps L2.        *)
(***************************************************************************)
EXTENDS Naturals, Sequences, FiniteSets

CONSTANTS
    Msg,          \* messages
    NoMsg,        \* no message: an absent reply_to, no session
    ReplyTo,      \* ReplyTo[m]: the message m answers, or NoMsg
    Chat,         \* Chat[m]: its chat_id
    Id,           \* Id[m]: its msg_id, a row number of its chat's database
    Observer,     \* concurrent calls of observe
    L0Capacity, L1Capacity,
    L2Opens,      \* what may come of opening LanceDB when the kernel starts
    OneAtATime,   \* do callers wait for one observe before the next?
    Faults        \* may L2 and Ollama fail, callers go away, the kernel die?

VARIABLES
    hasL2,        \* did LanceDB open, or is the store in memory only?
    index,        \* msg_index: the session of a msg_id, NoMsg if none
    l0, l1,       \* the maps of sessions in memory
    l2,           \* rows of the L2 sessions table
    l2index,      \* rows <<msg_id, session_id>> of the L2 index table
    pc,           \* where each call of observe is
    msg,          \* the message it observes
    found,        \* the session_id that load_by_msg read from the L2 index
    held,         \* the session it has loaded, or evicted: at most one
    \* history
    seen,         \* the messages in the order in which they were clustered
    home          \* home[m]: the session m was put in, NoMsg before that

memory == <<hasL2, index, l0, l1>>
archive == <<l2, l2index>>
calls == <<pc, msg, found, held>>
history == <<seen, home>>
vars == <<memory, archive, calls, history>>

MsgId == { Id[m] : m \in Msg }

\* A session is named after its first message: session_id is "s-chat-msg_id".
Session == [id : Msg, msgs : SUBSET Msg]

ASSUME ConstantsOK ==
    /\ NoMsg \notin Msg
    /\ ReplyTo \in [Msg -> Msg \cup {NoMsg}]
    /\ \A m, n \in Msg : Id[m] = Id[n] /\ Chat[m] = Chat[n] => m = n
    /\ L0Capacity \in Nat /\ L1Capacity \in Nat
    /\ L2Opens \subseteq BOOLEAN /\ OneAtATime \in BOOLEAN /\ Faults \in BOOLEAN

Busy == { "check", "find", "load", "search", "delete", "delete_index", "enter",
          "persist_delete", "persist_add", "persist_unindex", "persist_index" }

Init ==
    /\ hasL2 \in L2Opens
    /\ index = [i \in MsgId |-> NoMsg]
    /\ l0 = {} /\ l1 = {} /\ l2 = {} /\ l2index = {}
    /\ pc = [o \in Observer |-> "idle"]
    /\ msg = [o \in Observer |-> NoMsg]
    /\ found = [o \in Observer |-> NoMsg]
    /\ held = [o \in Observer |-> {}]
    /\ seen = << >>
    /\ home = [m \in Msg |-> NoMsg]

-------------------------------------------------------------------------------
\* Every path of observe that ends forgets its locals.
\* Variant: the message stays.
GotoKeepsMsg(o, l) ==
    /\ pc' = [pc EXCEPT ![o] = l]
    /\ UNCHANGED msg
    /\ found' = IF l = "load" THEN found ELSE [found EXCEPT ![o] = NoMsg]

Goto(o, l) ==
    /\ pc' = [pc EXCEPT ![o] = l]
    /\ msg' = IF l = "idle" THEN [msg EXCEPT ![o] = NoMsg] ELSE msg
    /\ found' = IF l = "load" THEN found ELSE [found EXCEPT ![o] = NoMsg]

Keep(o, sessions) == held' = [held EXCEPT ![o] = sessions]

At(o, l) == pc[o] = l

\* messages.insert gives every message one observe.
Observe(o, m) ==
    /\ At(o, "idle")
    /\ OneAtATime => \A p \in Observer : pc[p] = "idle"
    /\ home[m] = NoMsg /\ \A p \in Observer : msg[p] # m
    /\ pc' = [pc EXCEPT ![o] = IF ReplyTo[m] # NoMsg THEN "check"
                               ELSE IF hasL2 THEN "search" ELSE "enter"]
    /\ msg' = [msg EXCEPT ![o] = m]
    /\ UNCHANGED <<memory, archive, found, held, history>>

\* Under the mutex: is the session of the target in memory?
Check(o) ==
    /\ At(o, "check")
    /\ Goto(o, IF hasL2 /\ index[Id[ReplyTo[msg[o]]]] = NoMsg THEN "find" ELSE "enter")
    /\ UNCHANGED <<memory, archive, held, history>>

\* load_by_msg reads the index table, then the sessions table; an error of
\* either counts as "no such session".
Find(o) ==
    /\ At(o, "find")
    /\ \/ \E row \in l2index :
            /\ row[1] = Id[ReplyTo[msg[o]]]
            /\ pc' = [pc EXCEPT ![o] = "load"]
            /\ found' = [found EXCEPT ![o] = row[2]]
            /\ UNCHANGED msg
       \/ /\ Faults \/ \A row \in l2index : row[1] # Id[ReplyTo[msg[o]]]
          /\ Goto(o, "enter")
    /\ UNCHANGED <<memory, archive, held, history>>

\* Variant: the query forgets its filter.
LoadAny(o) ==
    /\ At(o, "load")
    /\ \E s \in l2 : Keep(o, {s}) /\ Goto(o, "delete")
    /\ UNCHANGED <<memory, archive, history>>

Load(o) ==
    /\ At(o, "load")
    /\ \/ \E s \in l2 : s.id = found[o] /\ Keep(o, {s}) /\ Goto(o, "delete")
       \/ /\ Faults \/ \A s \in l2 : s.id # found[o]
          /\ Goto(o, "enter")
          /\ UNCHANGED held
    /\ UNCHANGED <<memory, archive, history>>

\* The nearest session of the chat, if it is near enough: any, or none.
Search(o) ==
    /\ At(o, "search")
    /\ \/ \E s \in l2 : Chat[s.id] = Chat[msg[o]] /\ Keep(o, {s}) /\ Goto(o, "delete")
       \/ Goto(o, "enter") /\ UNCHANGED held
    /\ UNCHANGED <<memory, archive, history>>

\* delete on L2: the session's row, then its index rows.  An error is logged
\* and the session restored all the same.
Delete(o) ==
    /\ At(o, "delete")
    /\ \E s \in held[o] :
         \/ l2' = { r \in l2 : r.id # s.id } /\ Goto(o, "delete_index")
         \/ Faults /\ UNCHANGED l2 /\ Goto(o, "enter")
    /\ UNCHANGED <<memory, l2index, held, history>>

DeleteIndex(o) ==
    /\ At(o, "delete_index")
    /\ \E s \in held[o] :
         \/ l2index' = { row \in l2index : row[2] # s.id }
         \/ Faults /\ UNCHANGED l2index
    /\ Goto(o, "enter")
    /\ UNCHANGED <<memory, l2, held, history>>

-------------------------------------------------------------------------------
(* The second locked section.                                              *)

\* HashMap::insert.
Put(layer, s) == { t \in layer : t.id # s.id } \cup {s}

With(s, m) == [s EXCEPT !.msgs = @ \cup {m}]

\* last_active: a session is touched whenever it is given a message.
LastActive(s, order) ==
    LET at == { i \in DOMAIN order : order[i] \in s.msgs }
    IN  CHOOSE i \in at : \A j \in at : j <= i

\* The session idle for longest: no two are touched by the same message.
Oldest(layer, order) ==
    { s \in layer : \A t \in layer : LastActive(s, order) <= LastActive(t, order) }

\* Variant: one session too many is tolerated.
ExcessLate(layer, capacity, order) ==
    IF Cardinality(layer) > capacity + 1 THEN Oldest(layer, order) ELSE {}

Excess(layer, capacity, order) ==
    IF Cardinality(layer) > capacity THEN Oldest(layer, order) ELSE {}

\* msg_index.retain: forget the messages of the sessions thrown out.
\* Variant: the index is left alone.
PurgeNothing(ix, out) == ix

Purge(ix, out) ==
    [i \in MsgId |-> IF \E s \in out : ix[i] = s.id THEN NoMsg ELSE ix[i]]

(* evict_collect, on the layers a, b and the index ix that the message      *)
(* leaves behind.  A section adds at most one session to memory, so each    *)
(* of its loops runs at most once.                                          *)
EvictCollect(o, a, b, ix) ==
    LET down == Excess(a, L0Capacity, seen')
        c    == { t \in b : \A s \in down : t.id # s.id } \cup down
        out  == Excess(c, L1Capacity, seen')
    IN  /\ l0' = a \ down
        /\ l1' = c \ out
        /\ index' = Purge(ix, out)
        /\ UNCHANGED hasL2
        /\ IF out # {} /\ hasL2
           THEN Goto(o, "persist_delete") /\ Keep(o, out)
           ELSE Goto(o, "idle") /\ Keep(o, {})

Cluster(m, sid) ==
    /\ seen' = Append(seen, m)
    /\ home' = [home EXCEPT ![m] = sid]

\* The index of a session brought in from L2.
\* Variant: only the new message is indexed.
ReindexNewest(s) ==
    [i \in MsgId |-> IF \E m \in s.msgs : Id[m] = i /\ home[m] = NoMsg
                     THEN s.id ELSE index[i]]

Reindex(s) ==
    [i \in MsgId |-> IF \E m \in s.msgs : Id[m] = i THEN s.id ELSE index[i]]

\* The session paged in from L2 goes to L0, with the message.
Restore(o) ==
    /\ At(o, "enter")
    /\ \E s \in held[o] :
         LET t == With(s, msg[o])
         IN  /\ Cluster(msg[o], s.id)
             /\ EvictCollect(o, Put(l0, t), l1, Reindex(t))
    /\ UNCHANGED archive

\* The session of the message that is answered.
\* Variant: sessions of L1 are overlooked.
TargetInL0(o) ==
    IF ReplyTo[msg[o]] # NoMsg /\ \E s \in l0 : s.id = index[Id[ReplyTo[msg[o]]]]
    THEN index[Id[ReplyTo[msg[o]]]] ELSE NoMsg

Target(o) == IF ReplyTo[msg[o]] = NoMsg THEN NoMsg ELSE index[Id[ReplyTo[msg[o]]]]

\* The index after m has joined session sid.
\* Variant: m is indexed as a session of its own.
WithReplyApart(m, sid) == [index EXCEPT ![Id[m]] = m]

WithReply(m, sid) == [index EXCEPT ![Id[m]] = sid]

\* The reply joins the session of its target, which returns to L0.
JoinInMemory(o) ==
    LET sid == Target(o)
        a   == { s \in l0 : s.id = sid }
        b   == { s \in l1 : s.id = sid /\ a = {} }
    IN  /\ At(o, "enter")
        /\ held[o] = {}
        /\ sid # NoMsg
        /\ Cluster(msg[o], sid)
        /\ EvictCollect(o, (l0 \ a) \cup { With(s, msg[o]) : s \in a \cup b }, l1 \ b,
                        WithReply(msg[o], sid))
        /\ UNCHANGED archive

StartSession(o) ==
    LET m == msg[o]
    IN  /\ At(o, "enter")
        /\ held[o] = {}
        /\ Target(o) = NoMsg
        /\ Cluster(m, m)
        /\ EvictCollect(o, Put(l0, [id |-> m, msgs |-> {m}]), l1,
                        [index EXCEPT ![Id[m]] = m])
        /\ UNCHANGED archive

Enter(o) == Restore(o) \/ JoinInMemory(o) \/ StartSession(o)

-------------------------------------------------------------------------------
(* persist: embed the text, then replace the row and its index rows.  The   *)
(* errors of the two deletes are ignored, any other ends the call, and the  *)
(* session is gone.                                                         *)

Lose(o) ==
    /\ Faults
    /\ Goto(o, "idle") /\ Keep(o, {})
    /\ UNCHANGED <<memory, archive, history>>

PersistDelete(o) ==
    /\ At(o, "persist_delete")
    /\ \E s \in held[o] : l2' = { r \in l2 : r.id # s.id } \/ (Faults /\ UNCHANGED l2)
    /\ Goto(o, "persist_add")
    /\ UNCHANGED <<memory, l2index, held, history>>

\* Variant: the row is deleted after it has been added.
PersistAddUndone(o) ==
    /\ At(o, "persist_add")
    /\ l2' = l2 \ held[o]
    /\ Goto(o, "persist_unindex")
    /\ UNCHANGED <<memory, l2index, held, history>>

PersistAdd(o) ==
    /\ At(o, "persist_add")
    /\ l2' = l2 \cup held[o]
    /\ Goto(o, "persist_unindex")
    /\ UNCHANGED <<memory, l2index, held, history>>

PersistUnindex(o) ==
    /\ At(o, "persist_unindex")
    /\ \E s \in held[o] : \E gone \in SUBSET s.msgs :
         /\ gone = s.msgs \/ Faults
         /\ l2index' = { row \in l2index : \A m \in gone : row[1] # Id[m] }
    /\ Goto(o, "persist_index")
    /\ UNCHANGED <<memory, l2, held, history>>

PersistIndex(o) ==
    /\ At(o, "persist_index")
    /\ \E s \in held[o] : l2index' = l2index \cup { <<Id[m], s.id>> : m \in s.msgs }
    /\ Goto(o, "idle") /\ Keep(o, {})
    /\ UNCHANGED <<memory, l2, history>>

Persist(o) ==
    \/ PersistDelete(o) \/ PersistAdd(o) \/ PersistUnindex(o) \/ PersistIndex(o)

-------------------------------------------------------------------------------
\* The caller goes away, or L2 refuses the session: what the call holds is lost.
Cancel(o) == pc[o] \in Busy /\ Lose(o)

\* The kernel dies; it starts with empty maps and the L2 it finds, or without
\* L2 if that does not open.
Crash ==
    /\ Faults
    /\ hasL2' \in L2Opens
    /\ index' = [i \in MsgId |-> NoMsg]
    /\ l0' = {} /\ l1' = {}
    /\ pc' = [o \in Observer |-> "idle"]
    /\ msg' = [o \in Observer |-> NoMsg]
    /\ found' = [o \in Observer |-> NoMsg]
    /\ held' = [o \in Observer |-> {}]
    /\ UNCHANGED <<archive, history>>

Step(o) ==
    \/ Check(o) \/ Find(o) \/ Load(o) \/ Search(o) \/ Delete(o) \/ DeleteIndex(o)
    \/ Enter(o) \/ Persist(o)

Next ==
    \/ \E o \in Observer : (\E m \in Msg : Observe(o, m)) \/ Step(o) \/ Cancel(o)
    \/ Crash

Spec == Init /\ [][Next]_vars
-------------------------------------------------------------------------------
(* Properties.                                                             *)

\* Session copies name sessions of known messages, the index maps ids to
\* sessions, and a call that has ended remembers nothing.
TypeOK ==
    /\ hasL2 \in BOOLEAN
    /\ index \in [MsgId -> Msg \cup {NoMsg}]
    /\ l0 \subseteq Session /\ l1 \subseteq Session /\ l2 \subseteq Session
    /\ l2index \subseteq (MsgId \X Msg)
    /\ pc \in [Observer -> Busy \cup {"idle"}]
    /\ msg \in [Observer -> Msg \cup {NoMsg}]
    /\ \A o \in Observer : pc[o] = "idle" <=> msg[o] = NoMsg
    /\ \A o \in Observer : pc[o] \in {"check", "find", "load"} => ReplyTo[msg[o]] \in Msg
    /\ found \in [Observer -> Msg \cup {NoMsg}]
    /\ held \in [Observer -> SUBSET Session]
    /\ seen \in Seq(Msg)
    /\ home \in [Msg -> Msg \cup {NoMsg}]

\* The single round of eviction that EvictCollect makes is all that the loops
\* of evict_collect (lib.rs:643-675) would: the layers never overflow, though
\* restored sessions come on top of those that calls create meanwhile.
WithinCapacity ==
    Cardinality(l0) <= L0Capacity /\ Cardinality(l1) <= L1Capacity

\* observe (lib.rs:592-598) drops a reply when the index names a session that
\* neither map holds.  It never does: evict_collect purges the index of the
\* session it throws out, whatever copies concurrent page faults made.
IndexLive ==
    \A i \in MsgId : index[i] # NoMsg => \E s \in l0 \cup l1 : s.id = index[i]

Copies == l0 \cup l1 \cup l2 \cup UNION { held[o] : o \in Observer }

\* However calls interleave, fail, or are cut short by a restart, every copy
\* of a session, in any layer or hand, and every index entry, on either side,
\* is about messages that were put in that session and in no other.  The
\* proviso, here and below, is that no two chats share a msg_id: the index is
\* keyed by msg_id alone (lib.rs:85), and nothing in the code ensures it.
CopiesAgree ==
    /\ \A s \in Copies : \A m \in s.msgs : home[m] = s.id
    /\ \A m \in Msg : index[Id[m]] \in {NoMsg, home[m]}
    /\ \A m \in Msg, t \in Msg : <<Id[m], t>> \in l2index => home[m] = t

\* A reply ends up with the message it answers or in a session of its own,
\* never in somebody else's, again if no two chats share a msg_id: with ids
\* that collide, a reply may join the session of another chat.
ChainsApart ==
    \A m \in Msg : home[m] # NoMsg /\ ReplyTo[m] # NoMsg
                     => home[m] \in {m} \cup {home[ReplyTo[m]]}

\* One call at a time, no failures, no shared msg_id: the three layers are invisible, and
\* paging and eviction neither lose, split nor merge a session.
Clusters ==
    INSTANCE SessionClusters WITH clusters <- { s.msgs : s \in Copies }
ClustersSpec == Clusters!Spec

\* What get_session_for_msg returns for m (lib.rs:677-696).
Lookup(m) ==
    LET local == { s \in l0 : s.id = index[Id[m]] }
        inactive == { s \in l1 : s.id = index[Id[m]] }
    IN  IF local \cup inactive # {}
        THEN IF local # {} THEN local ELSE inactive
        ELSE { s \in l2 : hasL2 /\ <<Id[m], s.id>> \in l2index }

\* Between calls, under the same proviso, get_session_for_msg finds exactly
\* one session for each message observed, and the message is in it.
Retrievable ==
    (\A o \in Observer : pc[o] = "idle") =>
        \A m \in Msg : home[m] # NoMsg =>
            \E s \in Lookup(m) : m \in s.msgs /\ Lookup(m) = {s}

\* A store that runs without L2 (main.rs:58 falls back to that): a reply to a
\* message that memory still holds joins its session, if chats share no msg_id.
HeldBinding ==
    [][~hasL2 => \A m \in Msg :
         /\ home[m] = NoMsg /\ home'[m] # NoMsg
         /\ \E s \in l0 \cup l1 : ReplyTo[m] \in s.msgs
         => \E s \in l0' \cup l1' : {m, ReplyTo[m]} \subseteq s.msgs]_vars
===============================================================================
