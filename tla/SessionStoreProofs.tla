-------------------------- MODULE SessionStoreProofs --------------------------
(***************************************************************************)
(* What the session store guarantees for any messages, capacities and      *)
(* number of concurrent calls, whatever fails.                             *)
(***************************************************************************)
EXTENDS SessionStore, SequenceTheorems, FiniteSetTheorems, WellFoundedInduction, TLAPS

LEMMA GotoTypeOK ==
  ASSUME NEW o \in Observer, NEW l \in Busy \cup {"idle"}, Goto(o, l),
         pc \in [Observer -> Busy \cup {"idle"}],
         msg \in [Observer -> Msg \cup {NoMsg}],
         found \in [Observer -> Msg \cup {NoMsg}],
         \A p \in Observer : pc[p] = "idle" <=> msg[p] = NoMsg,
         \A p \in Observer : pc[p] \in {"check", "find", "load"} => ReplyTo[msg[p]] \in Msg,
         pc[o] # "idle", l \notin {"check", "find", "load"} \/ ReplyTo[msg[o]] \in Msg
  PROVE  /\ pc' \in [Observer -> Busy \cup {"idle"}]
         /\ msg' \in [Observer -> Msg \cup {NoMsg}]
         /\ found' \in [Observer -> Msg \cup {NoMsg}]
         /\ \A p \in Observer : pc'[p] = "idle" <=> msg'[p] = NoMsg
         /\ \A p \in Observer : pc'[p] \in {"check", "find", "load"} => ReplyTo[msg'[p]] \in Msg
BY DEF Goto

(* The calls, as far as TypeOK is about them.                              *)
CallsOK ==
    /\ pc \in [Observer -> Busy \cup {"idle"}]
    /\ msg \in [Observer -> Msg \cup {NoMsg}]
    /\ found \in [Observer -> Msg \cup {NoMsg}]
    /\ \A p \in Observer : pc[p] = "idle" <=> msg[p] = NoMsg
    /\ \A p \in Observer : pc[p] \in {"check", "find", "load"} => ReplyTo[msg[p]] \in Msg

LEMMA GotoCallsOK ==
  ASSUME CallsOK, NEW o \in Observer, NEW l \in Busy \cup {"idle"}, Goto(o, l), pc[o] # "idle",
         l \notin {"check", "find", "load"} \/ ReplyTo[msg[o]] \in Msg
  PROVE  CallsOK'
BY GotoTypeOK DEF CallsOK

(* evict_collect keeps the layers and the index well formed, and a session *)
(* that an index entry names stays in memory as long as the entry does.    *)
LEMMA EvictTypeOK ==
  ASSUME NEW o \in Observer, NEW a \in SUBSET Session, NEW b \in SUBSET Session,
         NEW ix \in [MsgId -> Msg \cup {NoMsg}], CallsOK, pc[o] = "enter",
         held \in [Observer -> SUBSET Session], EvictCollect(o, a, b, ix)
  PROVE  /\ l0' \subseteq Session /\ l1' \subseteq Session
         /\ index' \in [MsgId -> Msg \cup {NoMsg}]
         /\ CallsOK' /\ held' \in [Observer -> SUBSET Session]
<1> DEFINE down == Excess(a, L0Capacity, seen')
           c    == { t \in b : \A s \in down : t.id # s.id } \cup down
           out  == Excess(c, L1Capacity, seen')
<1>1. down \subseteq a
  BY DEF Excess, Oldest
<1>2. out \subseteq c
  BY DEF Excess, Oldest
<1>3. l0' = a \ down /\ l1' = c \ out /\ index' = Purge(ix, out)
      /\ \/ Goto(o, "persist_delete") /\ Keep(o, out)
         \/ Goto(o, "idle") /\ Keep(o, {})
  BY DEF EvictCollect
<1> HIDE DEF down, out
<1>4. c \subseteq Session /\ out \subseteq Session
  BY <1>1, <1>2
<1>5. CallsOK'
  BY <1>3, GotoCallsOK DEF Busy
<1>6. held' \in [Observer -> SUBSET Session]
  BY <1>3, <1>4 DEF Keep
<1>7. index' \in [MsgId -> Msg \cup {NoMsg}]
  BY <1>3 DEF Purge
<1>8. QED  BY <1>1, <1>3, <1>4, <1>5, <1>6, <1>7

LEMMA EvictLive ==
  ASSUME NEW o \in Observer, NEW a, NEW b, NEW ix,
         \A i \in MsgId : ix[i] # NoMsg => \E s \in a \cup b : s.id = ix[i],
         EvictCollect(o, a, b, ix)
  PROVE  IndexLive'
<1> DEFINE down == Excess(a, L0Capacity, seen')
           c    == { t \in b : \A s \in down : t.id # s.id } \cup down
           out  == Excess(c, L1Capacity, seen')
<1>1. l0' = a \ down /\ l1' = c \ out /\ index' = Purge(ix, out)
  BY DEF EvictCollect
<1> SUFFICES ASSUME NEW i \in MsgId, index'[i] # NoMsg
             PROVE  \E s \in l0' \cup l1' : s.id = index'[i]
  BY DEF IndexLive
<1> HIDE DEF down, out
<1>2. index'[i] = ix[i] /\ ix[i] # NoMsg /\ \A s \in out : s.id # ix[i]
  BY <1>1 DEF Purge
<1>3. PICK s \in a \cup b : s.id = ix[i]
  BY <1>2
<1>4. CASE s \in a
  BY <1>1, <1>2, <1>3, <1>4
<1>5. CASE s \in b
  <2>1. PICK t \in c : t.id = s.id
    BY <1>5
  <2>2. QED  BY <1>1, <1>2, <1>3, <2>1
<1>6. QED  BY <1>3, <1>4, <1>5

-------------------------------------------------------------------------------
(* The three ways in which a message is put in a session.                  *)
LEMMA EnterTypeOK ==
  ASSUME TypeOK, NEW o \in Observer, Enter(o)
  PROVE  TypeOK'
<1> DEFINE m == msg[o]
<1>1. CallsOK /\ pc[o] = "enter" /\ m \in Msg
  BY DEF TypeOK, CallsOK, Enter, Restore, JoinInMemory, StartSession, At
<1>2. Id[m] \in MsgId
  BY <1>1 DEF MsgId
<1>3. PICK sid \in Msg, a \in SUBSET Session, b \in SUBSET Session,
           ix \in [MsgId -> Msg \cup {NoMsg}] :
        Cluster(m, sid) /\ EvictCollect(o, a, b, ix) /\ UNCHANGED archive
  <2>1. CASE Restore(o)
    <3>1. PICK s \in held[o] :
            /\ Cluster(m, s.id)
            /\ EvictCollect(o, Put(l0, With(s, m)), l1, Reindex(With(s, m)))
      BY <2>1 DEF Restore
    <3>2. s \in Session
      BY <3>1 DEF TypeOK
    <3>3. With(s, m) \in Session
      BY <1>1, <3>2 DEF With, Session
    <3>4. Put(l0, With(s, m)) \in SUBSET Session /\ l1 \in SUBSET Session
      BY <3>3 DEF Put, TypeOK
    <3>5. Reindex(With(s, m)) \in [MsgId -> Msg \cup {NoMsg}]
      BY <3>3 DEF Reindex, TypeOK, Session
    <3>6. s.id \in Msg /\ UNCHANGED archive
      BY <2>1, <3>2 DEF Session, Restore
    <3>7. QED  BY <3>1, <3>4, <3>5, <3>6
  <2>2. CASE JoinInMemory(o)
    <3> DEFINE sid == Target(o)
               a == { s \in l0 : s.id = sid }
               b == { s \in l1 : s.id = sid /\ a = {} }
               a2 == (l0 \ a) \cup { With(s, m) : s \in a \cup b }
    <3>1. sid \in Msg
      <4>1. ReplyTo[m] \in Msg /\ sid = index[Id[ReplyTo[m]]] /\ sid # NoMsg
        BY <1>1, <2>2, ConstantsOK DEF ConstantsOK, JoinInMemory, Target
      <4>2. QED  BY <4>1 DEF TypeOK, MsgId
    <3>2. \A s \in l0 \cup l1 : With(s, m) \in Session
      BY <1>1 DEF With, Session, TypeOK
    <3>3. a2 \in SUBSET Session /\ (l1 \ b) \in SUBSET Session
      BY <3>2 DEF TypeOK
    <3>4. WithReply(m, sid) \in [MsgId -> Msg \cup {NoMsg}]
      BY <3>1 DEF WithReply, TypeOK
    <3>5. /\ Cluster(m, sid) /\ UNCHANGED archive
          /\ EvictCollect(o, a2, l1 \ b, WithReply(m, sid))
      BY <2>2 DEF JoinInMemory
    <3> HIDE DEF a2, b, sid
    <3>6. QED  BY <3>1, <3>3, <3>4, <3>5
  <2>3. CASE StartSession(o)
    <3> DEFINE s == [id |-> m, msgs |-> {m}]
    <3>1. s \in Session
      BY <1>1 DEF Session
    <3>2. Put(l0, s) \in SUBSET Session /\ l1 \in SUBSET Session
      BY <3>1 DEF Put, TypeOK
    <3>3. [index EXCEPT ![Id[m]] = m] \in [MsgId -> Msg \cup {NoMsg}]
      BY <1>1 DEF TypeOK
    <3>4. QED  BY <1>1, <2>3, <3>2, <3>3 DEF StartSession
  <2>4. QED  BY <2>1, <2>2, <2>3 DEF Enter
<1>4. /\ l0' \subseteq Session /\ l1' \subseteq Session
      /\ index' \in [MsgId -> Msg \cup {NoMsg}]
      /\ CallsOK' /\ held' \in [Observer -> SUBSET Session]
  BY <1>1, <1>3, EvictTypeOK DEF TypeOK
<1>5. seen' \in Seq(Msg)
  BY <1>1, <1>3, AppendProperties DEF Cluster, TypeOK
<1>6. home' \in [Msg -> Msg \cup {NoMsg}]
  BY <1>3 DEF Cluster, TypeOK
<1>7. QED
  BY <1>3, <1>4, <1>5, <1>6 DEF TypeOK, CallsOK, archive, EvictCollect

(* The other steps of a call leave the memory alone.                       *)
LEMMA StepTypeOK ==
  ASSUME TypeOK, NEW o \in Observer,
         \/ Check(o) \/ Find(o) \/ Load(o) \/ Search(o) \/ Delete(o) \/ DeleteIndex(o)
         \/ Persist(o) \/ Cancel(o)
  PROVE  TypeOK'
<1>1. CallsOK
  BY DEF TypeOK, CallsOK
<1> SUFFICES /\ CallsOK' /\ held' \in [Observer -> SUBSET Session]
             /\ l2' \subseteq Session /\ l2index' \subseteq (MsgId \X Msg)
             /\ UNCHANGED <<memory, history>>
  BY DEF TypeOK, CallsOK, memory, history
<1> USE DEF At
<1>2. CASE Check(o)
  BY <1>1, <1>2, GotoCallsOK DEF Check, archive, Busy, TypeOK
<1>3. CASE Find(o)
  <2>1. CASE Goto(o, "enter")
    BY <1>1, <1>3, <2>1, GotoCallsOK DEF Find, archive, Busy, TypeOK
  <2>2. CASE \E row \in l2index :
               /\ pc' = [pc EXCEPT ![o] = "load"]
               /\ found' = [found EXCEPT ![o] = row[2]]
               /\ UNCHANGED msg
    <3>1. CallsOK'
      BY <1>1, <1>3, <2>2 DEF Find, CallsOK, Busy, TypeOK
    <3>2. QED  BY <1>3, <3>1 DEF Find, archive, TypeOK
  <2>3. QED  BY <1>3, <2>1, <2>2 DEF Find
<1>4. CASE Load(o) \/ Search(o)
  <2>1. CallsOK'
    BY <1>1, <1>4, GotoCallsOK DEF Load, Search, Busy
  <2>2. held' \in [Observer -> SUBSET Session]
    BY <1>4 DEF Load, Search, Keep, TypeOK
  <2>3. QED  BY <1>4, <2>1, <2>2 DEF Load, Search, archive, TypeOK
<1>5. CASE Delete(o) \/ DeleteIndex(o)
  <2>1. CallsOK'
    BY <1>1, <1>5, GotoCallsOK DEF Delete, DeleteIndex, Busy
  <2>2. QED  BY <1>5, <2>1 DEF Delete, DeleteIndex, TypeOK
<1>6. CASE Persist(o)
  <2>1. CallsOK'
    BY <1>1, <1>6, GotoCallsOK
       DEF Persist, PersistDelete, PersistAdd, PersistUnindex, PersistIndex, Busy
  <2>2. held' \in [Observer -> SUBSET Session]
    BY <1>6 DEF Persist, PersistDelete, PersistAdd, PersistUnindex, PersistIndex, Keep, TypeOK
  <2>3. l2' \subseteq Session
    BY <1>6 DEF Persist, PersistDelete, PersistAdd, PersistUnindex, PersistIndex, TypeOK
  <2>4. l2index' \subseteq (MsgId \X Msg)
    <3>1. CASE PersistIndex(o)
      BY <3>1 DEF PersistIndex, TypeOK, Session, MsgId
    <3>2. CASE ~PersistIndex(o)
      BY <1>6, <3>2 DEF Persist, PersistDelete, PersistAdd, PersistUnindex, TypeOK
    <3>3. QED  BY <3>1, <3>2
  <2>5. QED
    BY <1>6, <2>1, <2>2, <2>3, <2>4
       DEF Persist, PersistDelete, PersistAdd, PersistUnindex, PersistIndex
<1>7. CASE Cancel(o)
  <2>1. CallsOK'
    BY <1>1, <1>7, GotoCallsOK DEF Cancel, Lose, Busy
  <2>2. QED  BY <1>7, <2>1 DEF Cancel, Lose, Keep, archive, TypeOK
<1>8. QED  BY <1>2, <1>3, <1>4, <1>5, <1>6, <1>7

LEMMA InitTypeOK == Init => TypeOK
<1> SUFFICES ASSUME Init PROVE TypeOK
  OBVIOUS
<1>1. << >> \in Seq(Msg)
  BY EmptySeq
<1>2. hasL2 \in BOOLEAN
  BY ConstantsOK DEF ConstantsOK, Init
<1>3. QED  BY <1>1, <1>2 DEF Init, TypeOK, Busy

LEMMA NextTypeOK == TypeOK /\ [Next]_vars => TypeOK'
<1> SUFFICES ASSUME TypeOK, [Next]_vars PROVE TypeOK'
  OBVIOUS
<1>1. ASSUME NEW o \in Observer, NEW m \in Msg, Observe(o, m) PROVE TypeOK'
  <2>1. ReplyTo[m] \in Msg \cup {NoMsg} /\ NoMsg \notin Msg
    BY ConstantsOK DEF ConstantsOK
  <2>2. pc' \in [Observer -> Busy \cup {"idle"}] /\ msg' \in [Observer -> Msg \cup {NoMsg}]
    BY <1>1 DEF Observe, TypeOK, Busy
  <2>3. \A p \in Observer : pc'[p] = "idle" <=> msg'[p] = NoMsg
    BY <1>1, <2>1 DEF Observe, TypeOK, At
  <2>4. \A p \in Observer : pc'[p] \in {"check", "find", "load"} => ReplyTo[msg'[p]] \in Msg
    BY <1>1, <2>1 DEF Observe, TypeOK, At
  <2>5. QED
    BY <1>1, <2>2, <2>3, <2>4 DEF Observe, TypeOK, memory, archive, history
<1>2. ASSUME NEW o \in Observer, Step(o) \/ Cancel(o) PROVE TypeOK'
  BY <1>2, EnterTypeOK, StepTypeOK DEF Step
<1>3. CASE Crash
  <2>1. hasL2' \in BOOLEAN
    BY <1>3, ConstantsOK DEF ConstantsOK, Crash
  <2>2. QED  BY <1>3, <2>1 DEF Crash, TypeOK, Busy, archive, history
<1>4. CASE UNCHANGED vars
  BY <1>4 DEF vars, TypeOK, memory, archive, calls, history
<1>5. QED  BY <1>1, <1>2, <1>3, <1>4 DEF Next

(* In every reachable state the layers hold sessions, the index names      *)
(* sessions, and a call that has ended remembers nothing.                  *)
THEOREM TypeCorrect == Spec => []TypeOK
BY InitTypeOK, NextTypeOK, PTL DEF Spec

-------------------------------------------------------------------------------
(* The index names sessions that memory holds, so the reply that observe   *)
(* would drop does not exist.                                              *)
LEMMA EnterLive ==
  ASSUME TypeOK, IndexLive, NEW o \in Observer, Enter(o)
  PROVE  IndexLive'
<1> DEFINE m == msg[o]
<1>1. m \in Msg
  BY DEF TypeOK, Enter, Restore, JoinInMemory, StartSession, At
<1>2. CASE Restore(o)
  <2>1. PICK s \in held[o] :
          EvictCollect(o, Put(l0, With(s, m)), l1, Reindex(With(s, m)))
    BY <1>2 DEF Restore
  <2>2. With(s, m).id = s.id /\ With(s, m) \in Put(l0, With(s, m))
    BY <2>1 DEF TypeOK, Session, With, Put
  <2>3. \A i \in MsgId : Reindex(With(s, m))[i] # NoMsg
          => \E t \in Put(l0, With(s, m)) \cup l1 : t.id = Reindex(With(s, m))[i]
    BY <2>2 DEF Reindex, IndexLive, Put
  <2>4. QED  BY <2>1, <2>3, EvictLive
<1>3. CASE JoinInMemory(o)
  <2> DEFINE sid == Target(o)
             a == { s \in l0 : s.id = sid }
             b == { s \in l1 : s.id = sid /\ a = {} }
             a2 == (l0 \ a) \cup { With(s, m) : s \in a \cup b }
             b2 == l1 \ b
  <2>1. EvictCollect(o, a2, b2, WithReply(m, sid)) /\ sid # NoMsg
    BY <1>3 DEF JoinInMemory
  <2>2. \A s \in l0 \cup l1 : With(s, m).id = s.id
    BY DEF TypeOK, Session, With
  <2>3. ReplyTo[m] \in Msg /\ sid = index[Id[ReplyTo[m]]]
    BY <1>1, <2>1, ConstantsOK DEF ConstantsOK, Target
  <2>4. PICK t \in l0 \cup l1 : t.id = sid
    BY <2>1, <2>3 DEF IndexLive, MsgId
  <2>5. \E s \in a2 : s.id = sid
    <3>1. PICK u \in a \cup b : u.id = sid
      BY <2>4
    <3>2. With(u, m) \in a2
      BY <3>1
    <3>3. With(u, m).id = sid
      BY <2>2, <3>1
    <3>4. QED  BY <3>2, <3>3
  <2>6. \A s \in l0 \cup l1 : \E u \in a2 \cup b2 : u.id = s.id
    BY <2>5
  <2> HIDE DEF a2, b2, sid
  <2>7. \A i \in MsgId : WithReply(m, sid)[i] # NoMsg
          => \E s \in a2 \cup b2 : s.id = WithReply(m, sid)[i]
    <3>1. \A i \in MsgId : WithReply(m, sid)[i] = index[i] \/ WithReply(m, sid)[i] = sid
      BY DEF WithReply, TypeOK
    <3>2. \A i \in MsgId : index[i] # NoMsg => \E s \in l0 \cup l1 : s.id = index[i]
      BY DEF IndexLive
    <3>3. QED  BY <2>5, <2>6, <3>1, <3>2
  <2>8. QED  BY <2>1, <2>7, EvictLive
<1>4. CASE StartSession(o)
  <2> DEFINE s == [id |-> m, msgs |-> {m}]
             ix == [index EXCEPT ![Id[m]] = m]
  <2>1. EvictCollect(o, Put(l0, s), l1, ix)
    BY <1>4 DEF StartSession
  <2>2. s \in Put(l0, s) /\ s.id = m
    BY DEF Put
  <2>3. \A i \in MsgId : ix[i] # NoMsg => \E t \in Put(l0, s) \cup l1 : t.id = ix[i]
    BY <2>2 DEF TypeOK, IndexLive, Put
  <2> HIDE DEF s, ix
  <2>4. QED  BY <2>1, <2>3, EvictLive
<1>5. QED  BY <1>2, <1>3, <1>4 DEF Enter

(* With any number of concurrent calls, page faults that bring one session *)
(* in twice, failures and restarts, an index entry names a session of L0   *)
(* or L1.                                                                  *)
THEOREM IndexIsLive == Spec => []IndexLive
<1>1. Init => IndexLive
  BY DEF Init, IndexLive
<1>2. TypeOK /\ IndexLive /\ [Next]_vars => IndexLive'
  <2> SUFFICES ASSUME TypeOK, IndexLive, [Next]_vars PROVE IndexLive'
    OBVIOUS
  <2>1. ASSUME NEW o \in Observer, Enter(o) PROVE IndexLive'
    BY <2>1, EnterLive
  <2>2. CASE Crash
    BY <2>2 DEF Crash, IndexLive
  <2>3. CASE UNCHANGED memory
    BY <2>3 DEF memory, IndexLive
  <2>4. QED
    BY <2>1, <2>2, <2>3
       DEF Next, Step, Observe, Check, Find, Load, Search, Delete, DeleteIndex,
           Persist, PersistDelete, PersistAdd, PersistUnindex, PersistIndex,
           Cancel, Lose, vars
<1>3. QED  BY <1>1, <1>2, TypeCorrect, PTL DEF Spec

-------------------------------------------------------------------------------
(* Chains are kept apart.  The invariant: copies, index entries and what a *)
(* call has read all agree with the history of where messages were put,    *)
(* and a message under way has not been put anywhere.                      *)
UniqueIds == \A m, n \in Msg : Id[m] = Id[n] => m = n

Clustering == { "check", "find", "load", "search", "delete", "delete_index", "enter" }

InFlight ==
    \A o \in Observer :
        /\ pc[o] \in Clustering => home[msg[o]] = NoMsg
        /\ msg[o] # NoMsg => \A p \in Observer \ {o} : msg[p] # msg[o]

ReadsAgree ==
    \A o \in Observer :
        /\ pc[o] \in {"idle", "check", "find", "load", "search"} => held[o] = {}
        /\ pc[o] = "search" => ReplyTo[msg[o]] = NoMsg
        /\ pc[o] = "load" => found[o] \in Msg /\ home[ReplyTo[msg[o]]] = found[o]
        /\ pc[o] \in {"delete", "delete_index", "enter"} /\ ReplyTo[msg[o]] # NoMsg
             => \A s \in held[o] : home[ReplyTo[msg[o]]] = s.id

ChainInv == InFlight /\ ReadsAgree /\ CopiesAgree /\ ChainsApart

\* The sessions of S hold only messages that h puts in them.
AtHome(S, h) == \A s \in S : \A m \in s.msgs : h[m] = s.id

SameCall(p) == pc'[p] = pc[p] /\ msg'[p] = msg[p] /\ found'[p] = found[p] /\ held'[p] = held[p]

LEMMA EvictAtHome ==
  ASSUME NEW o \in Observer, NEW a, NEW b, NEW ix, NEW h, AtHome(a \cup b, h),
         held \in [Observer -> SUBSET Session], msg \in [Observer -> Msg \cup {NoMsg}],
         pc \in [Observer -> Busy \cup {"idle"}], found \in [Observer -> Msg \cup {NoMsg}],
         EvictCollect(o, a, b, ix)
  PROVE  /\ AtHome(l0' \cup l1' \cup held'[o], h)
         /\ pc'[o] \in {"persist_delete", "idle"} /\ msg'[o] \in {msg[o], NoMsg}
         /\ pc'[o] = "idle" => held'[o] = {}
         /\ \A p \in Observer \ {o} : SameCall(p)
<1> DEFINE down == Excess(a, L0Capacity, seen')
           c    == { t \in b : \A s \in down : t.id # s.id } \cup down
           out  == Excess(c, L1Capacity, seen')
<1>1. down \subseteq a /\ out \subseteq c
  BY DEF Excess, Oldest
<1>2. l0' = a \ down /\ l1' = c \ out
      /\ \/ Goto(o, "persist_delete") /\ Keep(o, out)
         \/ Goto(o, "idle") /\ Keep(o, {})
  BY DEF EvictCollect
<1> HIDE DEF down, out
<1>3. l0' \cup l1' \cup held'[o] \subseteq a \cup b
  BY <1>1, <1>2 DEF Keep
<1>4. AtHome(l0' \cup l1' \cup held'[o], h)
  BY <1>3 DEF AtHome
<1>5. /\ pc'[o] \in {"persist_delete", "idle"} /\ msg'[o] \in {msg[o], NoMsg}
      /\ pc'[o] = "idle" => held'[o] = {}
  BY <1>2 DEF Goto, Keep
<1>6. \A p \in Observer \ {o} : SameCall(p)
  BY <1>2 DEF Goto, Keep, SameCall
<1>7. QED  BY <1>4, <1>5, <1>6

\* A map has one session per id.
OneCopy(layer) == \A s, t \in layer : s.id = t.id => s = t

\* What evict_collect is given: the message of o is put in session sid, at
\* most one session is new in L0, and what the sessions hold is known.
Lays(o, sid, a, b, ix) ==
    LET m == msg[o]
    IN  /\ sid \in Msg
        /\ Cluster(m, sid) /\ EvictCollect(o, a, b, ix) /\ UNCHANGED archive
        /\ AtHome(a \cup b, [home EXCEPT ![m] = sid])
        /\ a \subseteq Session /\ b \subseteq l1
        /\ OneCopy(l0) /\ OneCopy(l1) => OneCopy(a) /\ \E t : a \subseteq l0 \cup {t}
        /\ \A s \in a : \/ s \in Copies
                         \/ s.msgs = {m}
                         \/ \E t \in Copies : s.msgs = t.msgs \cup {m}

\* The three ways of the second locked section.
Placed(o, sid, a, b, ix) ==
    LET m == msg[o]
        fresh == [id |-> m, msgs |-> {m}]
        top == { s \in l0 : s.id = sid }
        low == { s \in l1 : s.id = sid /\ top = {} }
    IN  \/ \E s \in held[o] : /\ sid = s.id /\ b = l1
                              /\ a = Put(l0, With(s, m)) /\ ix = Reindex(With(s, m))
        \/ /\ held[o] = {} /\ sid = Target(o) /\ sid # NoMsg /\ b = l1 \ low
           /\ a = (l0 \ top) \cup { With(s, m) : s \in top \cup low }
           /\ ix = WithReply(m, sid)
        \/ /\ held[o] = {} /\ Target(o) = NoMsg /\ sid = m /\ b = l1
           /\ a = Put(l0, fresh) /\ ix = [index EXCEPT ![Id[m]] = m]

\* Every copy holds messages that were put in it, and a message under way has
\* not been put anywhere: true of any ids.
HomeInv == InFlight /\ AtHome(Copies, home)

LEMMA EnterLays ==
  ASSUME TypeOK, HomeInv, NEW o \in Observer, Enter(o)
  PROVE  \E sid, a, b, ix : Lays(o, sid, a, b, ix) /\ Placed(o, sid, a, b, ix)
<1> DEFINE m == msg[o]
<1>1. m \in Msg /\ home[m] = NoMsg /\ NoMsg \notin Msg /\ pc[o] = "enter"
  BY ConstantsOK DEF ConstantsOK, TypeOK, Enter, Restore, JoinInMemory, StartSession, At,
                     HomeInv, InFlight, Clustering
<1>2. AtHome(Copies, home)
  BY DEF HomeInv
<1>3. \A s \in Copies : s \in Session
  BY DEF Copies, TypeOK
<1>4. \A s \in Copies : \A n \in s.msgs : n # m
  BY <1>1, <1>2, <1>3 DEF AtHome, Session
<1>5. \A sid \in Msg : AtHome(Copies, [home EXCEPT ![m] = sid])
  <2> SUFFICES ASSUME NEW sid \in Msg, NEW s \in Copies, NEW n \in s.msgs
               PROVE  [home EXCEPT ![m] = sid][n] = s.id
    BY DEF AtHome
  <2>1. n # m /\ home[n] = s.id /\ n \in Msg
    BY <1>2, <1>4, <1>3 DEF AtHome, Session
  <2>2. QED  BY <2>1 DEF TypeOK
<1>6. ASSUME NEW s \in Copies
      PROVE  AtHome({With(s, m)}, [home EXCEPT ![m] = s.id])
  <2>1. s \in Session /\ With(s, m).msgs = s.msgs \cup {m} /\ With(s, m).id = s.id
    BY <1>3, <1>6 DEF With, Session
  <2>2. AtHome({s}, [home EXCEPT ![m] = s.id])
    BY <1>5, <2>1 DEF AtHome, Session
  <2>3. [home EXCEPT ![m] = s.id][m] = s.id
    BY <1>1 DEF TypeOK
  <2>4. QED  BY <2>1, <2>2, <2>3 DEF AtHome
<1>7. CASE Restore(o)
  <2>1. PICK s \in held[o] :
          /\ Cluster(m, s.id)
          /\ EvictCollect(o, Put(l0, With(s, m)), l1, Reindex(With(s, m)))
    BY <1>7 DEF Restore
  <2>2. s \in Copies /\ s \in Session /\ s.id \in Msg
    BY <1>3, <2>1 DEF Copies, Session
  <2> DEFINE h == [home EXCEPT ![m] = s.id]
             t == With(s, m)
  <2>3. AtHome({t}, h) /\ AtHome(Copies, h)
    BY <1>5, <1>6, <2>2
  <2>4. AtHome(Put(l0, t) \cup l1, h)
    BY <2>3 DEF AtHome, Put, Copies
  <2>5. t.msgs = s.msgs \cup {m}
    BY <1>1, <2>2 DEF With, Session
  <2>6. UNCHANGED archive
    BY <1>7 DEF Restore
  <2>7. /\ Put(l0, t) \subseteq Session
        /\ OneCopy(l0) => OneCopy(Put(l0, t)) /\ Put(l0, t) \subseteq l0 \cup {t}
        /\ \A u \in Put(l0, t) : u \in Copies \/ u.msgs = s.msgs \cup {m}
    <3>1. t \in Session
      BY <1>1, <2>2 DEF With, Session
    <3>2. l0 \subseteq Session /\ l0 \subseteq Copies
      BY DEF TypeOK, Copies
    <3> HIDE DEF t
    <3>3. QED  BY <2>5, <3>1, <3>2 DEF Put, OneCopy
  <2> HIDE DEF t, h
  <2>8. Lays(o, s.id, Put(l0, t), l1, Reindex(t))
    BY <2>1, <2>2, <2>4, <2>6, <2>7 DEF t, h, Lays
  <2>9. Placed(o, s.id, Put(l0, t), l1, Reindex(t))
    BY <2>1 DEF t, Placed
  <2>10. QED  BY <2>8, <2>9
<1>8. CASE JoinInMemory(o)
  <2> DEFINE sid == Target(o)
             a == { s \in l0 : s.id = sid }
             b == { s \in l1 : s.id = sid /\ a = {} }
             a2 == (l0 \ a) \cup { With(s, m) : s \in a \cup b }
             h == [home EXCEPT ![m] = sid]
  <2>1. /\ Cluster(m, sid) /\ UNCHANGED archive
        /\ EvictCollect(o, a2, l1 \ b, WithReply(m, sid))
        /\ sid # NoMsg
    BY <1>8 DEF JoinInMemory
  <2>2. sid \in Msg
    <3>1. ReplyTo[m] \in Msg /\ sid = index[Id[ReplyTo[m]]]
      BY <1>1, <2>1, ConstantsOK DEF Target, ConstantsOK
    <3>2. QED  BY <2>1, <3>1 DEF TypeOK, MsgId
  <2>3. \A s \in a \cup b : s \in Copies /\ s.id = sid
    BY DEF Copies
  <2>4. AtHome(a2 \cup (l1 \ b), h)
    <3>1. AtHome(Copies, h)
      BY <1>5, <2>2
    <3>2. \A s \in a \cup b : AtHome({With(s, m)}, h)
      BY <1>6, <2>3
    <3>3. l0 \subseteq Copies /\ l1 \subseteq Copies
      BY DEF Copies
    <3> HIDE DEF sid, h
    <3>4. QED  BY <3>1, <3>2, <3>3 DEF AtHome
  <2>5. /\ a2 \subseteq Session
        /\ \A u \in a2 : u \in Copies \/ \E s \in Copies : u.msgs = s.msgs \cup {m}
    <3>1. \A s \in a \cup b : With(s, m) \in Session /\ With(s, m).msgs = s.msgs \cup {m}
      BY <1>1, <1>3, <2>3 DEF With, Session
    <3>2. l0 \subseteq Session /\ l0 \subseteq Copies
      BY DEF TypeOK, Copies
    <3> HIDE DEF a, b
    <3>3. QED  BY <2>3, <3>1, <3>2
  <2>6. ASSUME OneCopy(l0), OneCopy(l1)
        PROVE  OneCopy(a2) /\ \E t : a2 \subseteq l0 \cup {t}
    <3>1. \A s, t \in a \cup b : s = t
      BY <2>6 DEF OneCopy
    <3>2. \A s \in a \cup b : With(s, m).id = sid
      BY <1>3, <2>3 DEF With, Session
    <3>3. \A s \in l0 \ a : s.id # sid
      OBVIOUS
    <3> HIDE DEF a, b, sid
    <3>4. CASE a \cup b = {}
      <4>1. a2 \subseteq l0
        BY <3>4
      <4>2. QED  BY <2>6, <4>1 DEF OneCopy
    <3>5. ASSUME NEW t \in a \cup b
          PROVE  OneCopy(a2) /\ \E u : a2 \subseteq l0 \cup {u}
      <4>1. a \cup b = {t}
        BY <3>1, <3>5
      <4>2. a2 = (l0 \ a) \cup {With(t, m)}
        BY <4>1
      <4>3. QED  BY <2>6, <3>2, <3>3, <4>1, <4>2 DEF OneCopy
    <3>6. QED  BY <3>4, <3>5
  <2> HIDE DEF sid, a2, b
  <2>7. Lays(o, sid, a2, l1 \ b, WithReply(m, sid))
    BY <2>1, <2>2, <2>4, <2>5, <2>6 DEF Lays
  <2>8. Placed(o, sid, a2, l1 \ b, WithReply(m, sid))
    BY <1>8, <2>1 DEF JoinInMemory, Placed, sid, a2, b
  <2>9. QED  BY <2>7, <2>8
<1>9. CASE StartSession(o)
  <2> DEFINE s == [id |-> m, msgs |-> {m}]
             h == [home EXCEPT ![m] = m]
             ix == [index EXCEPT ![Id[m]] = m]
  <2>1. Cluster(m, m) /\ UNCHANGED archive /\ EvictCollect(o, Put(l0, s), l1, ix)
    BY <1>9 DEF StartSession
  <2>2. AtHome({s}, h)
    BY <1>1 DEF AtHome, TypeOK
  <2>3. AtHome(Copies, h)
    BY <1>1, <1>5
  <2>4. AtHome(Put(l0, s) \cup l1, h)
    BY <2>2, <2>3 DEF AtHome, Put, Copies
  <2>5. /\ Put(l0, s) \subseteq Session
        /\ OneCopy(l0) => OneCopy(Put(l0, s)) /\ Put(l0, s) \subseteq l0 \cup {s}
        /\ \A u \in Put(l0, s) : u \in Copies \/ u.msgs = {m}
    <3>1. s \in Session /\ s.msgs = {m}
      BY <1>1 DEF Session
    <3>2. l0 \subseteq Session /\ l0 \subseteq Copies
      BY DEF TypeOK, Copies
    <3> HIDE DEF s
    <3>3. QED  BY <3>1, <3>2 DEF Put, OneCopy
  <2> HIDE DEF s, ix
  <2>6. Lays(o, m, Put(l0, s), l1, ix)
    BY <1>1, <2>1, <2>4, <2>5 DEF Lays
  <2>7. Placed(o, m, Put(l0, s), l1, ix)
    BY <1>9 DEF StartSession, Placed, s, ix
  <2>8. QED  BY <2>6, <2>7
<1>10. QED  BY <1>7, <1>8, <1>9 DEF Enter

\* With ids that differ, the index too is about where messages are, and a
\* reply is put in its own session or in that of the message it answers.
Puts(o, sid, a, b, ix) ==
    LET m == msg[o]
        h == [home EXCEPT ![m] = sid]
    IN  /\ Lays(o, sid, a, b, ix)
        /\ \A n \in Msg : ix[Id[n]] \in {NoMsg, h[n]}
        /\ ReplyTo[m] # NoMsg => sid \in {m, home[ReplyTo[m]]}

LEMMA EnterPuts ==
  ASSUME UniqueIds, TypeOK, ChainInv, NEW o \in Observer, Enter(o)
  PROVE  \E sid, a, b, ix : Puts(o, sid, a, b, ix) /\ Placed(o, sid, a, b, ix)
<1> DEFINE m == msg[o]
<1>1. m \in Msg /\ home[m] = NoMsg /\ NoMsg \notin Msg /\ pc[o] = "enter"
      /\ ReplyTo[m] \in Msg \cup {NoMsg}
  BY ConstantsOK DEF ConstantsOK, TypeOK, Enter, Restore, JoinInMemory, StartSession, At,
                     ChainInv, InFlight, Clustering
<1>2. \A n \in Msg : index[Id[n]] \in {NoMsg, home[n]}
  BY DEF ChainInv, CopiesAgree
<1>3. HomeInv
  BY DEF HomeInv, ChainInv, CopiesAgree, AtHome
<1>4. PICK sid, a, b, ix : Lays(o, sid, a, b, ix) /\ Placed(o, sid, a, b, ix)
  BY <1>3, EnterLays
<1> DEFINE h == [home EXCEPT ![m] = sid]
<1>5. sid \in Msg /\ h[m] = sid /\ \A n \in Msg : n # m => h[n] = home[n]
  BY <1>1, <1>4 DEF Lays, TypeOK
<1>6. \A n \in Msg : n # m => Id[n] # Id[m]
  BY <1>1 DEF UniqueIds
<1> HIDE DEF h
<1>7. ASSUME NEW s \in held[o], sid = s.id, ix = Reindex(With(s, m)), NEW n \in Msg
      PROVE  ix[Id[n]] \in {NoMsg, h[n]} /\ (ReplyTo[m] # NoMsg => sid = home[ReplyTo[m]])
  <2>1. s \in Session /\ s \in Copies
    BY DEF TypeOK, Copies
  <2>2. /\ With(s, m).id = sid /\ With(s, m).msgs = s.msgs \cup {m}
        /\ With(s, m).msgs \subseteq Msg
    BY <1>1, <1>7, <2>1 DEF With, Session
  <2>3. ReplyTo[m] # NoMsg => sid = home[ReplyTo[m]]
    BY <1>1, <1>7 DEF ChainInv, ReadsAgree
  <2>4. CASE n \in With(s, m).msgs
    <3>1. ix[Id[n]] = sid
      BY <1>7, <2>2, <2>4 DEF Reindex, MsgId
    <3>2. h[n] = sid
      BY <1>3, <1>5, <1>7, <2>1, <2>2, <2>4 DEF HomeInv, AtHome
    <3>3. QED  BY <2>3, <3>1, <3>2
  <2>5. CASE n \notin With(s, m).msgs
    <3>1. ix[Id[n]] = index[Id[n]]
      BY <1>7, <2>2, <2>5 DEF Reindex, MsgId, UniqueIds
    <3>2. QED  BY <1>2, <1>5, <2>2, <2>3, <2>5, <3>1
  <2>6. QED  BY <2>4, <2>5
<1>8. ASSUME sid = Target(o), sid # NoMsg, ix = WithReply(m, sid), NEW n \in Msg
      PROVE  ix[Id[n]] \in {NoMsg, h[n]} /\ (ReplyTo[m] # NoMsg => sid = home[ReplyTo[m]])
  <2>1. ReplyTo[m] # NoMsg => sid = home[ReplyTo[m]]
    BY <1>1, <1>2, <1>8 DEF Target
  <2>2. ix[Id[n]] = IF n = m THEN sid ELSE index[Id[n]]
    BY <1>1, <1>6, <1>8 DEF WithReply, TypeOK, MsgId
  <2>3. QED  BY <1>2, <1>5, <2>1, <2>2
<1>9. ASSUME sid = m, ix = [index EXCEPT ![Id[m]] = m], NEW n \in Msg
      PROVE  ix[Id[n]] \in {NoMsg, h[n]}
  <2>1. ix[Id[n]] = IF n = m THEN m ELSE index[Id[n]]
    BY <1>1, <1>6, <1>9 DEF TypeOK, MsgId
  <2>2. QED  BY <1>2, <1>5, <1>9, <2>1
<1>10. \/ \E s \in held[o] : sid = s.id /\ ix = Reindex(With(s, m))
       \/ sid = Target(o) /\ sid # NoMsg /\ ix = WithReply(m, sid)
       \/ sid = m /\ ix = [index EXCEPT ![Id[m]] = m]
  BY <1>4 DEF Placed
<1>11. /\ \A n \in Msg : ix[Id[n]] \in {NoMsg, h[n]}
       /\ ReplyTo[m] # NoMsg => sid \in {m, home[ReplyTo[m]]}
  BY <1>1, <1>7, <1>8, <1>9, <1>10
<1>12. Puts(o, sid, a, b, ix)
  BY <1>4, <1>11 DEF Puts, h
<1>13. QED  BY <1>4, <1>12

(* The new message joins a session that is at home, so they all are.       *)
LEMMA EnterChain ==
  ASSUME UniqueIds, TypeOK, TypeOK', ChainInv, NEW o \in Observer, Enter(o)
  PROVE  ChainInv'
<1> DEFINE m == msg[o]
<1>1. m \in Msg /\ home[m] = NoMsg /\ NoMsg \notin Msg /\ pc[o] = "enter"
      /\ ReplyTo[m] \in Msg \cup {NoMsg}
  BY ConstantsOK DEF ConstantsOK, TypeOK, Enter, Restore, JoinInMemory, StartSession, At,
                     ChainInv, InFlight, Clustering
<1>2. AtHome(Copies, home)
  BY DEF ChainInv, CopiesAgree, AtHome
<1>3. PICK sid, a, b, ix :
        /\ sid \in Msg
        /\ Cluster(m, sid) /\ EvictCollect(o, a, b, ix) /\ UNCHANGED archive
        /\ AtHome(a \cup b, [home EXCEPT ![m] = sid])
        /\ \A n \in Msg : ix[Id[n]] \in {NoMsg, [home EXCEPT ![m] = sid][n]}
        /\ ReplyTo[m] # NoMsg => sid \in {m, home[ReplyTo[m]]}
  BY EnterPuts DEF Puts, Lays
<1>4. home' = [home EXCEPT ![m] = sid] /\ UNCHANGED <<l2, l2index>>
  BY <1>3 DEF Cluster, archive
<1>5. home'[m] = sid /\ \A n \in Msg \ {m} : home'[n] = home[n]
  BY <1>1, <1>4 DEF TypeOK
<1>6. /\ AtHome(l0' \cup l1' \cup held'[o], home')
      /\ \A n \in Msg : index'[Id[n]] \in {NoMsg, home'[n]}
      /\ pc'[o] \in {"persist_delete", "idle"} /\ msg'[o] \in {m, NoMsg}
      /\ pc'[o] = "idle" => held'[o] = {}
      /\ \A p \in Observer \ {o} : SameCall(p)
  <2>1. /\ held \in [Observer -> SUBSET Session] /\ msg \in [Observer -> Msg \cup {NoMsg}]
        /\ pc \in [Observer -> Busy \cup {"idle"}] /\ found \in [Observer -> Msg \cup {NoMsg}]
    BY DEF TypeOK
  <2>2. AtHome(a \cup b, home') /\ \A n \in Msg : ix[Id[n]] \in {NoMsg, home'[n]}
    BY <1>3, <1>4
  <2>3. EvictCollect(o, a, b, ix)
    BY <1>3
  <2>4. \A n \in Msg : index'[Id[n]] \in {NoMsg, home'[n]}
    BY <2>2, <2>3 DEF EvictCollect, Purge, MsgId
  <2> HIDE <1>3, <1>4 DEF m
  <2>5. QED  BY <2>1, <2>2, <2>3, <2>4, EvictAtHome DEF m
<1>7. CopiesAgree'
  <2>1. AtHome(Copies', home')
    <3>1. \A p \in Observer \ {o} : held'[p] = held[p]
      BY <1>6 DEF SameCall
    <3>2. \A s \in Copies' : s \in Copies \/ s \in l0' \cup l1' \cup held'[o]
      BY <1>4, <3>1 DEF Copies
    <3>3. ASSUME NEW s \in Copies PROVE \A n \in s.msgs : home'[n] = s.id
      <4>1. s \in Session
        BY <3>3 DEF Copies, TypeOK
      <4>2. \A n \in s.msgs : n \in Msg /\ home[n] = s.id /\ s.id # NoMsg
        BY <1>1, <1>2, <4>1 DEF AtHome, Session
      <4>3. QED  BY <1>1, <1>5, <4>2
    <3>4. QED  BY <1>6, <3>2, <3>3 DEF AtHome
  <2>2. \A n \in Msg, t \in Msg : <<Id[n], t>> \in l2index' => home'[n] = t
    BY <1>1, <1>4, <1>5 DEF ChainInv, CopiesAgree
  <2>3. QED  BY <1>6, <2>1, <2>2 DEF CopiesAgree, AtHome
<1>8. \A n \in Msg : home[n] # NoMsg => home'[n] = home[n]
  BY <1>1, <1>5
<1>9. \A n \in Msg : ReplyTo[n] # NoMsg => ReplyTo[n] \in Msg
  BY ConstantsOK DEF ConstantsOK
<1>10. ChainsApart'
  <2> SUFFICES ASSUME NEW n \in Msg, home'[n] # NoMsg, ReplyTo[n] # NoMsg
               PROVE  home'[n] = n \/ home'[n] = home'[ReplyTo[n]]
    BY DEF ChainsApart
  <2>1. ReplyTo[n] \in Msg
    BY <1>9
  <2>2. CASE n = m
    BY <1>1, <1>3, <1>5, <1>8, <2>1, <2>2
  <2>3. CASE n # m
    <3>1. home[n] # NoMsg /\ home'[n] = home[n]
      BY <1>5, <2>3
    <3>2. home[n] = n \/ home[n] = home[ReplyTo[n]]
      BY <3>1 DEF ChainInv, ChainsApart
    <3>3. QED  BY <1>8, <2>1, <3>1, <3>2
  <2>4. QED  BY <2>2, <2>3
<1>11. InFlight'
  <2> SUFFICES ASSUME NEW p \in Observer
               PROVE  /\ pc'[p] \in Clustering => home'[msg'[p]] = NoMsg
                      /\ msg'[p] # NoMsg => \A q \in Observer \ {p} : msg'[q] # msg'[p]
    BY DEF InFlight
  <2>1. \A q \in Observer : msg'[q] = msg[q] \/ msg'[q] = NoMsg
    BY <1>6 DEF SameCall
  <2>2. msg'[p] # NoMsg => \A q \in Observer \ {p} : msg'[q] # msg'[p]
    BY <2>1 DEF ChainInv, InFlight
  <2>3. ASSUME pc'[p] \in Clustering PROVE home'[msg'[p]] = NoMsg
    <3>1. p # o /\ SameCall(p)
      BY <1>6, <2>3 DEF Clustering
    <3>2. pc[p] \in Clustering /\ msg[p] \in Msg
      BY <2>3, <3>1 DEF TypeOK, SameCall, Clustering
    <3>3. home[msg[p]] = NoMsg /\ msg[p] # m
      BY <1>1, <3>1, <3>2 DEF ChainInv, InFlight
    <3>4. QED  BY <1>5, <3>1, <3>2, <3>3 DEF SameCall
  <2>4. QED  BY <2>2, <2>3
<1>12. ReadsAgree'
  <2> SUFFICES ASSUME NEW p \in Observer
               PROVE  /\ pc'[p] \in {"idle", "check", "find", "load", "search"} => held'[p] = {}
                      /\ pc'[p] = "search" => ReplyTo[msg'[p]] = NoMsg
                      /\ pc'[p] = "load"
                           => found'[p] \in Msg /\ home'[ReplyTo[msg'[p]]] = found'[p]
                      /\ pc'[p] \in {"delete", "delete_index", "enter"} /\ ReplyTo[msg'[p]] # NoMsg
                           => \A s \in held'[p] : home'[ReplyTo[msg'[p]]] = s.id
    BY DEF ReadsAgree
  <2>1. CASE p = o
    BY <1>6, <2>1
  <2>2. CASE p # o
    <3>1. SameCall(p)
      BY <1>6, <2>2
    <3>2. pc[p] # "idle" => msg[p] \in Msg
      BY DEF TypeOK
    <3>3. \A s \in held[p] : s.id \in Msg
      BY DEF TypeOK, Session
    <3>4. ASSUME pc[p] = "load"
          PROVE  found[p] \in Msg /\ home'[ReplyTo[msg[p]]] = found[p]
      <4>1. found[p] \in Msg /\ home[ReplyTo[msg[p]]] = found[p] /\ ReplyTo[msg[p]] \in Msg
        BY <3>4 DEF ChainInv, ReadsAgree, TypeOK
      <4>2. QED  BY <1>1, <1>8, <4>1
    <3>5. ASSUME pc[p] \in {"delete", "delete_index", "enter"}, ReplyTo[msg[p]] # NoMsg,
                 NEW s \in held[p]
          PROVE  home'[ReplyTo[msg[p]]] = s.id
      <4>1. home[ReplyTo[msg[p]]] = s.id /\ ReplyTo[msg[p]] \in Msg
        BY <1>9, <3>2, <3>5 DEF ChainInv, ReadsAgree
      <4>2. QED  BY <1>1, <1>8, <3>3, <4>1
    <3>6. /\ pc[p] \in {"idle", "check", "find", "load", "search"} => held[p] = {}
          /\ pc[p] = "search" => ReplyTo[msg[p]] = NoMsg
      BY DEF ChainInv, ReadsAgree
    <3>7. QED  BY <3>1, <3>4, <3>5, <3>6 DEF SameCall
  <2>3. QED  BY <2>1, <2>2
<1>13. QED  BY <1>7, <1>10, <1>11, <1>12 DEF ChainInv

-------------------------------------------------------------------------------
(* The other steps put nothing anywhere.  They are judged by what they     *)
(* leave in the layers and in the hands of the call that moves.            *)
LEMMA QuietChain ==
  ASSUME ChainInv, UNCHANGED history, Copies' \subseteq Copies,
         \A i \in MsgId : index'[i] \in {NoMsg, index[i]},
         \A m \in Msg, t \in Msg : <<Id[m], t>> \in l2index' => home[m] = t,
         InFlight', ReadsAgree'
  PROVE  ChainInv'
<1>1. home' = home
  BY DEF history
<1>2. CopiesAgree'
  <2>1. \A s \in Copies' : \A m \in s.msgs : home[m] = s.id
    BY DEF ChainInv, CopiesAgree
  <2>2. \A m \in Msg : index'[Id[m]] \in {NoMsg, home[m]}
    BY DEF ChainInv, CopiesAgree, MsgId
  <2>3. QED  BY <1>1, <2>1, <2>2 DEF CopiesAgree
<1>3. ChainsApart'
  BY <1>1 DEF ChainInv, ChainsApart
<1>4. QED  BY <1>2, <1>3 DEF ChainInv

\* A call that moves on, or ends, with the message it has.
Advance(o) ==
    /\ \A p \in Observer \ {o} : SameCall(p)
    /\ msg'[o] = IF pc'[o] = "idle" THEN NoMsg ELSE msg[o]
    /\ pc'[o] \in Clustering => pc[o] \in Clustering
    /\ pc[o] # "idle"

LEMMA AdvanceInFlight ==
  ASSUME TypeOK, InFlight, NEW o \in Observer, Advance(o), home' = home
  PROVE  InFlight'
<1>1. \A p \in Observer : msg'[p] = msg[p] \/ msg'[p] = NoMsg
  BY DEF Advance, SameCall
<1>2. \A p \in Observer : pc'[p] \in Clustering => pc[p] \in Clustering /\ msg'[p] = msg[p]
  BY DEF Advance, SameCall, Clustering
<1>3. QED  BY <1>1, <1>2 DEF InFlight

LEMMA AdvanceReads ==
  ASSUME TypeOK, ReadsAgree, NEW o \in Observer, Advance(o), home' = home,
         pc'[o] \in {"idle", "check", "find", "load", "search"} => held'[o] = {},
         pc'[o] # "search",
         pc'[o] = "load" => found'[o] \in Msg /\ home[ReplyTo[msg[o]]] = found'[o],
         pc'[o] \in {"delete", "delete_index", "enter"} /\ ReplyTo[msg[o]] # NoMsg
            => \A s \in held'[o] : home[ReplyTo[msg[o]]] = s.id
  PROVE  ReadsAgree'
<1> SUFFICES ASSUME NEW p \in Observer
             PROVE  /\ pc'[p] \in {"idle", "check", "find", "load", "search"} => held'[p] = {}
                    /\ pc'[p] = "search" => ReplyTo[msg'[p]] = NoMsg
                    /\ pc'[p] = "load"
                         => found'[p] \in Msg /\ home'[ReplyTo[msg'[p]]] = found'[p]
                    /\ pc'[p] \in {"delete", "delete_index", "enter"} /\ ReplyTo[msg'[p]] # NoMsg
                         => \A s \in held'[p] : home'[ReplyTo[msg'[p]]] = s.id
  BY DEF ReadsAgree
<1>1. CASE p = o
  BY <1>1 DEF Advance
<1>2. CASE p # o
  BY <1>2 DEF Advance, SameCall, ReadsAgree
<1>3. QED  BY <1>1, <1>2

\* Where Goto leads, and what Keep leaves in hand.
LEMMA GotoAdvance ==
  ASSUME TypeOK, NEW o \in Observer, NEW l \in Busy \cup {"idle"}, Goto(o, l),
         l \in Clustering => pc[o] \in Clustering, pc[o] # "idle",
         \/ UNCHANGED held
         \/ \E S : Keep(o, S)
  PROVE  Advance(o) /\ pc'[o] = l
BY DEF TypeOK, Goto, Keep, Advance, SameCall

LEMMA StepChain ==
  ASSUME UniqueIds, TypeOK, ChainInv, NEW o \in Observer,
         \/ Check(o) \/ Find(o) \/ Load(o) \/ Search(o) \/ Delete(o) \/ DeleteIndex(o)
         \/ Persist(o) \/ Cancel(o)
  PROVE  ChainInv'
<1> USE DEF At
<1>1. UNCHANGED history /\ home' = home /\ UNCHANGED <<index, l0, l1>>
  BY DEF Check, Find, Load, Search, Delete, DeleteIndex, Persist, PersistDelete, PersistAdd,
         PersistUnindex, PersistIndex, Cancel, Lose, memory, history
<1>2. InFlight /\ ReadsAgree /\ CopiesAgree
  BY DEF ChainInv
<1> SUFFICES /\ Copies' \subseteq Copies
             /\ \A m \in Msg, t \in Msg : <<Id[m], t>> \in l2index' => home[m] = t
             /\ InFlight' /\ ReadsAgree'
  BY <1>1, QuietChain
<1>3. ASSUME l2' \subseteq l2 \cup held[o], Advance(o), held'[o] \subseteq held[o] \cup l2
      PROVE  Copies' \subseteq Copies
  <2>1. \A p \in Observer : held'[p] \subseteq held[p] \cup l2
    BY <1>3 DEF Advance, SameCall
  <2>2. QED  BY <1>1, <1>3, <2>1 DEF Copies
<1>4. l2index' \subseteq l2index
        => \A m \in Msg, t \in Msg : <<Id[m], t>> \in l2index' => home[m] = t
  BY <1>2 DEF CopiesAgree
<1>5. held \in [Observer -> SUBSET Session]
  BY DEF TypeOK
<1>6. CASE Check(o)
  <2>1. UNCHANGED <<l2, l2index, held>> /\ held[o] = {}
    BY <1>2, <1>6 DEF Check, archive, ReadsAgree
  <2>2. Advance(o) /\ pc'[o] \in {"find", "enter"}
    BY <1>6, GotoAdvance DEF Check, Busy, Clustering
  <2>3. QED  BY <1>1, <1>2, <1>3, <1>4, <2>1, <2>2, AdvanceInFlight, AdvanceReads
<1>7. CASE Find(o)
  <2>1. UNCHANGED <<l2, l2index, held>> /\ held[o] = {}
    BY <1>2, <1>7 DEF Find, archive, ReadsAgree
  <2>2. CASE Goto(o, "enter")
    <3>1. Advance(o) /\ pc'[o] = "enter"
      BY <1>7, <2>1, <2>2, GotoAdvance DEF Find, Busy, Clustering
    <3>2. QED  BY <1>1, <1>2, <1>3, <1>4, <2>1, <3>1, AdvanceInFlight, AdvanceReads
  <2>3. CASE \E row \in l2index :
               /\ row[1] = Id[ReplyTo[msg[o]]]
               /\ pc' = [pc EXCEPT ![o] = "load"]
               /\ found' = [found EXCEPT ![o] = row[2]]
               /\ UNCHANGED msg
    <3>1. PICK row \in l2index : row[1] = Id[ReplyTo[msg[o]]]
                 /\ pc' = [pc EXCEPT ![o] = "load"]
                 /\ found' = [found EXCEPT ![o] = row[2]]
                 /\ UNCHANGED msg
      BY <2>3
    <3>2. Advance(o) /\ pc'[o] = "load" /\ found'[o] = row[2]
      BY <1>7, <2>1, <3>1 DEF Find, Advance, SameCall, Clustering, TypeOK
    <3>3. ReplyTo[msg[o]] \in Msg /\ row[2] \in Msg /\ row = <<row[1], row[2]>>
      BY <1>7 DEF Find, TypeOK
    <3>4. home[ReplyTo[msg[o]]] = row[2]
      BY <1>2, <3>1, <3>3 DEF CopiesAgree
    <3>5. QED
      BY <1>1, <1>2, <1>3, <1>4, <2>1, <3>2, <3>3, <3>4, AdvanceInFlight, AdvanceReads
  <2>4. QED  BY <1>7, <2>2, <2>3 DEF Find
<1>8. CASE Load(o)
  <2>1. UNCHANGED <<l2, l2index>> /\ held[o] = {}
    BY <1>2, <1>8 DEF Load, archive, ReadsAgree
  <2>2. CASE Goto(o, "enter") /\ UNCHANGED held
    <3>1. Advance(o) /\ pc'[o] = "enter"
      BY <1>8, <2>2, GotoAdvance DEF Load, Busy, Clustering
    <3>2. QED  BY <1>1, <1>2, <1>3, <1>4, <2>1, <2>2, <3>1, AdvanceInFlight, AdvanceReads
  <2>3. CASE \E s \in l2 : s.id = found[o] /\ Keep(o, {s}) /\ Goto(o, "delete")
    <3>1. PICK s \in l2 : s.id = found[o] /\ Keep(o, {s}) /\ Goto(o, "delete")
      BY <2>3
    <3>2. Advance(o) /\ pc'[o] = "delete" /\ held'[o] = {s}
      BY <1>5, <1>8, <3>1, GotoAdvance DEF Load, Busy, Clustering, Keep
    <3>3. home[ReplyTo[msg[o]]] = s.id
      BY <1>2, <1>8, <3>1 DEF Load, ReadsAgree
    <3>4. QED
      BY <1>1, <1>2, <1>3, <1>4, <2>1, <3>2, <3>3, AdvanceInFlight, AdvanceReads
  <2>4. QED  BY <1>8, <2>2, <2>3 DEF Load
<1>9. CASE Search(o)
  <2>1. UNCHANGED <<l2, l2index>> /\ held[o] = {} /\ ReplyTo[msg[o]] = NoMsg
    BY <1>2, <1>9 DEF Search, archive, ReadsAgree
  <2>2. CASE Goto(o, "enter") /\ UNCHANGED held
    <3>1. Advance(o) /\ pc'[o] = "enter"
      BY <1>9, <2>2, GotoAdvance DEF Search, Busy, Clustering
    <3>2. QED  BY <1>1, <1>2, <1>3, <1>4, <2>1, <2>2, <3>1, AdvanceInFlight, AdvanceReads
  <2>3. CASE \E s \in l2 : Keep(o, {s}) /\ Goto(o, "delete")
    <3>1. PICK s \in l2 : Keep(o, {s}) /\ Goto(o, "delete")
      BY <2>3
    <3>2. Advance(o) /\ pc'[o] = "delete" /\ held'[o] = {s}
      BY <1>5, <1>9, <3>1, GotoAdvance DEF Search, Busy, Clustering, Keep
    <3>3. QED  BY <1>1, <1>2, <1>3, <1>4, <2>1, <3>2, AdvanceInFlight, AdvanceReads
  <2>4. QED  BY <1>9, <2>2, <2>3 DEF Search
<1>10. CASE Delete(o) \/ DeleteIndex(o)
  <2>1. l2' \subseteq l2 /\ l2index' \subseteq l2index /\ UNCHANGED held
    BY <1>10 DEF Delete, DeleteIndex
  <2>2. Advance(o) /\ pc'[o] \in {"delete_index", "enter"}
    BY <1>10, <2>1, GotoAdvance DEF Delete, DeleteIndex, Busy, Clustering
  <2>3. ReplyTo[msg[o]] # NoMsg => \A s \in held[o] : home[ReplyTo[msg[o]]] = s.id
    BY <1>2, <1>10 DEF Delete, DeleteIndex, ReadsAgree
  <2>4. QED  BY <1>1, <1>2, <1>3, <1>4, <2>1, <2>2, <2>3, AdvanceInFlight, AdvanceReads
<1>11. CASE PersistDelete(o) \/ PersistAdd(o) \/ PersistUnindex(o)
  <2>1. l2' \subseteq l2 \cup held[o] /\ l2index' \subseteq l2index /\ UNCHANGED held
    BY <1>11 DEF PersistDelete, PersistAdd, PersistUnindex
  <2>2. Advance(o) /\ pc'[o] \in {"persist_add", "persist_unindex", "persist_index"}
    BY <1>11, <2>1, GotoAdvance DEF PersistDelete, PersistAdd, PersistUnindex, Busy, Clustering
  <2>3. QED  BY <1>1, <1>2, <1>3, <1>4, <2>1, <2>2, AdvanceInFlight, AdvanceReads
<1>12. CASE PersistIndex(o)
  <2>1. PICK s \in held[o] : l2index' = l2index \cup { <<Id[m], s.id>> : m \in s.msgs }
    BY <1>12 DEF PersistIndex
  <2>2. s \in Copies /\ s.msgs \subseteq Msg
    BY <1>5, <2>1 DEF Copies, Session
  <2>3. \A m \in Msg, t \in Msg : <<Id[m], t>> \in l2index' => home[m] = t
    <3> SUFFICES ASSUME NEW m \in Msg, NEW t \in Msg, <<Id[m], t>> \in l2index'
                 PROVE  home[m] = t
      OBVIOUS
    <3>1. CASE <<Id[m], t>> \in l2index
      BY <1>2, <3>1 DEF CopiesAgree
    <3>2. CASE \E n \in s.msgs : <<Id[m], t>> = <<Id[n], s.id>>
      <4>1. m \in s.msgs /\ t = s.id
        BY <2>2, <3>2 DEF UniqueIds
      <4>2. QED  BY <1>2, <2>2, <4>1 DEF CopiesAgree
    <3>3. QED  BY <2>1, <3>1, <3>2
  <2>4. Advance(o) /\ pc'[o] = "idle"
    BY <1>12, GotoAdvance DEF PersistIndex, Busy, Clustering
  <2>5. held'[o] = {} /\ l2' = l2
    BY <1>5, <1>12 DEF PersistIndex, Keep
  <2>6. QED  BY <1>1, <1>2, <1>3, <2>3, <2>4, <2>5, AdvanceInFlight, AdvanceReads
<1>13. CASE Cancel(o)
  <2>1. Advance(o) /\ pc'[o] = "idle"
    BY <1>13, GotoAdvance DEF Cancel, Lose, Busy, Clustering
  <2>2. held'[o] = {} /\ UNCHANGED <<l2, l2index>>
    BY <1>5, <1>13 DEF Cancel, Lose, Keep, archive
  <2>3. QED  BY <1>1, <1>2, <1>3, <1>4, <2>1, <2>2, AdvanceInFlight, AdvanceReads
<1>14. QED
  BY <1>6, <1>7, <1>8, <1>9, <1>10, <1>11, <1>12, <1>13 DEF Persist

LEMMA ObserveChain ==
  ASSUME TypeOK, ChainInv, NEW o \in Observer, NEW m \in Msg, Observe(o, m)
  PROVE  ChainInv'
<1>1. /\ home' = home /\ UNCHANGED history
      /\ UNCHANGED <<index, l0, l1, l2, l2index, held>>
  BY DEF Observe, memory, archive, history
<1>2. msg'[o] = m /\ home[m] = NoMsg /\ \A p \in Observer : msg[p] # m
  BY DEF Observe, TypeOK
<1>3. pc'[o] \in {"check", "search", "enter"} /\ (pc'[o] = "search" => ReplyTo[m] = NoMsg)
      /\ held[o] = {}
  BY DEF Observe, TypeOK, At, ChainInv, ReadsAgree
<1>4. \A p \in Observer \ {o} : SameCall(p)
  BY DEF Observe, TypeOK, SameCall
<1>5. InFlight'
  BY <1>1, <1>2, <1>3, <1>4 DEF ChainInv, InFlight, SameCall
<1>6. ReadsAgree'
  BY <1>1, <1>2, <1>3, <1>4 DEF ChainInv, ReadsAgree, SameCall
<1>7. QED  BY <1>1, <1>5, <1>6, QuietChain DEF Copies, ChainInv, CopiesAgree

LEMMA CrashChain ==
  ASSUME TypeOK, ChainInv, Crash
  PROVE  ChainInv'
<1>1. UNCHANGED history /\ l2index' = l2index /\ Copies' \subseteq Copies
  BY DEF Crash, archive, Copies
<1>2. \A i \in MsgId : index'[i] = NoMsg
  BY DEF Crash
<1>3. InFlight' /\ ReadsAgree'
  BY DEF Crash, InFlight, ReadsAgree, Clustering
<1>4. QED  BY <1>1, <1>2, <1>3, QuietChain DEF ChainInv, CopiesAgree

LEMMA ChainInvariant ==
  ASSUME UniqueIds
  PROVE  Spec => []ChainInv
<1>1. Init => ChainInv
  BY DEF Init, ChainInv, InFlight, ReadsAgree, CopiesAgree, ChainsApart, Copies, Clustering, MsgId
<1>2. TypeOK /\ TypeOK' /\ ChainInv /\ [Next]_vars => ChainInv'
  <2> SUFFICES ASSUME TypeOK, TypeOK', ChainInv, [Next]_vars PROVE ChainInv'
    OBVIOUS
  <2>1. CASE UNCHANGED vars
    BY <2>1 DEF vars, memory, archive, calls, history, ChainInv, InFlight, ReadsAgree,
                CopiesAgree, ChainsApart, Copies
  <2>2. QED
    BY <2>1, EnterChain, StepChain, ObserveChain, CrashChain DEF Next, Step
<1>3. QED  BY <1>1, <1>2, TypeCorrect, PTL DEF Spec

(* However calls interleave, fail or are cut short by a restart, if no two *)
(* messages have the same msg_id then every copy of a session and every    *)
(* index entry is about messages that were put in that session.            *)
THEOREM CopiesAgreeAlways ==
  ASSUME UniqueIds
  PROVE  Spec => []CopiesAgree
<1>1. ChainInv => CopiesAgree
  BY DEF ChainInv
<1>2. QED  BY <1>1, ChainInvariant, PTL

(* Under the same assumption a reply ends up with the message it answers   *)
(* or in a session of its own, never in somebody else's.                   *)
THEOREM ChainsAreApart ==
  ASSUME UniqueIds
  PROVE  Spec => []ChainsApart
<1>1. ChainInv => ChainsApart
  BY DEF ChainInv
<1>2. QED  BY <1>1, ChainInvariant, PTL
-------------------------------------------------------------------------------
(* What does not depend on the ids.  The index may lead a message to any    *)
(* session; it is then put there, and nowhere else.                         *)
LEMMA StepQuiet ==
  ASSUME TypeOK, NEW o \in Observer,
         \/ Check(o) \/ Find(o) \/ Load(o) \/ Search(o) \/ Delete(o) \/ DeleteIndex(o)
         \/ Persist(o) \/ Cancel(o)
  PROVE  UNCHANGED <<history, l0, l1>> /\ Advance(o) /\ Copies' \subseteq Copies
<1> USE DEF At
<1>1. UNCHANGED <<history, l0, l1>>
  BY DEF Check, Find, Load, Search, Delete, DeleteIndex, Persist, PersistDelete, PersistAdd,
         PersistUnindex, PersistIndex, Cancel, Lose, memory
<1>2. held \in [Observer -> SUBSET Session]
  BY DEF TypeOK
<1>3. ASSUME l2' \subseteq l2 \cup held[o], Advance(o), held'[o] \subseteq held[o] \cup l2
      PROVE  Advance(o) /\ Copies' \subseteq Copies
  <2>1. \A p \in Observer : held'[p] \subseteq held[p] \cup l2
    BY <1>3 DEF Advance, SameCall
  <2>2. QED  BY <1>1, <1>3, <2>1 DEF Copies
<1>4. CASE Check(o) \/ Delete(o) \/ DeleteIndex(o)
  <2>1. l2' \subseteq l2 /\ UNCHANGED held
    BY <1>4 DEF Check, Delete, DeleteIndex, archive
  <2>2. Advance(o)
    BY <1>4, <2>1, GotoAdvance DEF Check, Delete, DeleteIndex, Busy, Clustering
  <2>3. QED  BY <1>1, <1>3, <2>1, <2>2
<1>5. CASE Find(o)
  <2>1. UNCHANGED <<l2, held>> /\ pc[o] = "find"
    BY <1>5 DEF Find, archive
  <2>2. CASE Goto(o, "enter")
    BY <1>1, <1>3, <2>1, <2>2, GotoAdvance DEF Busy, Clustering
  <2>3. CASE \E row \in l2index : /\ pc' = [pc EXCEPT ![o] = "load"]
                                  /\ found' = [found EXCEPT ![o] = row[2]]
                                  /\ UNCHANGED msg
    <3>1. Advance(o)
      BY <2>1, <2>3 DEF Advance, SameCall, Clustering, TypeOK
    <3>2. QED  BY <1>1, <1>3, <2>1, <3>1
  <2>4. QED  BY <1>5, <2>2, <2>3 DEF Find
<1>6. CASE Load(o) \/ Search(o)
  <2>1. UNCHANGED l2 /\ pc[o] \in {"load", "search"}
    BY <1>6 DEF Load, Search, archive
  <2>2. CASE Goto(o, "enter") /\ UNCHANGED held
    BY <1>1, <1>3, <2>1, <2>2, GotoAdvance DEF Busy, Clustering
  <2>3. ASSUME NEW s \in l2, Keep(o, {s}), Goto(o, "delete")
        PROVE  Advance(o) /\ Copies' \subseteq Copies
    <3>1. Advance(o)
      BY <2>1, <2>3, GotoAdvance DEF Busy, Clustering
    <3>2. held'[o] = {s}
      BY <1>2, <2>3 DEF Keep
    <3>3. QED  BY <1>1, <1>3, <2>1, <2>3, <3>1, <3>2
  <2>4. QED  BY <1>1, <1>6, <2>2, <2>3 DEF Load, Search
<1>7. CASE PersistDelete(o) \/ PersistAdd(o) \/ PersistUnindex(o)
  <2>1. l2' \subseteq l2 \cup held[o] /\ UNCHANGED held
    BY <1>7 DEF PersistDelete, PersistAdd, PersistUnindex
  <2>2. Advance(o)
    BY <1>7, <2>1, GotoAdvance DEF PersistDelete, PersistAdd, PersistUnindex, Busy, Clustering
  <2>3. QED  BY <1>1, <1>3, <2>1, <2>2
<1>8. CASE PersistIndex(o) \/ Cancel(o)
  <2>1. l2' = l2 /\ Keep(o, {}) /\ held'[o] = {}
    BY <1>2, <1>8 DEF PersistIndex, Cancel, Lose, archive, Keep
  <2>2. Advance(o)
    BY <1>8, <2>1, GotoAdvance DEF PersistIndex, Cancel, Lose, Busy, Clustering
  <2>3. QED  BY <1>1, <1>3, <2>1, <2>2
<1>9. QED  BY <1>4, <1>5, <1>6, <1>7, <1>8 DEF Persist

LEMMA EnterHome ==
  ASSUME TypeOK, HomeInv, NEW o \in Observer, Enter(o)
  PROVE  HomeInv'
<1> DEFINE m == msg[o]
<1>1. m \in Msg /\ NoMsg \notin Msg
  BY ConstantsOK DEF ConstantsOK, TypeOK, Enter, Restore, JoinInMemory, StartSession, At
<1>2. PICK sid, a, b, ix : Lays(o, sid, a, b, ix)
  BY EnterLays
<1>3. /\ home' = [home EXCEPT ![m] = sid] /\ l2' = l2 /\ EvictCollect(o, a, b, ix)
      /\ AtHome(a \cup b, home') /\ sid \in Msg
  BY <1>2 DEF Lays, Cluster, archive
<1>4. home'[m] = sid /\ \A n \in Msg \ {m} : home'[n] = home[n]
  BY <1>1, <1>3 DEF TypeOK
<1>5. /\ AtHome(l0' \cup l1' \cup held'[o], home')
      /\ pc'[o] \in {"persist_delete", "idle"} /\ msg'[o] \in {m, NoMsg}
      /\ \A p \in Observer \ {o} : SameCall(p)
  <2>1. /\ held \in [Observer -> SUBSET Session] /\ msg \in [Observer -> Msg \cup {NoMsg}]
        /\ pc \in [Observer -> Busy \cup {"idle"}] /\ found \in [Observer -> Msg \cup {NoMsg}]
    BY DEF TypeOK
  <2>2. AtHome(a \cup b, home') /\ EvictCollect(o, a, b, ix)
    BY <1>3
  <2> HIDE <1>2, <1>3 DEF m
  <2>3. QED  BY <2>1, <2>2, EvictAtHome DEF m
<1>6. pc[o] = "enter" /\ home[m] = NoMsg
  BY DEF HomeInv, InFlight, Clustering, Enter, Restore, JoinInMemory, StartSession, At
<1>7. AtHome(Copies', home')
  <2>1. \A s \in Copies' : s \in Copies \/ s \in l0' \cup l1' \cup held'[o]
    BY <1>3, <1>5 DEF Copies, SameCall
  <2>2. ASSUME NEW s \in Copies PROVE \A n \in s.msgs : home'[n] = s.id
    <3>1. s \in Session
      BY DEF Copies, TypeOK
    <3>2. \A n \in s.msgs : n \in Msg /\ home[n] = s.id /\ s.id # NoMsg
      BY <1>1, <3>1 DEF HomeInv, AtHome, Session
    <3>3. QED  BY <1>4, <1>6, <3>2
  <2>3. QED  BY <1>5, <2>1, <2>2 DEF AtHome
<1>8. InFlight'
  <2> SUFFICES ASSUME NEW p \in Observer
               PROVE  /\ pc'[p] \in Clustering => home'[msg'[p]] = NoMsg
                      /\ msg'[p] # NoMsg => \A q \in Observer \ {p} : msg'[q] # msg'[p]
    BY DEF InFlight
  <2>1. \A q \in Observer : msg'[q] = msg[q] \/ msg'[q] = NoMsg
    BY <1>5 DEF SameCall
  <2>2. msg'[p] # NoMsg => \A q \in Observer \ {p} : msg'[q] # msg'[p]
    BY <2>1 DEF HomeInv, InFlight
  <2>3. ASSUME pc'[p] \in Clustering PROVE home'[msg'[p]] = NoMsg
    <3>1. p # o /\ SameCall(p)
      BY <1>5, <2>3 DEF Clustering
    <3>2. pc[p] \in Clustering /\ msg[p] \in Msg
      BY <2>3, <3>1 DEF TypeOK, SameCall, Clustering
    <3>3. home[msg[p]] = NoMsg /\ msg[p] # m
      BY <1>1, <3>1, <3>2 DEF HomeInv, InFlight
    <3>4. QED  BY <1>4, <3>1, <3>2, <3>3 DEF SameCall
  <2>4. QED  BY <2>2, <2>3
<1>9. QED  BY <1>7, <1>8 DEF HomeInv

LEMMA HomeInvariant == Spec => []HomeInv
<1>1. Init => HomeInv
  BY DEF Init, HomeInv, InFlight, Clustering, AtHome, Copies
<1>2. TypeOK /\ HomeInv /\ [Next]_vars => HomeInv'
  <2> SUFFICES ASSUME TypeOK, HomeInv, [Next]_vars PROVE HomeInv'
    OBVIOUS
  <2>1. ASSUME NEW o \in Observer, Enter(o) PROVE HomeInv'
    BY <2>1, EnterHome
  <2>2. ASSUME NEW o \in Observer,
               \/ Check(o) \/ Find(o) \/ Load(o) \/ Search(o) \/ Delete(o) \/ DeleteIndex(o)
               \/ Persist(o) \/ Cancel(o)
        PROVE  HomeInv'
    <3>1. home' = home /\ Advance(o) /\ Copies' \subseteq Copies
      BY <2>2, StepQuiet DEF history
    <3>2. InFlight'
      BY <3>1, AdvanceInFlight DEF HomeInv
    <3>3. QED  BY <3>1, <3>2 DEF HomeInv, AtHome
  <2>3. ASSUME NEW o \in Observer, NEW m \in Msg, Observe(o, m) PROVE HomeInv'
    <3>1. home' = home /\ Copies' = Copies
      BY <2>3 DEF Observe, memory, archive, history, Copies
    <3>2. msg'[o] = m /\ home[m] = NoMsg /\ \A p \in Observer : msg[p] # m
      BY <2>3 DEF Observe, TypeOK
    <3>3. \A p \in Observer \ {o} : SameCall(p)
      BY <2>3 DEF Observe, TypeOK, SameCall
    <3>4. InFlight'
      BY <3>1, <3>2, <3>3 DEF HomeInv, InFlight, SameCall
    <3>5. QED  BY <3>1, <3>4 DEF HomeInv
  <2>4. CASE Crash
    BY <2>4 DEF Crash, archive, history, HomeInv, InFlight, Clustering, AtHome, Copies
  <2>5. CASE UNCHANGED vars
    BY <2>5 DEF vars, memory, archive, calls, history, HomeInv, InFlight, Copies
  <2>6. QED  BY <2>1, <2>2, <2>3, <2>4, <2>5 DEF Next, Step
<1>3. QED  BY <1>1, <1>2, TypeCorrect, PTL DEF Spec

(* For any ids, also those that two chats share: a message is never in two  *)
(* sessions, in whatever layers and hands their copies are, after whatever  *)
(* failures and restarts.                                                   *)
THEOREM NeverInTwoSessions ==
  Spec => [](\A s, t \in Copies : s.msgs \cap t.msgs # {} => s.id = t.id)
<1>1. HomeInv => \A s, t \in Copies : s.msgs \cap t.msgs # {} => s.id = t.id
  BY DEF HomeInv, AtHome
<1>2. QED  BY <1>1, HomeInvariant, PTL

-------------------------------------------------------------------------------
(* Capacities.  A layer is a set here, so that one round of eviction is    *)
(* enough depends on Oldest being one session: its sessions have different *)
(* ids, hence no message in common, hence different times of activity.     *)

\* Sessions are never empty, and their messages are in the history.
Recorded(S, order) ==
    \A s \in S : /\ s.msgs # {}
                 /\ \A n \in s.msgs : \E i \in DOMAIN order : order[i] = n

LEMMA LastActiveIs ==
  ASSUME NEW order \in Seq(Msg), NEW s, Recorded({s}, order)
  PROVE  /\ LastActive(s, order) \in DOMAIN order /\ LastActive(s, order) \in Nat
         /\ order[LastActive(s, order)] \in s.msgs
         /\ \A i \in DOMAIN order : order[i] \in s.msgs => i <= LastActive(s, order)
<1> DEFINE at == { i \in DOMAIN order : order[i] \in s.msgs }
           D  == { Len(order) - i : i \in at }
<1>1. Len(order) \in Nat /\ DOMAIN order = 1 .. Len(order)
  BY LenProperties
<1>2. at # {} /\ \A i \in at : i \in Nat /\ i <= Len(order)
  BY <1>1 DEF Recorded
<1>3. D # {} /\ D \subseteq Nat
  BY <1>1, <1>2
<1>4. PICK d \in D : \A e \in D : ~(<<e, d>> \in OpToRel(<, Nat))
  BY <1>3, NatLessThanWellFounded, WFMin
<1>5. PICK i \in at : d = Len(order) - i
  BY <1>4
<1>6. \A j \in at : j <= i
  <2> SUFFICES ASSUME NEW j \in at, ~(j <= i) PROVE FALSE
    OBVIOUS
  <2>1. Len(order) - j \in D /\ Len(order) - j \in Nat /\ d \in Nat /\ Len(order) - j < d
    BY <1>1, <1>2, <1>3, <1>5
  <2>2. <<Len(order) - j, d>> \in OpToRel(<, Nat)
    BY <2>1 DEF OpToRel
  <2>3. QED  BY <1>4, <2>1, <2>2
<1>7. LastActive(s, order) \in at /\ \A j \in at : j <= LastActive(s, order)
  BY <1>6 DEF LastActive
<1>8. QED  BY <1>2, <1>7

LEMMA OldestIsOne ==
  ASSUME NEW order \in Seq(Msg), NEW a, NEW h,
         a # {}, OneCopy(a), Recorded(a, order), AtHome(a, h)
  PROVE  \E s \in a : Oldest(a, order) = {s}
<1> DEFINE Times == { LastActive(s, order) : s \in a }
<1>1. \A s \in a : LastActive(s, order) \in Nat /\ order[LastActive(s, order)] \in s.msgs
  BY LastActiveIs DEF Recorded
<1>2. PICK k \in Times : \A j \in Times : ~(<<j, k>> \in OpToRel(<, Nat))
  <2>1. Times # {} /\ Times \subseteq Nat
    BY <1>1
  <2> HIDE DEF Times
  <2>2. QED  BY <2>1, NatLessThanWellFounded, WFMin
<1>3. PICK s \in a : k = LastActive(s, order)
  BY <1>2
<1>4. \A t \in a : LastActive(s, order) <= LastActive(t, order)
  <2> SUFFICES ASSUME NEW t \in a, ~(k <= LastActive(t, order)) PROVE FALSE
    BY <1>3
  <2>1. LastActive(t, order) < k /\ LastActive(t, order) \in Nat /\ k \in Nat
    BY <1>1, <1>3
  <2>2. <<LastActive(t, order), k>> \in OpToRel(<, Nat)
    BY <2>1 DEF OpToRel
  <2>3. QED  BY <1>2, <2>2
<1>5. ASSUME NEW t \in Oldest(a, order) PROVE t = s
  <2>1. t \in a /\ LastActive(t, order) <= LastActive(s, order)
    BY DEF Oldest
  <2>2. LastActive(t, order) = LastActive(s, order)
    BY <1>1, <1>4, <2>1
  <2>3. t.id = s.id
    BY <1>1, <2>1, <2>2 DEF AtHome
  <2>4. QED  BY <2>1, <2>3 DEF OneCopy
<1>6. s \in Oldest(a, order)
  BY <1>4 DEF Oldest
<1>7. QED  BY <1>5, <1>6

\* Of a layer with one session too many, none are too many after a round.
LEMMA OneRound ==
  ASSUME NEW order \in Seq(Msg), NEW a, NEW h, NEW cap \in Nat,
         OneCopy(a), Recorded(a, order), AtHome(a, h),
         IsFiniteSet(a), Cardinality(a) <= cap + 1
  PROVE  LET down == Excess(a, cap, order)
         IN  /\ down \subseteq a /\ IsFiniteSet(a \ down) /\ Cardinality(a \ down) <= cap
             /\ down = {} \/ \E s \in a : down = {s}
<1> DEFINE down == Excess(a, cap, order)
<1>1. Cardinality(a) \in Nat
  BY FS_CardinalityType
<1>2. CASE Cardinality(a) <= cap
  <2>1. down = {}
    BY <1>1, <1>2 DEF Excess
  <2>2. QED  BY <1>2, <2>1
<1>3. CASE Cardinality(a) > cap
  <2>1. a # {}
    BY <1>3, FS_EmptySet
  <2>2. PICK s \in a : down = {s}
    BY <1>3, <2>1, OldestIsOne DEF Excess
  <2>3. IsFiniteSet(a \ {s}) /\ Cardinality(a \ {s}) = Cardinality(a) - 1
    BY FS_RemoveElement
  <2>4. QED  BY <1>1, <2>2, <2>3
<1>4. QED  BY <1>1, <1>2, <1>3

\* The layers fit, and every copy there is can be dated.
CapInv ==
    /\ OneCopy(l0) /\ OneCopy(l1) /\ IsFiniteSet(l0) /\ IsFiniteSet(l1)
    /\ WithinCapacity /\ Recorded(Copies, seen)

LEMMA PutsRecorded ==
  ASSUME TypeOK, Recorded(Copies, seen), NEW o \in Observer, msg[o] \in Msg,
         NEW sid, NEW a, NEW b, NEW ix, Lays(o, sid, a, b, ix)
  PROVE  seen' \in Seq(Msg) /\ Recorded(Copies, seen') /\ Recorded(a \cup b, seen')
<1> DEFINE m == msg[o]
<1>1. seen' = Append(seen, m) /\ b \subseteq Copies
  BY DEF Lays, Cluster, Copies
<1>2. seen' \in Seq(Msg) /\ \A i \in DOMAIN seen : i \in DOMAIN seen' /\ seen'[i] = seen[i]
  BY <1>1, AppendProperties, LenProperties DEF TypeOK
<1>3. \E i \in DOMAIN seen' : seen'[i] = m
  BY <1>1, AppendProperties, LenProperties DEF TypeOK
<1>4. Recorded(Copies, seen')
  BY <1>2 DEF Recorded
<1>5. \A s \in a \cup b : \/ s \in Copies
                         \/ s.msgs = {m}
                         \/ \E t \in Copies : s.msgs = t.msgs \cup {m}
  BY <1>1 DEF Lays
<1>6. Recorded(a \cup b, seen')
  BY <1>3, <1>4, <1>5 DEF Recorded
<1>7. QED  BY <1>2, <1>4, <1>6

LEMMA EnterFits ==
  ASSUME TypeOK, HomeInv, CapInv, NEW o \in Observer, Enter(o)
  PROVE  CapInv'
<1> DEFINE m == msg[o]
<1>1. PICK sid, a, b, ix : Lays(o, sid, a, b, ix)
  BY EnterLays
<1> DEFINE h    == [home EXCEPT ![m] = sid]
           down == Excess(a, L0Capacity, seen')
           c    == { t \in b : \A s \in down : t.id # s.id } \cup down
           out  == Excess(c, L1Capacity, seen')
<1>2. m \in Msg /\ seen' = Append(seen, m) /\ l2' = l2
      /\ AtHome(a \cup b, h) /\ a \subseteq Session /\ b \subseteq l1
  BY <1>1 DEF Lays, Cluster, archive, TypeOK, Enter, Restore, JoinInMemory, StartSession, At
<1>3. l0' = a \ down /\ l1' = c \ out /\ held'[o] \in {{}, out}
      /\ \A p \in Observer \ {o} : held'[p] = held[p]
  BY <1>1 DEF Lays, EvictCollect, Goto, Keep, TypeOK
<1>4. OneCopy(a) /\ \E t : a \subseteq l0 \cup {t}
  BY <1>1 DEF Lays, CapInv
<1>5. seen' \in Seq(Msg) /\ Recorded(Copies, seen') /\ Recorded(a \cup b, seen')
  BY <1>1, <1>2, PutsRecorded DEF CapInv
<1>7. Recorded(Copies, seen')
  BY <1>5
<1>8. Recorded(a, seen')
  BY <1>5 DEF Recorded
<1>9. Recorded(b, seen')
  BY <1>5 DEF Recorded
<1>10. IsFiniteSet(a) /\ Cardinality(a) <= L0Capacity + 1
  <2>1. PICK t : a \subseteq l0 \cup {t}
    BY <1>4
  <2>2. IsFiniteSet(l0 \cup {t}) /\ Cardinality(l0 \cup {t}) <= Cardinality(l0) + 1
        /\ Cardinality(l0) \in Nat
    <3>1. IsFiniteSet(l0)
      BY DEF CapInv
    <3>2. Cardinality(l0) \in Nat
      BY <3>1, FS_CardinalityType
    <3>3. /\ IsFiniteSet(l0 \cup {t})
          /\ Cardinality(l0 \cup {t}) = IF t \in l0 THEN Cardinality(l0) ELSE Cardinality(l0) + 1
      BY <3>1, FS_AddElement
    <3>4. QED  BY <3>2, <3>3
  <2>3. IsFiniteSet(a) /\ Cardinality(a) <= Cardinality(l0 \cup {t})
    BY <2>1, <2>2, FS_Subset
  <2>4. Cardinality(a) \in Nat /\ Cardinality(l0 \cup {t}) \in Nat
    BY <2>2, <2>3, FS_CardinalityType
  <2>5. QED  BY <2>2, <2>3, <2>4, ConstantsOK DEF ConstantsOK, CapInv, WithinCapacity
<1>11. /\ down \subseteq a /\ IsFiniteSet(a \ down) /\ Cardinality(a \ down) <= L0Capacity
       /\ down = {} \/ \E s \in a : down = {s}
  <2>1. AtHome(a, h) /\ L0Capacity \in Nat
    BY <1>2, ConstantsOK DEF AtHome, ConstantsOK
  <2>2. OneCopy(a) /\ seen' \in Seq(Msg)
    BY <1>4, <1>5
  <2> HIDE DEF h, m
  <2>3. QED  BY <1>8, <1>10, <2>1, <2>2, OneRound
<1> HIDE DEF down
<1>12. c \subseteq a \cup b /\ OneCopy(c) /\ Recorded(c, seen') /\ AtHome(c, h)
  <2>1. c \subseteq a \cup b
    BY <1>11
  <2>2. OneCopy(b)
    BY <1>2 DEF CapInv, OneCopy
  <2>3. OneCopy(c)
    BY <1>4, <1>11, <2>2 DEF OneCopy
  <2>4. Recorded(c, seen') /\ AtHome(c, h)
    BY <1>2, <1>8, <1>9, <2>1 DEF Recorded, AtHome
  <2>5. QED  BY <2>1, <2>3, <2>4
<1>13. IsFiniteSet(c) /\ Cardinality(c) <= L1Capacity + 1
  <2>1. PICK t : down \subseteq {t}
    BY <1>11
  <2>2. IsFiniteSet(l1 \cup {t}) /\ Cardinality(l1 \cup {t}) <= Cardinality(l1) + 1
        /\ Cardinality(l1) \in Nat
    <3>1. IsFiniteSet(l1)
      BY DEF CapInv
    <3>2. Cardinality(l1) \in Nat
      BY <3>1, FS_CardinalityType
    <3>3. /\ IsFiniteSet(l1 \cup {t})
          /\ Cardinality(l1 \cup {t}) = IF t \in l1 THEN Cardinality(l1) ELSE Cardinality(l1) + 1
      BY <3>1, FS_AddElement
    <3>4. QED  BY <3>2, <3>3
  <2>3. c \in SUBSET (l1 \cup {t})
    BY <1>2, <2>1
  <2> HIDE DEF c
  <2>4. IsFiniteSet(c) /\ Cardinality(c) <= Cardinality(l1 \cup {t})
    BY <2>2, <2>3, FS_Subset
  <2>5. Cardinality(c) \in Nat /\ Cardinality(l1 \cup {t}) \in Nat
    BY <2>2, <2>4, FS_CardinalityType
  <2>6. QED  BY <2>2, <2>4, <2>5, ConstantsOK DEF ConstantsOK, CapInv, WithinCapacity
<1> HIDE DEF c
<1>14. out \subseteq c /\ IsFiniteSet(c \ out) /\ Cardinality(c \ out) <= L1Capacity
  <2>1. L1Capacity \in Nat
    BY ConstantsOK DEF ConstantsOK
  <2> HIDE DEF h, m
  <2>2. QED  BY <1>5, <1>12, <1>13, <2>1, OneRound
<1> HIDE DEF out
<1>15. OneCopy(l0') /\ OneCopy(l1')
  BY <1>3, <1>4, <1>12 DEF OneCopy
<1>16. Recorded(Copies', seen')
  <2>1. l0' \cup l1' \cup held'[o] \subseteq a \cup b
    BY <1>3, <1>12, <1>14
  <2>2. \A s \in Copies' : s \in Copies \/ s \in a \cup b
    BY <1>2, <1>3, <2>1 DEF Copies
  <2>3. QED  BY <1>7, <1>8, <1>9, <2>2 DEF Recorded
<1>17. QED  BY <1>3, <1>11, <1>14, <1>15, <1>16 DEF CapInv, WithinCapacity

LEMMA CapInvariant == Spec => []CapInv
<1>1. Init => CapInv
  <2>1. IsFiniteSet({}) /\ Cardinality({}) = 0
    BY FS_EmptySet
  <2>2. QED
    BY <2>1, ConstantsOK
       DEF ConstantsOK, Init, CapInv, WithinCapacity, OneCopy, Recorded, Copies
<1>2. TypeOK /\ HomeInv /\ CapInv /\ [Next]_vars => CapInv'
  <2> SUFFICES ASSUME TypeOK, HomeInv, CapInv, [Next]_vars PROVE CapInv'
    OBVIOUS
  <2>1. ASSUME NEW o \in Observer, Enter(o) PROVE CapInv'
    BY <2>1, EnterFits
  <2>2. CASE Crash
    <3>1. seen' = seen /\ Copies' \subseteq Copies /\ l0' = {} /\ l1' = {}
      BY <2>2 DEF Crash, archive, history, Copies
    <3>2. IsFiniteSet({}) /\ Cardinality({}) = 0
      BY FS_EmptySet
    <3>3. QED
      BY <3>1, <3>2, ConstantsOK DEF ConstantsOK, CapInv, WithinCapacity, OneCopy, Recorded
  <2>3. CASE \/ UNCHANGED vars
             \/ \E o \in Observer :
                  \/ \E m \in Msg : Observe(o, m)
                  \/ Check(o) \/ Find(o) \/ Load(o) \/ Search(o) \/ Delete(o)
                  \/ DeleteIndex(o) \/ Persist(o) \/ Cancel(o)
    <3>1. seen' = seen /\ l0' = l0 /\ l1' = l1 /\ Copies' \subseteq Copies
      <4>1. CASE UNCHANGED vars
        BY <4>1 DEF vars, memory, archive, calls, history, Copies
      <4>2. ASSUME NEW o \in Observer, NEW m \in Msg, Observe(o, m)
            PROVE  seen' = seen /\ l0' = l0 /\ l1' = l1 /\ Copies' \subseteq Copies
        BY <4>2 DEF Observe, memory, archive, history, Copies
      <4>3. QED  BY <2>3, <4>1, <4>2, StepQuiet DEF history
    <3>2. QED  BY <3>1 DEF CapInv, WithinCapacity, Recorded
  <2>4. QED  BY <2>1, <2>2, <2>3 DEF Next, Step
<1>3. QED  BY <1>1, <1>2, TypeCorrect, HomeInvariant, PTL DEF Spec

(* For any capacities, also 0, and any ids, also those that two chats       *)
(* share, the layers hold no more than they may                            *)
(* between calls: the code's loops (lib.rs:643-675) would not run a second *)
(* time.                                                                   *)
THEOREM CapacityHolds == Spec => []WithinCapacity
<1>1. CapInv => WithinCapacity
  BY DEF CapInv
<1>2. QED  BY <1>1, CapInvariant, PTL
-------------------------------------------------------------------------------
(* One call at a time and nothing fails: the layers implement              *)
(* SessionClusters.  The invariant: a session is kept in one place and     *)
(* hand, memory's index names exactly the sessions of memory, and the L2   *)
(* index lists those of L2, give or take the one in hand.                  *)
Quiet == UniqueIds /\ OneAtATime /\ ~Faults /\ L2Opens = {TRUE}

AloneCall == \A o, p \in Observer : pc[o] # "idle" /\ pc[p] # "idle" => o = p

\* The index rows of the sessions of S.
Rows(S) == UNION { { <<Id[m], s.id>> : m \in s.msgs } : s \in S }

\* The sessions that have their index rows while o runs.
Archived(o) ==
    IF pc[o] = "delete_index" THEN l2 \cup held[o]
    ELSE IF pc[o] \in {"persist_unindex", "persist_index"} THEN l2 \ held[o]
    ELSE l2

\* Whether the session in hand is in L2 as well.
HandOK(o) ==
    /\ pc[o] \in {"delete", "persist_unindex", "persist_index"} => held[o] \subseteq l2
    /\ pc[o] \in {"delete_index", "enter", "persist_delete", "persist_add"}
         => held[o] \cap (l0 \cup l1 \cup l2) = {}
    /\ pc[o] \notin {"idle", "check", "find", "load", "search"} =>
         \/ \E s \in Session : held[o] = {s}
         \/ pc[o] = "enter" /\ held[o] = {}

\* A reply that enters without a session in hand finds its target's session
\* in memory, if it has one; what a message without target joins is of its
\* chat.
TargetOK(o) ==
    LET r == ReplyTo[msg[o]]
    IN  /\ pc[o] = "find" => index[Id[r]] = NoMsg
        /\ pc[o] = "load" => \E s \in l2 : s.id = found[o]
        /\ pc[o] = "enter" /\ held[o] = {} /\ r # NoMsg
             => index[Id[r]] # NoMsg \/ home[r] = NoMsg
        /\ pc[o] \in {"delete", "delete_index", "enter"} /\ r = NoMsg
             => \A s \in held[o] : Chat[s.id] = Chat[msg[o]]

Apart == l0 \cap l1 = {} /\ (l0 \cup l1) \cap l2 = {}

Kept ==
    /\ OneCopy(Copies)
    /\ \A s \in Copies : s.id \in s.msgs
    /\ \A m \in Msg : home[m] # NoMsg => \E s \in Copies : m \in s.msgs

InIndex ==
    /\ \A s \in l0 \cup l1 : \A m \in s.msgs : index[Id[m]] = s.id
    /\ \A m \in Msg : index[Id[m]] # NoMsg => \E s \in l0 \cup l1 : m \in s.msgs

SeqInv ==
    /\ hasL2 /\ AloneCall /\ Kept /\ Apart /\ InIndex
    /\ (\A o \in Observer : pc[o] = "idle") => l2index = Rows(l2)
    /\ \A o \in Observer :
         pc[o] # "idle" => l2index = Rows(Archived(o)) /\ HandOK(o) /\ TargetOK(o)

QuietInv == TypeOK /\ ChainInv /\ CapInv /\ SeqInv

\* A step of the call that runs which moves sessions between L2 and the hand.
LEMMA HandStep ==
  ASSUME Quiet, QuietInv, NEW o \in Observer, NEW l \in Busy \cup {"idle"},
         pc[o] # "idle", pc' = [pc EXCEPT ![o] = l],
         UNCHANGED <<memory, history>>,
         Copies' = Copies, (l0 \cup l1) \cap l2' = {},
         l = "idle" => l2index' = Rows(l2'),
         l # "idle" => l2index' = Rows(Archived(o)') /\ HandOK(o)' /\ TargetOK(o)'
  PROVE  SeqInv' /\ UNCHANGED Copies
<1>1. \A p \in Observer \ {o} : pc'[p] = "idle"
  BY DEF QuietInv, TypeOK, SeqInv, AloneCall
<1>2. pc'[o] = l
  BY DEF QuietInv, TypeOK
<1>3. hasL2' /\ AloneCall' /\ Kept' /\ Apart' /\ InIndex'
  BY <1>1 DEF QuietInv, SeqInv, AloneCall, Kept, Apart, InIndex, OneCopy, memory, history
<1>4. (\A p \in Observer : pc'[p] = "idle") => l2index' = Rows(l2')
  BY <1>2
<1>5. ASSUME NEW p \in Observer, pc'[p] # "idle"
      PROVE  l2index' = Rows(Archived(p)') /\ HandOK(p)' /\ TargetOK(p)'
  <2>1. p = o
    BY <1>1, <1>5
  <2>2. QED  BY <1>2, <1>5, <2>1
<1>6. QED  BY <1>3, <1>4, <1>5 DEF SeqInv

\* While o runs, the copies are those of the layers and in its hand.
LEMMA CopiesOfCall ==
  ASSUME QuietInv, NEW o \in Observer, pc[o] # "idle"
  PROVE  Copies = l0 \cup l1 \cup l2 \cup held[o]
<1>1. \A p \in Observer \ {o} : held[p] = {}
  BY DEF QuietInv, TypeOK, SeqInv, AloneCall, ChainInv, ReadsAgree
<1>2. QED  BY <1>1 DEF Copies

LEMMA CopiesAfterCall ==
  ASSUME QuietInv, NEW o \in Observer, pc[o] # "idle", TypeOK',
         \A p \in Observer \ {o} : held'[p] = held[p]
  PROVE  Copies' = l0' \cup l1' \cup l2' \cup held'[o]
<1>1. \A p \in Observer \ {o} : held'[p] = {}
  BY DEF QuietInv, TypeOK, SeqInv, AloneCall, ChainInv, ReadsAgree
<1>2. QED  BY <1>1 DEF Copies

LEMMA RowIs ==
  ASSUME Quiet, NEW S, S \subseteq Session, NEW m \in Msg, NEW t
  PROVE  <<Id[m], t>> \in Rows(S) <=> \E s \in S : s.id = t /\ m \in s.msgs
<1>1. ASSUME <<Id[m], t>> \in Rows(S) PROVE \E s \in S : s.id = t /\ m \in s.msgs
  <2>1. PICK s \in S : \E n \in s.msgs : <<Id[m], t>> = <<Id[n], s.id>>
    BY <1>1 DEF Rows
  <2>2. PICK n \in s.msgs : <<Id[m], t>> = <<Id[n], s.id>>
    BY <2>1
  <2>3. n \in Msg /\ Id[n] = Id[m] /\ s.id = t
    BY <2>2 DEF Session
  <2>4. QED  BY <2>3 DEF Quiet, UniqueIds
<1>2. ASSUME NEW s \in S, s.id = t, m \in s.msgs PROVE <<Id[m], t>> \in Rows(S)
  BY <1>2 DEF Rows
<1>3. QED  BY <1>1, <1>2

\* Looking for a session in L2: nothing moves, but one may be read.
LEMMA LookSeq ==
  ASSUME Quiet, QuietInv, TypeOK', NEW o \in Observer,
         Check(o) \/ Find(o) \/ Load(o) \/ Search(o)
  PROVE  SeqInv' /\ UNCHANGED Copies
<1> DEFINE r == ReplyTo[msg[o]]
<1>1. /\ pc[o] \in {"check", "find", "load", "search"} /\ held[o] = {}
      /\ UNCHANGED <<memory, archive, history>>
      /\ Copies = l0 \cup l1 \cup l2
  <2>1. pc[o] \in {"check", "find", "load", "search"} /\ UNCHANGED <<memory, archive, history>>
    BY DEF Check, Find, Load, Search, At
  <2>2. held[o] = {}
    BY <2>1 DEF QuietInv, ChainInv, ReadsAgree
  <2>3. QED  BY <2>1, <2>2, CopiesOfCall
<1>2. l2index = Rows(l2) /\ hasL2 /\ l2 \subseteq Session /\ TargetOK(o)
  BY <1>1 DEF QuietInv, SeqInv, Archived, TypeOK
<1>3. pc[o] = "search" => r = NoMsg
  BY DEF QuietInv, ChainInv, ReadsAgree
<1>4. pc[o] # "search" => r \in Msg /\ NoMsg \notin Msg
  BY <1>1, ConstantsOK DEF ConstantsOK, QuietInv, TypeOK
<1>5. r \in Msg => index[Id[r]] \in {NoMsg, home[r]} /\ index[Id[r]] \in Msg \cup {NoMsg}
  BY DEF QuietInv, ChainInv, CopiesAgree, TypeOK, MsgId
<1>6. r \in Msg /\ home[r] # NoMsg => \E s \in Copies : r \in s.msgs /\ s.id = home[r]
  BY DEF QuietInv, SeqInv, Kept, ChainInv, CopiesAgree
\* What the call does in this step, in terms of where it goes.
<1>7. PICK l \in {"find", "load", "delete", "enter"} :
        /\ pc' = [pc EXCEPT ![o] = l]
        /\ msg' = msg
        /\ \A p \in Observer \ {o} : held'[p] = held[p]
        /\ l = "find" => index[Id[r]] = NoMsg /\ held' = held
        /\ l = "load" => held' = held /\ \E s \in l2 : s.id = found'[o]
        /\ l = "delete" => \E s \in l2 : /\ held'[o] = {s}
                                         /\ r = NoMsg => Chat[s.id] = Chat[msg[o]]
        /\ l = "enter" => /\ held' = held
                          /\ r # NoMsg => index[Id[r]] # NoMsg \/ home[r] = NoMsg
  <2>1. CASE Check(o)
    BY <1>2, <2>1 DEF Check, Goto
  <2>2. CASE Find(o)
    <3>1. index[Id[r]] = NoMsg /\ r \in Msg /\ NoMsg \notin Msg
      BY <1>2, <1>4, <2>2 DEF Find, At, TargetOK
    <3>2. ASSUME NEW row \in l2index, row[1] = Id[r]
          PROVE  \E s \in l2 : s.id = row[2]
      <4>1. row = <<Id[r], row[2]>>
        BY <3>2 DEF QuietInv, TypeOK
      <4>2. QED  BY <1>2, <3>1, <3>2, <4>1, RowIs
    <3>3. CASE home[r] = NoMsg \/ \E row \in l2index : row[1] = Id[r]
      <4>1. CASE \E row \in l2index :
                   /\ row[1] = Id[r]
                   /\ pc' = [pc EXCEPT ![o] = "load"]
                   /\ found' = [found EXCEPT ![o] = row[2]]
                   /\ UNCHANGED msg
        BY <2>2, <3>2, <4>1 DEF Find, QuietInv, TypeOK
      <4>2. CASE (\A row \in l2index : row[1] # Id[r]) /\ Goto(o, "enter")
        BY <2>2, <3>3, <4>2 DEF Find, Goto
      <4>3. QED  BY <2>2, <4>1, <4>2 DEF Find, Quiet
    <3>4. CASE home[r] # NoMsg /\ \A row \in l2index : row[1] # Id[r]
      <4>1. PICK s \in Copies : r \in s.msgs /\ s.id = home[r]
        BY <1>6, <3>1, <3>4
      <4>2. s \notin l0 \cup l1
        BY <3>1, <3>4, <4>1 DEF QuietInv, SeqInv, InIndex
      <4>3. <<Id[r], s.id>> \in Rows(l2)
        BY <1>1, <1>2, <3>1, <4>1, <4>2, RowIs
      <4>4. QED  BY <1>2, <3>4, <4>3
    <3>5. QED  BY <3>3, <3>4
  <2>3. CASE Load(o)
    <3>1. PICK s \in l2 : s.id = found[o] /\ Keep(o, {s}) /\ Goto(o, "delete")
      BY <1>2, <2>3 DEF Load, At, TargetOK, Quiet
    <3>2. r # NoMsg
      BY <1>4, <2>3 DEF Load, At
    <3>3. QED  BY <3>1, <3>2 DEF Keep, Goto, QuietInv, TypeOK
  <2>4. CASE Search(o)
    BY <1>3, <2>4 DEF Search, Keep, Goto, At, QuietInv, TypeOK
  <2>5. QED  BY <2>1, <2>2, <2>3, <2>4
<1>8. pc'[o] = l /\ l # "idle"
  BY <1>7 DEF QuietInv, TypeOK
<1>9. Copies' = Copies
  <2>1. held'[o] \subseteq l2
    BY <1>1, <1>7
  <2>2. QED  BY <1>1, <1>7, <2>1, CopiesAfterCall DEF memory, archive
<1>10. l2index' = Rows(Archived(o)')
  BY <1>1, <1>2, <1>7, <1>8 DEF Archived, archive
<1>11. HandOK(o)'
  BY <1>1, <1>2, <1>7, <1>8 DEF HandOK, archive
<1>12. TargetOK(o)'
  BY <1>1, <1>2, <1>7, <1>8 DEF TargetOK, archive, memory, history
<1>13. (l0 \cup l1) \cap l2' = {}
  BY <1>1 DEF QuietInv, SeqInv, Apart, archive
<1> HIDE DEF r
<1>14. QED  BY <1>1, <1>7, <1>8, <1>9, <1>10, <1>11, <1>12, <1>13, HandStep DEF Busy

\* Moving the session in hand out of L2, or into it.
LEMMA MoveSeq ==
  ASSUME Quiet, QuietInv, TypeOK', NEW o \in Observer,
         Delete(o) \/ DeleteIndex(o) \/ Persist(o)
  PROVE  SeqInv' /\ UNCHANGED Copies
<1> DEFINE mem == l0 \cup l1
<1>1. pc[o] \in {"delete", "delete_index", "persist_delete", "persist_add", "persist_unindex",
                 "persist_index"}
  BY DEF Delete, DeleteIndex, Persist, PersistDelete, PersistAdd, PersistUnindex, PersistIndex, At
<1>2. PICK s \in Session : held[o] = {s}
  BY <1>1 DEF QuietInv, SeqInv, HandOK
<1>3. /\ Copies = mem \cup l2 \cup {s} /\ OneCopy(Copies) /\ mem \cap l2 = {}
      /\ l2 \subseteq Session /\ l2index = Rows(Archived(o)) /\ HandOK(o) /\ TargetOK(o)
  BY <1>1, <1>2, CopiesOfCall DEF QuietInv, TypeOK, SeqInv, Kept, Apart
<1>4. s \notin mem
  BY <1>1, <1>2, <1>3 DEF HandOK
<1>5. { r \in l2 : r.id # s.id } = l2 \ {s}
  BY <1>3 DEF OneCopy
\* Of disjoint sets of sessions, no row belongs to both.
<1>6. { row \in Rows(l2 \cup {s}) : row[2] # s.id } = Rows(l2 \ {s})
  BY <1>3 DEF Rows, OneCopy
<1>7. { row \in Rows(l2 \ {s}) : \A m \in s.msgs : row[1] # Id[m] } = Rows(l2 \ {s})
  <2>1. ASSUME NEW row \in Rows(l2 \ {s}), NEW m \in s.msgs, row[1] = Id[m] PROVE FALSE
    <3>1. PICK t \in l2 \ {s} : \E n \in t.msgs : row = <<Id[n], t.id>>
      BY DEF Rows
    <3>2. PICK n \in t.msgs : row = <<Id[n], t.id>>
      BY <3>1
    <3>3. n = m
      BY <1>2, <1>3, <2>1, <3>1, <3>2 DEF Quiet, UniqueIds, Session
    <3>4. home[m] = s.id /\ home[n] = t.id
      BY <1>3, <2>1, <3>1, <3>2 DEF QuietInv, ChainInv, CopiesAgree
    <3>5. QED  BY <1>3, <3>1, <3>3, <3>4 DEF OneCopy
  <2>2. QED  BY <2>1
<1>8. Rows(l2 \ {s}) \cup { <<Id[m], s.id>> : m \in s.msgs } = Rows((l2 \ {s}) \cup {s})
  BY DEF Rows
<1>9. PICK l \in {"delete_index", "enter", "persist_add", "persist_unindex", "persist_index",
                  "idle"} :
        /\ pc' = [pc EXCEPT ![o] = l]
        /\ UNCHANGED <<memory, history>>
        /\ \A p \in Observer \ {o} : held'[p] = held[p]
        /\ l = "delete_index" => /\ pc[o] = "delete" /\ msg' = msg /\ held' = held
                                 /\ l2' = l2 \ {s} /\ l2index' = l2index
        /\ l = "enter" => /\ pc[o] = "delete_index" /\ msg' = msg /\ held' = held
                          /\ l2' = l2
                          /\ l2index' = { row \in l2index : row[2] # s.id }
        /\ l = "persist_add" => /\ pc[o] = "persist_delete" /\ held' = held
                                /\ l2' = l2 \ {s} /\ l2index' = l2index
        /\ l = "persist_unindex" => /\ pc[o] = "persist_add" /\ held' = held
                                    /\ l2' = l2 \cup {s} /\ l2index' = l2index
        /\ l = "persist_index" =>
             /\ pc[o] = "persist_unindex" /\ held' = held /\ l2' = l2
             /\ l2index' = { row \in l2index : \A m \in s.msgs : row[1] # Id[m] }
        /\ l = "idle" => /\ pc[o] = "persist_index" /\ held'[o] = {} /\ l2' = l2
                         /\ l2index' = l2index \cup { <<Id[m], s.id>> : m \in s.msgs }
  <2>1. CASE Delete(o)
    BY <1>2, <1>5, <2>1 DEF Delete, Goto, Quiet, At, memory, history
  <2>2. CASE DeleteIndex(o)
    BY <1>2, <2>2 DEF DeleteIndex, Goto, Quiet, At, memory, history
  <2>3. CASE PersistDelete(o)
    BY <1>2, <1>5, <2>3 DEF PersistDelete, Goto, Quiet, At, memory, history
  <2>4. CASE PersistAdd(o)
    BY <1>2, <2>4 DEF PersistAdd, Goto, At, memory, history
  <2>5. CASE PersistUnindex(o)
    BY <1>2, <2>5 DEF PersistUnindex, Goto, Quiet, At, memory, history
  <2>6. CASE PersistIndex(o)
    BY <1>2, <2>6 DEF PersistIndex, Goto, Keep, At, memory, history, QuietInv, TypeOK
  <2>7. QED  BY <2>1, <2>2, <2>3, <2>4, <2>5, <2>6 DEF Persist
<1>10. pc'[o] = l
  BY <1>9 DEF QuietInv, TypeOK
<1>11. /\ l \in {"delete_index", "persist_add"} => l2' = l2 \ {s}
       /\ l = "persist_unindex" => l2' = l2 \cup {s}
       /\ l \in {"enter", "persist_index", "idle"} => l2' = l2
       /\ l # "idle" => held'[o] = {s}
       /\ l \in {"enter", "persist_add", "persist_unindex"} => s \notin l2
       /\ l \in {"persist_index", "idle"} => s \in l2
  BY <1>2, <1>3, <1>9 DEF HandOK
<1>12. Copies' = Copies /\ (l0 \cup l1) \cap l2' = {}
  <2>1. l0' = l0 /\ l1' = l1 /\ Copies' = mem \cup l2' \cup held'[o]
    BY <1>1, <1>9, CopiesAfterCall DEF memory
  <2>2. l2' \cup held'[o] = l2 \cup {s}
    BY <1>2, <1>9, <1>11
  <2>3. QED  BY <1>3, <1>4, <2>1, <2>2
<1>13. /\ l = "idle" => l2index' = Rows(l2')
       /\ l # "idle" => l2index' = Rows(Archived(o)')
  <2>1. Archived(o) = IF l = "enter" THEN l2 \cup {s}
                      ELSE IF l \in {"persist_index", "idle"} THEN l2 \ {s} ELSE l2
    BY <1>2, <1>9 DEF Archived
  <2>2. l # "idle" => Archived(o)' = IF l = "delete_index" THEN l2' \cup {s}
                       ELSE IF l \in {"persist_unindex", "persist_index"} THEN l2' \ {s} ELSE l2'
    BY <1>10, <1>11 DEF Archived
  <2>3. CASE l = "delete_index"
    <3>1. l2' \cup {s} = l2
      BY <1>2, <1>3, <1>9, <1>11, <2>3 DEF HandOK
    <3>2. QED  BY <1>3, <1>9, <2>1, <2>2, <2>3, <3>1
  <2>4. CASE l = "enter"
    <3>1. l2 \ {s} = l2 /\ l2' = l2
      BY <1>11, <2>4
    <3>2. QED  BY <1>3, <1>6, <1>9, <2>1, <2>2, <2>4, <3>1
  <2>5. CASE l \in {"persist_add", "persist_unindex"}
    <3>1. IF l = "persist_add" THEN l2' = l2 ELSE l2' \ {s} = l2
      BY <1>11, <2>5
    <3>2. QED  BY <1>3, <1>9, <2>1, <2>2, <2>5, <3>1
  <2>6. CASE l = "persist_index"
    BY <1>3, <1>7, <1>9, <1>11, <2>1, <2>2, <2>6
  <2>7. CASE l = "idle"
    <3>1. (l2 \ {s}) \cup {s} = l2 /\ l2' = l2
      BY <1>11, <2>7
    <3>2. QED  BY <1>3, <1>8, <1>9, <2>1, <2>7, <3>1
  <2>8. QED  BY <1>9, <2>3, <2>4, <2>5, <2>6, <2>7
<1>14. l # "idle" => HandOK(o)'
  <2>1. l0' \cup l1' = mem
    BY <1>9 DEF memory
  <2>2. QED  BY <1>4, <1>9, <1>10, <1>11, <2>1 DEF HandOK
<1>15. l # "idle" => TargetOK(o)'
  BY <1>2, <1>3, <1>9, <1>10, <1>11 DEF TargetOK
<1>16. QED
  BY <1>1, <1>9, <1>10, <1>12, <1>13, <1>14, <1>15, HandStep DEF Busy

LEMMA ObserveSeq ==
  ASSUME Quiet, QuietInv, TypeOK', NEW o \in Observer, NEW n \in Msg, Observe(o, n)
  PROVE  SeqInv' /\ UNCHANGED Copies
<1>1. \A p \in Observer : pc[p] = "idle"
  BY DEF Observe, Quiet
<1>2. /\ UNCHANGED <<memory, archive, found, held, history>>
      /\ \A p \in Observer \ {o} : pc'[p] = "idle"
      /\ pc'[o] \in {"check", "search", "enter"} /\ msg'[o] = n
      /\ pc'[o] = "enter" => ReplyTo[n] = NoMsg /\ ~hasL2
  BY <1>1 DEF Observe, QuietInv, TypeOK
<1>3. hasL2 /\ l2index = Rows(l2) /\ Kept /\ Apart /\ InIndex
  BY <1>1 DEF QuietInv, SeqInv
<1>4. Copies' = Copies
  BY <1>2 DEF Copies, memory, archive
<1>5. hasL2' /\ AloneCall' /\ Kept' /\ Apart' /\ InIndex'
  BY <1>2, <1>3, <1>4 DEF AloneCall, Kept, Apart, InIndex, OneCopy, memory, archive, history
<1>6. (\A p \in Observer : pc'[p] = "idle") => l2index' = Rows(l2')
  BY <1>2, <1>3 DEF archive
<1>7. ASSUME NEW p \in Observer, pc'[p] # "idle"
      PROVE  l2index' = Rows(Archived(p)') /\ HandOK(p)' /\ TargetOK(p)'
  BY <1>2, <1>3, <1>7 DEF Archived, HandOK, TargetOK, archive
<1>8. QED  BY <1>4, <1>5, <1>6, <1>7 DEF SeqInv

(* evict_collect loses nothing when L2 is there: what leaves the layers is *)
(* in hand, on its way to L2, and the index forgets just that.             *)
LEMMA EvictSeq ==
  ASSUME Quiet, QuietInv, TypeOK', ChainInv', NEW o \in Observer, pc[o] = "enter",
         NEW a, NEW b, NEW ix, NEW sid, Puts(o, sid, a, b, ix),
         OneCopy(a \cup b \cup l2), a \cap b = {}, (a \cup b) \cap l2 = {},
         a \cup b \subseteq Session, \A s \in a \cup b : s.id \in s.msgs,
         \A n \in Msg : home'[n] # NoMsg => \E s \in a \cup b \cup l2 : n \in s.msgs,
         \A s \in a \cup b : \A n \in s.msgs : ix[Id[n]] = s.id,
         \A n \in Msg : ix[Id[n]] # NoMsg => \E s \in a \cup b : n \in s.msgs
  PROVE  SeqInv' /\ Copies' = a \cup b \cup l2
<1> DEFINE down == Excess(a, L0Capacity, seen')
           c    == { t \in b : \A s \in down : t.id # s.id } \cup down
           out  == Excess(c, L1Capacity, seen')
<1>1. /\ l0' = a \ down /\ l1' = c \ out /\ index' = Purge(ix, out) /\ hasL2' = hasL2
      /\ l2' = l2 /\ l2index' = l2index
      /\ \/ out # {} /\ Goto(o, "persist_delete") /\ Keep(o, out)
         \/ out = {} /\ Goto(o, "idle") /\ Keep(o, {})
  BY DEF Puts, Lays, EvictCollect, archive, QuietInv, SeqInv
<1>2. down \subseteq a /\ out \subseteq c
  BY DEF Excess, Oldest
<1>3. c = b \cup down
  <2> HIDE DEF down
  <2>1. QED  BY <1>2 DEF OneCopy
<1>4. out = {} \/ \E s : out = {s}
  <2>1. OneCopy(c) /\ c \subseteq a \cup b
    BY <1>2, <1>3 DEF OneCopy
  <2>2. msg[o] \in Msg
    BY DEF QuietInv, TypeOK
  <2>3. seen' \in Seq(Msg) /\ Recorded(a \cup b, seen')
    BY <2>2, PutsRecorded DEF QuietInv, CapInv, Puts
  <2>4. Recorded(c, seen') /\ AtHome(c, [home EXCEPT ![msg[o]] = sid])
    BY <2>1, <2>3 DEF Recorded, AtHome, Puts, Lays
  <2> HIDE DEF c
  <2>5. CASE c = {}
    BY <1>2, <2>5
  <2>6. CASE c # {}
    BY <2>1, <2>3, <2>4, <2>6, OldestIsOne DEF Excess
  <2>7. QED  BY <2>5, <2>6
<1> HIDE DEF down, c, out
<1>5. /\ held'[o] = out /\ l0' \cup l1' \cup out = a \cup b
      /\ \A p \in Observer \ {o} : held'[p] = held[p] /\ pc'[p] = "idle"
      /\ pc'[o] = IF out = {} THEN "idle" ELSE "persist_delete"
  <2>1. \A p \in Observer \ {o} : pc[p] = "idle"
    BY DEF QuietInv, TypeOK, SeqInv, AloneCall
  <2>2. QED  BY <1>1, <1>2, <1>3, <2>1 DEF Goto, Keep, QuietInv, TypeOK
<1>6. Copies' = a \cup b \cup l2
  BY <1>1, <1>5, CopiesAfterCall
<1>7. (l0' \cup l1') \cap out = {} /\ l0' \cap l1' = {}
  BY <1>1, <1>2, <1>3
<1>8. hasL2' /\ AloneCall'
  BY <1>1, <1>5 DEF QuietInv, SeqInv, AloneCall
<1>9. Kept' /\ Apart'
  <2>1. \A s \in l2 : s.id \in s.msgs
    BY DEF QuietInv, SeqInv, Kept, Copies
  <2>2. Kept'
    BY <1>6, <2>1 DEF Kept, OneCopy
  <2>3. l0' \cup l1' \subseteq a \cup b
    BY <1>5
  <2>4. QED  BY <1>1, <1>7, <2>2, <2>3 DEF Apart
<1>10. InIndex'
  <2>1. ASSUME NEW s \in l0' \cup l1', NEW n \in s.msgs PROVE index'[Id[n]] = s.id
    <3>1. s \in a \cup b /\ n \in Msg /\ ix[Id[n]] = s.id
      BY <1>5 DEF Session
    <3>2. \A t \in out : t.id # s.id
      BY <1>5, <1>7, <3>1 DEF OneCopy
    <3>3. QED  BY <1>1, <3>1, <3>2 DEF Purge, MsgId
  <2>2. ASSUME NEW n \in Msg, index'[Id[n]] # NoMsg PROVE \E s \in l0' \cup l1' : n \in s.msgs
    <3>1. ix[Id[n]] # NoMsg /\ \A t \in out : ix[Id[n]] # t.id
      BY <1>1, <2>2 DEF Purge, MsgId
    <3>2. PICK s \in a \cup b : n \in s.msgs /\ ix[Id[n]] = s.id
      BY <3>1
    <3>3. s \notin out
      BY <3>1, <3>2
    <3>4. QED  BY <1>5, <3>2, <3>3
  <2>3. QED  BY <2>1, <2>2 DEF InIndex
<1>11. l2index' = Rows(l2')
  BY <1>1 DEF QuietInv, SeqInv, Archived
<1>12. ASSUME NEW p \in Observer, pc'[p] # "idle"
       PROVE  l2index' = Rows(Archived(p)') /\ HandOK(p)' /\ TargetOK(p)'
  <2>1. p = o /\ pc'[o] = "persist_delete" /\ held'[o] = out /\ out # {}
    BY <1>5, <1>12
  <2>2. out \cap (l0' \cup l1' \cup l2') = {} /\ \A s \in out : s \in Session
    BY <1>1, <1>5, <1>7
  <2>3. HandOK(o)'
    BY <1>4, <2>1, <2>2 DEF HandOK
  <2>4. QED  BY <1>11, <2>1, <2>3 DEF Archived, TargetOK
<1>13. QED  BY <1>6, <1>8, <1>9, <1>10, <1>11, <1>12 DEF SeqInv

\* The message joins the one session of old, or starts one; the result is t.
Joins(o, old, t) ==
    LET m == msg[o]
        r == ReplyTo[m]
    IN  /\ m \in t.msgs /\ t \in Session
        /\ \/ /\ old = {} /\ t = [id |-> m, msgs |-> {m}]
              /\ r = NoMsg \/ home[r] = NoMsg
           \/ \E s \in Copies :
                /\ old = {s} /\ t.id = s.id /\ t.msgs = s.msgs \cup {m}
                /\ r \in s.msgs \/ (r = NoMsg /\ Chat[s.id] = Chat[m])

LEMMA EnterJoins ==
  ASSUME Quiet, QuietInv, NEW o \in Observer, pc[o] = "enter",
         NEW a, NEW b, NEW ix, NEW sid,
         Puts(o, sid, a, b, ix), Placed(o, sid, a, b, ix)
  PROVE  \E old, t :
           /\ Joins(o, old, t) /\ sid = t.id
           /\ a \subseteq l0 \cup {t} /\ b \subseteq l1
           /\ a \cup b = ((l0 \cup l1) \ old) \cup {t}
           /\ (a \cup b) \cup l2 = (Copies \ old) \cup {t}
           /\ \A n \in Msg : ix[Id[n]] = IF n \in t.msgs THEN t.id ELSE index[Id[n]]
<1> DEFINE m == msg[o]
           r == ReplyTo[m]
<1>1. m \in Msg /\ home[m] = NoMsg /\ NoMsg \notin Msg /\ r \in Msg \cup {NoMsg}
  BY ConstantsOK DEF ConstantsOK, QuietInv, TypeOK, ChainInv, InFlight, Clustering
<1>2. /\ Copies = l0 \cup l1 \cup l2 \cup held[o] /\ OneCopy(Copies)
      /\ \A s \in Copies : s \in Session /\ s.id \in s.msgs /\ \A n \in s.msgs : home[n] = s.id
      /\ HandOK(o) /\ TargetOK(o) /\ Apart /\ InIndex
  <2>1. \A s \in Copies : s \in Session
    BY DEF QuietInv, TypeOK, Copies
  <2>2. QED
    BY <2>1, CopiesOfCall DEF QuietInv, SeqInv, Kept, ChainInv, CopiesAgree
<1>3. \A s \in Copies : m \notin s.msgs /\ s.id # m /\ s.id \in Msg
  BY <1>1, <1>2 DEF Session
<1>4. \A n \in Msg : index[Id[n]] \in {NoMsg, home[n]}
  BY DEF QuietInv, ChainInv, CopiesAgree
<1>5. \A i, n \in Msg : Id[i] = Id[n] => i = n
  BY DEF Quiet, UniqueIds
<1>6. index \in [MsgId -> Msg \cup {NoMsg}] /\ \A n \in Msg : Id[n] \in MsgId
  BY DEF QuietInv, TypeOK, MsgId
<1>7. ASSUME NEW s \in held[o], sid = s.id, b = l1,
             a = Put(l0, With(s, m)), ix = Reindex(With(s, m))
      PROVE  /\ Joins(o, {s}, With(s, m)) /\ sid = With(s, m).id
             /\ a \subseteq l0 \cup {With(s, m)} /\ b \subseteq l1
             /\ a \cup b = ((l0 \cup l1) \ {s}) \cup {With(s, m)}
             /\ (a \cup b) \cup l2 = (Copies \ {s}) \cup {With(s, m)}
             /\ \A n \in Msg : ix[Id[n]] = IF n \in With(s, m).msgs THEN With(s, m).id
                                           ELSE index[Id[n]]
  <2> DEFINE t == With(s, m)
  <2>1. s \in Copies /\ held[o] = {s} /\ s \notin l0 \cup l1 \cup l2
    BY <1>2, <1>7 DEF HandOK
  <2>2. t.id = s.id /\ t.msgs = s.msgs \cup {m} /\ t \in Session
    BY <1>1, <1>2, <2>1 DEF With, Session
  <2>3. r \in s.msgs \/ (r = NoMsg /\ Chat[s.id] = Chat[m])
    <3>1. CASE r = NoMsg
      BY <1>2, <1>7, <3>1 DEF TargetOK
    <3>2. CASE r # NoMsg
      <4>1. home[r] = s.id /\ s.id # NoMsg /\ r \in Msg
        BY <1>1, <1>3, <1>7, <2>1, <3>2 DEF QuietInv, ChainInv, ReadsAgree
      <4>2. PICK u \in Copies : r \in u.msgs
        BY <4>1 DEF QuietInv, SeqInv, Kept
      <4>3. u = s
        BY <1>2, <2>1, <4>1, <4>2 DEF OneCopy
      <4>4. QED  BY <4>2, <4>3
    <3>3. QED  BY <3>1, <3>2
  <2>4. Joins(o, {s}, t)
    BY <2>1, <2>2, <2>3 DEF Joins
  <2>5. \A u \in l0 : u.id # s.id
    BY <1>2, <2>1 DEF OneCopy
  <2>6. \A n \in Msg : ix[Id[n]] = IF n \in t.msgs THEN t.id ELSE index[Id[n]]
    <3>1. t.msgs \subseteq Msg
      BY <2>2 DEF Session
    <3> HIDE DEF t
    <3>2. QED  BY <1>5, <1>6, <1>7, <3>1 DEF Reindex, t
  <2> HIDE DEF t
  <2>7. a = l0 \cup {t}
    BY <1>7, <2>2, <2>5 DEF Put, t
  <2>8. QED  BY <1>2, <1>7, <2>1, <2>2, <2>4, <2>6, <2>7 DEF t
<1>8. ASSUME held[o] = {}, Target(o) = NoMsg, sid = m, b = l1,
             a = Put(l0, [id |-> m, msgs |-> {m}]), ix = [index EXCEPT ![Id[m]] = m]
      PROVE  \E t : /\ Joins(o, {}, t) /\ sid = t.id
                    /\ a \subseteq l0 \cup {t} /\ b \subseteq l1
                    /\ a \cup b = (l0 \cup l1) \cup {t}
                    /\ (a \cup b) \cup l2 = Copies \cup {t}
                    /\ \A n \in Msg : ix[Id[n]] = IF n \in t.msgs THEN t.id ELSE index[Id[n]]
  <2> DEFINE t == [id |-> m, msgs |-> {m}]
  <2>1. t.id = m /\ t.msgs = {m} /\ t \in Session
    BY <1>1 DEF Session
  <2>2. r = NoMsg \/ home[r] = NoMsg
    BY <1>2, <1>8 DEF TargetOK, Target
  <2>3. Joins(o, {}, t)
    BY <2>1, <2>2 DEF Joins
  <2>4. \A n \in Msg : ix[Id[n]] = IF n \in t.msgs THEN t.id ELSE index[Id[n]]
    BY <1>1, <1>5, <1>6, <1>8, <2>1
  <2>5. \A u \in l0 : u.id # m
    BY <1>2, <1>3
  <2> HIDE DEF t
  <2>6. a = l0 \cup {t}
    BY <1>8, <2>1, <2>5 DEF Put, t
  <2>7. QED  BY <1>2, <1>8, <2>1, <2>3, <2>4, <2>6
<1>9. ASSUME NEW top, NEW low,
             top = { s \in l0 : s.id = sid }, low = { s \in l1 : s.id = sid /\ top = {} },
             held[o] = {}, sid = Target(o), sid # NoMsg, b = l1 \ low,
             a = (l0 \ top) \cup { With(s, m) : s \in top \cup low },
             ix = WithReply(m, sid)
      PROVE  \E old, t :
               /\ Joins(o, old, t) /\ sid = t.id
               /\ a \subseteq l0 \cup {t} /\ b \subseteq l1
               /\ a \cup b = ((l0 \cup l1) \ old) \cup {t}
               /\ (a \cup b) \cup l2 = (Copies \ old) \cup {t}
               /\ \A n \in Msg : ix[Id[n]] = IF n \in t.msgs THEN t.id ELSE index[Id[n]]
  <2>1. r \in Msg /\ sid = index[Id[r]] /\ sid \in Msg
    BY <1>1, <1>6, <1>9 DEF Target
  <2>2. PICK s \in l0 \cup l1 : r \in s.msgs /\ s.id = sid
    BY <1>2, <1>9, <2>1 DEF InIndex
  <2> DEFINE t == With(s, m)
  <2>3. s \in Copies /\ s \notin l2
    BY <1>2, <2>2 DEF Apart
  <2>4. t.id = s.id /\ t.msgs = s.msgs \cup {m} /\ t \in Session
    BY <1>1, <1>2, <2>3 DEF With, Session
  <2>5. Joins(o, {s}, t)
    BY <2>2, <2>3, <2>4 DEF Joins
  <2>6. \A u \in l0 \cup l1 : u.id = sid => u = s
    BY <1>2, <2>2, <2>3 DEF OneCopy
  <2>7. top \cup low = {s} /\ top = l0 \cap {s} /\ low = l1 \cap {s}
    BY <1>2, <1>9, <2>2, <2>6 DEF Apart
  <2>8. \A n \in Msg : ix[Id[n]] = IF n \in t.msgs THEN t.id ELSE index[Id[n]]
    <3>1. \A n \in s.msgs : index[Id[n]] = s.id
      BY <1>2, <2>2 DEF InIndex
    <3>2. \A n \in Msg : ix[Id[n]] = IF n = m THEN sid ELSE index[Id[n]]
      BY <1>1, <1>5, <1>6, <1>9 DEF WithReply
    <3>3. QED  BY <2>2, <2>4, <3>1, <3>2
  <2>9. a = (l0 \ {s}) \cup {t} /\ b = l1 \ {s}
    BY <1>9, <2>7
  <2> HIDE DEF t
  <2>10. a \cup b = ((l0 \cup l1) \ {s}) \cup {t} /\ (a \cup b) \cup l2 = (Copies \ {s}) \cup {t}
    BY <1>2, <1>9, <2>3, <2>9
  <2>11. QED  BY <2>2, <2>4, <2>5, <2>8, <2>9, <2>10
<1>10. \/ \E s \in held[o] : /\ sid = s.id /\ b = l1
                             /\ a = Put(l0, With(s, m)) /\ ix = Reindex(With(s, m))
       \/ \E top, low :
            /\ top = { s \in l0 : s.id = sid } /\ low = { s \in l1 : s.id = sid /\ top = {} }
            /\ held[o] = {} /\ sid = Target(o) /\ sid # NoMsg /\ b = l1 \ low
            /\ a = (l0 \ top) \cup { With(s, m) : s \in top \cup low }
            /\ ix = WithReply(m, sid)
       \/ /\ held[o] = {} /\ Target(o) = NoMsg /\ sid = m /\ b = l1
          /\ a = Put(l0, [id |-> m, msgs |-> {m}]) /\ ix = [index EXCEPT ![Id[m]] = m]
  BY DEF Placed
<1>11. CASE \E s \in held[o] : /\ sid = s.id /\ b = l1
                                /\ a = Put(l0, With(s, m)) /\ ix = Reindex(With(s, m))
  <2>1. PICK s \in held[o] : /\ sid = s.id /\ b = l1
                             /\ a = Put(l0, With(s, m)) /\ ix = Reindex(With(s, m))
    BY <1>11
  <2> DEFINE t == With(s, m)
             old == {s}
  <2>2. /\ Joins(o, old, t) /\ sid = t.id
        /\ a \subseteq l0 \cup {t} /\ b \subseteq l1
        /\ a \cup b = ((l0 \cup l1) \ old) \cup {t}
        /\ (a \cup b) \cup l2 = (Copies \ old) \cup {t}
        /\ \A n \in Msg : ix[Id[n]] = IF n \in t.msgs THEN t.id ELSE index[Id[n]]
    BY <1>7, <2>1
  <2> HIDE DEF t, old
  <2>3. QED  BY <2>2
<1>12. CASE /\ held[o] = {} /\ Target(o) = NoMsg /\ sid = m /\ b = l1
            /\ a = Put(l0, [id |-> m, msgs |-> {m}]) /\ ix = [index EXCEPT ![Id[m]] = m]
  <2> DEFINE old == {}
  <2>1. \E t : /\ Joins(o, old, t) /\ sid = t.id
               /\ a \subseteq l0 \cup {t} /\ b \subseteq l1
               /\ a \cup b = ((l0 \cup l1) \ old) \cup {t}
               /\ (a \cup b) \cup l2 = (Copies \ old) \cup {t}
               /\ \A n \in Msg : ix[Id[n]] = IF n \in t.msgs THEN t.id ELSE index[Id[n]]
    <3>1. (l0 \cup l1) \ old = l0 \cup l1 /\ Copies \ old = Copies
      OBVIOUS
    <3>2. QED  BY <1>8, <1>12, <3>1
  <2> HIDE DEF old
  <2>2. QED  BY <2>1
<1>13. QED  BY <1>9, <1>10, <1>11, <1>12

LEMMA EnterSeq ==
  ASSUME Quiet, QuietInv, TypeOK', ChainInv', NEW o \in Observer, Enter(o)
  PROVE  SeqInv' /\ \E old, t : Joins(o, old, t) /\ Copies' = (Copies \ old) \cup {t}
<1> DEFINE m == msg[o]
<1>1. pc[o] = "enter"
  BY DEF Enter, Restore, JoinInMemory, StartSession, At
<1>2. PICK sid, a, b, ix : Puts(o, sid, a, b, ix) /\ Placed(o, sid, a, b, ix)
  BY EnterPuts DEF Quiet, QuietInv
<1>3. PICK old, t :
        /\ Joins(o, old, t) /\ sid = t.id
        /\ a \subseteq l0 \cup {t} /\ b \subseteq l1
        /\ a \cup b = ((l0 \cup l1) \ old) \cup {t}
        /\ (a \cup b) \cup l2 = (Copies \ old) \cup {t}
        /\ \A n \in Msg : ix[Id[n]] = IF n \in t.msgs THEN t.id ELSE index[Id[n]]
  BY <1>1, <1>2, EnterJoins
<1>4. /\ m \in Msg /\ home[m] = NoMsg /\ NoMsg \notin Msg /\ t.id \in Msg
      /\ t \in Session /\ m \in t.msgs
  BY <1>1, <1>3, ConstantsOK
     DEF ConstantsOK, QuietInv, TypeOK, ChainInv, InFlight, Clustering, Joins, Session
<1>5. /\ OneCopy(Copies) /\ Apart /\ InIndex
      /\ \A s \in Copies : s \in Session /\ s.id \in s.msgs /\ \A n \in s.msgs : home[n] = s.id
  <2>1. \A s \in Copies : s \in Session
    BY DEF QuietInv, TypeOK, Copies
  <2>2. QED  BY <2>1 DEF QuietInv, SeqInv, Kept, ChainInv, CopiesAgree
<1>6. \A s \in Copies : m \notin s.msgs /\ s.id # m /\ s.id \in Msg
  BY <1>4, <1>5 DEF Session
<1>7. \A s \in Copies \ old : s.id # t.id
  BY <1>3, <1>5, <1>6 DEF Joins, OneCopy
<1>8. \A s \in old : s \in Copies /\ s.msgs \subseteq t.msgs
  BY <1>3 DEF Joins
<1>9. t \notin Copies /\ l0 \cup l1 \cup l2 \subseteq Copies
  BY <1>4, <1>6 DEF Copies
<1>10. OneCopy(a \cup b \cup l2)
  BY <1>3, <1>5, <1>7 DEF OneCopy
<1>11. a \cap b = {} /\ (a \cup b) \cap l2 = {}
  BY <1>3, <1>5, <1>9 DEF Apart
<1>12. a \cup b \subseteq Session /\ \A s \in a \cup b : s.id \in s.msgs
  <2>1. t.id \in t.msgs
    BY <1>3, <1>5 DEF Joins
  <2>2. QED  BY <1>3, <1>4, <1>5, <1>9, <2>1
<1>13. \A n \in Msg : home'[n] # NoMsg => \E s \in a \cup b \cup l2 : n \in s.msgs
  <2> SUFFICES ASSUME NEW n \in Msg, home'[n] # NoMsg
               PROVE  \E s \in (Copies \ old) \cup {t} : n \in s.msgs
    BY <1>3
  <2>1. CASE n = m
    BY <1>4, <2>1
  <2>2. CASE n # m
    <3>1. home'[n] = home[n]
      BY <1>2, <2>2 DEF Puts, Lays, Cluster, QuietInv, TypeOK
    <3>2. PICK s \in Copies : n \in s.msgs
      BY <3>1 DEF QuietInv, SeqInv, Kept
    <3>3. QED  BY <1>8, <3>2
  <2>3. QED  BY <2>1, <2>2
<1>14. \A s \in a \cup b : \A n \in s.msgs : ix[Id[n]] = s.id
  <2> SUFFICES ASSUME NEW s \in a \cup b, NEW n \in s.msgs PROVE ix[Id[n]] = s.id
    OBVIOUS
  <2>1. n \in Msg
    BY <1>12 DEF Session
  <2>2. CASE s = t
    BY <1>3, <2>1, <2>2
  <2>3. CASE s # t
    <3>1. s \in l0 \cup l1 /\ s \in Copies \ old
      BY <1>3, <1>9, <2>3
    <3>2. n \notin t.msgs
      <4>1. AtHome(a \cup b, [home EXCEPT ![m] = sid]) /\ t \in a \cup b
        BY <1>2, <1>3 DEF Puts, Lays
      <4>2. QED  BY <1>7, <3>1, <4>1 DEF AtHome
    <3>3. QED  BY <1>3, <1>5, <2>1, <3>1, <3>2 DEF InIndex
  <2>4. QED  BY <2>2, <2>3
<1>15. \A n \in Msg : ix[Id[n]] # NoMsg => \E s \in a \cup b : n \in s.msgs
  <2> SUFFICES ASSUME NEW n \in Msg, ix[Id[n]] # NoMsg, n \notin t.msgs
               PROVE  \E s \in a \cup b : n \in s.msgs
    BY <1>3
  <2>1. PICK s \in l0 \cup l1 : n \in s.msgs
    BY <1>3, <1>5 DEF InIndex
  <2>2. QED  BY <1>3, <1>8, <2>1
<1> HIDE DEF m
<1>16. SeqInv' /\ Copies' = a \cup b \cup l2
  BY <1>1, <1>2, <1>10, <1>11, <1>12, <1>13, <1>14, <1>15, EvictSeq
<1>17. QED  BY <1>3, <1>16

\* Joining sessions is what the abstract clusters do.
LEMMA JoinsClusters ==
  ASSUME QuietInv, NEW o \in Observer, pc[o] = "enter", NEW old, NEW t, Joins(o, old, t),
         Copies' = (Copies \ old) \cup {t}
  PROVE  Clusters!Next
<1> DEFINE m == msg[o]
           r == ReplyTo[m]
           groups == { s.msgs : s \in Copies }
<1>1. m \in Msg /\ home[m] = NoMsg /\ NoMsg \notin Msg
  BY ConstantsOK DEF ConstantsOK, QuietInv, TypeOK, ChainInv, InFlight, Clustering
<1>2. /\ OneCopy(Copies)
      /\ \A s \in Copies : s \in Session /\ s.id \in s.msgs /\ \A n \in s.msgs : home[n] = s.id
  <2>1. \A s \in Copies : s \in Session
    BY DEF QuietInv, TypeOK, Copies
  <2>2. QED  BY <2>1 DEF QuietInv, SeqInv, Kept, ChainInv, CopiesAgree
<1>3. \A s \in Copies : \A n \in s.msgs : n \in Msg /\ home[n] # NoMsg
  BY <1>1, <1>2 DEF Session
<1>4. \A n : n \in UNION groups => n \in Msg /\ home[n] # NoMsg
  BY <1>3
<1>5. groups' = { s.msgs : s \in (Copies \ old) \cup {t} }
  OBVIOUS
<1>6. m \notin UNION groups
  BY <1>1, <1>4
<1>7. CASE old = {} /\ t = [id |-> m, msgs |-> {m}] /\ (r = NoMsg \/ home[r] = NoMsg)
  <2>1. r \notin UNION groups
    BY <1>1, <1>4, <1>7
  <2>2. groups' = groups \cup {{m}}
    BY <1>5, <1>7
  <2>3. QED
    BY <1>1, <1>6, <2>1, <2>2 DEF Clusters!Next, Clusters!Observe, Clusters!Start
<1>8. ASSUME NEW s \in Copies, old = {s}, t.msgs = s.msgs \cup {m},
             r \in s.msgs \/ (r = NoMsg /\ Chat[s.id] = Chat[m])
      PROVE  Clusters!Next
  <2>1. \A u \in Copies \ {s} : u.msgs # s.msgs
    BY <1>2 DEF OneCopy
  <2>2. { u.msgs : u \in Copies \ {s} } = groups \ {s.msgs}
    BY <2>1
  <2>3. groups' = (groups \ {s.msgs}) \cup {s.msgs \cup {m}}
    BY <1>5, <1>8, <2>2
  <2>4. s.msgs \in groups /\ \E n \in s.msgs : Chat[n] = Chat[s.id]
    BY <1>2
  <2>5. \/ r \in s.msgs
        \/ r = NoMsg /\ \E n \in s.msgs : Chat[n] = Chat[m]
    BY <1>8, <2>4
  <2>6. \/ \E S \in groups : r \in S /\ groups' = (groups \ {S}) \cup {S \cup {m}}
        \/ /\ r = NoMsg
           /\ \E S \in groups : /\ \E n \in S : Chat[n] = Chat[m]
                               /\ groups' = (groups \ {S}) \cup {S \cup {m}}
    <3> HIDE DEF groups, m, r
    <3> QED  BY <2>3, <2>4, <2>5
  <2>7. QED
    BY <1>1, <1>6, <2>6 DEF Clusters!Next, Clusters!Observe, Clusters!Join
<1>9. QED  BY <1>7, <1>8 DEF Joins

LEMMA SeqStep ==
  ASSUME Quiet, QuietInv, TypeOK', ChainInv', [Next]_vars
  PROVE  SeqInv' /\ [Clusters!Next]_{ s.msgs : s \in Copies }
<1>1. ASSUME NEW o \in Observer, Enter(o)
      PROVE  SeqInv' /\ Clusters!Next
  <2>1. pc[o] = "enter"
    BY <1>1 DEF Enter, Restore, JoinInMemory, StartSession, At
  <2>2. QED  BY <1>1, <2>1, EnterSeq, JoinsClusters
<1>2. CASE \E o \in Observer :
             \/ \E m \in Msg : Observe(o, m)
             \/ Check(o) \/ Find(o) \/ Load(o) \/ Search(o)
             \/ Delete(o) \/ DeleteIndex(o) \/ Persist(o)
  <2>1. SeqInv' /\ UNCHANGED Copies
    BY <1>2, ObserveSeq, LookSeq, MoveSeq
  <2>2. QED  BY <2>1
<1>3. CASE UNCHANGED vars
  <2>1. UNCHANGED Copies
    BY <1>3 DEF vars, memory, archive, calls, Copies
  <2>2. hasL2' /\ AloneCall' /\ Kept' /\ Apart' /\ InIndex'
    BY <1>3, <2>1 DEF QuietInv, SeqInv, AloneCall, Kept, Apart, InIndex, OneCopy,
                      vars, memory, archive, calls, history
  <2>3. \A o \in Observer : /\ pc'[o] = pc[o] /\ Archived(o)' = Archived(o)
                           /\ HandOK(o)' = HandOK(o) /\ TargetOK(o)' = TargetOK(o)
    BY <1>3 DEF Archived, HandOK, TargetOK, vars, memory, archive, calls, history
  <2>4. l2index' = l2index /\ l2' = l2
    BY <1>3 DEF vars, archive
  <2>5. SeqInv'
    BY <2>2, <2>3, <2>4 DEF QuietInv, SeqInv
  <2>6. QED  BY <2>1, <2>5
<1>4. ~Crash /\ \A o \in Observer : ~Cancel(o)
  BY DEF Quiet, Crash, Cancel, Lose
<1>5. QED  BY <1>1, <1>2, <1>3, <1>4 DEF Next, Step

LEMMA InitSeq ==
  ASSUME Quiet, Init
  PROVE  SeqInv /\ Clusters!Init
<1>1. Copies = {}
  BY DEF Init, Copies
<1>2. hasL2 /\ Rows(l2) = {}
  BY DEF Init, Quiet, Rows
<1>3. SeqInv
  BY <1>1, <1>2 DEF Init, SeqInv, AloneCall, Kept, Apart, InIndex, OneCopy, MsgId
<1>4. QED  BY <1>1, <1>3 DEF Clusters!Init

LEMMA SeqInvariant ==
  ASSUME Quiet
  PROVE  Spec => [](QuietInv) /\ ClustersSpec
<1>1. Init => SeqInv /\ Clusters!Init
  BY InitSeq
<1>2. TypeOK /\ ChainInv /\ CapInv /\ TypeOK' /\ ChainInv' /\ SeqInv /\ [Next]_vars
        => SeqInv' /\ [Clusters!Next]_{ s.msgs : s \in Copies }
  BY SeqStep DEF QuietInv
<1>3. Spec => []TypeOK /\ []ChainInv /\ []CapInv
  BY TypeCorrect, ChainInvariant, CapInvariant, PTL DEF Quiet
<1>4. QuietInv <=> TypeOK /\ ChainInv /\ CapInv /\ SeqInv
  BY DEF QuietInv
<1>5. QED
  BY <1>1, <1>2, <1>3, <1>4, PTL DEF Spec, ClustersSpec, Clusters!Spec

(* One call at a time and without failures the three layers are invisible: *)
(* page faults, evictions and persists are stutters of SessionClusters, and *)
(* the second locked section of observe is its step.                       *)
THEOREM LayersInvisible ==
  ASSUME Quiet
  PROVE  Spec => ClustersSpec
BY SeqInvariant, PTL

(* Under the same proviso, between calls get_session_for_msg finds one     *)
(* session for each message observed, wherever it is kept.                 *)
THEOREM AlwaysRetrievable ==
  ASSUME Quiet
  PROVE  Spec => []Retrievable
<1>1. QuietInv => Retrievable
  <2> SUFFICES ASSUME QuietInv, \A o \in Observer : pc[o] = "idle",
                      NEW m \in Msg, home[m] # NoMsg
               PROVE  \E s \in Lookup(m) : m \in s.msgs /\ Lookup(m) = {s}
    BY DEF Retrievable
  <2>1. \A o \in Observer : held[o] = {}
    BY DEF QuietInv, ChainInv, ReadsAgree
  <2>2. Copies = l0 \cup l1 \cup l2 /\ l2index = Rows(l2) /\ hasL2 /\ Apart /\ InIndex
    BY <2>1 DEF Copies, QuietInv, SeqInv
  <2>3. PICK s \in Copies : m \in s.msgs
    BY DEF QuietInv, SeqInv, Kept
  <2>4. OneCopy(Copies) /\ l2 \subseteq Session /\ l0 \cup l1 \subseteq Session /\ NoMsg \notin Msg
    BY ConstantsOK DEF ConstantsOK, QuietInv, SeqInv, Kept, TypeOK
  <2>5. CASE s \in l0 \cup l1
    <3>1. index[Id[m]] = s.id
      BY <2>2, <2>3, <2>5 DEF InIndex
    <3>2. \A u \in l0 \cup l1 : u.id = s.id => u = s
      BY <2>2, <2>4, <2>5 DEF OneCopy
    <3>3. Lookup(m) = {s}
      BY <2>5, <3>1, <3>2 DEF Lookup
    <3>4. QED  BY <2>3, <3>3
  <2>6. CASE s \in l2 /\ s \notin l0 \cup l1
    <3>1. index[Id[m]] = NoMsg
      <4>1. SUFFICES ASSUME index[Id[m]] # NoMsg PROVE FALSE
        OBVIOUS
      <4>2. PICK u \in l0 \cup l1 : m \in u.msgs
        BY <2>2, <4>1 DEF InIndex
      <4>3. u.id = home[m] /\ s.id = home[m]
        BY <2>2, <2>3, <4>2 DEF QuietInv, ChainInv, CopiesAgree
      <4>4. QED  BY <2>2, <2>4, <2>6, <4>2, <4>3 DEF OneCopy
    <3>2. \A u \in l0 \cup l1 : u.id # NoMsg
      BY <2>4 DEF Session
    <3>3. \A u \in l2 : <<Id[m], u.id>> \in l2index <=> u = s
      <4> SUFFICES ASSUME NEW u \in l2 PROVE <<Id[m], u.id>> \in l2index <=> u = s
        OBVIOUS
      <4>1. <<Id[m], u.id>> \in l2index <=> \E v \in l2 : v.id = u.id /\ m \in v.msgs
        BY <2>2, <2>4, RowIs
      <4>2. \A v \in l2 : v.id = u.id => v = u
        BY <2>2, <2>4 DEF OneCopy
      <4>3. m \in u.msgs => u = s
        <5>1. m \in u.msgs => u.id = home[m] /\ s.id = home[m]
          BY <2>2, <2>3 DEF QuietInv, ChainInv, CopiesAgree
        <5>2. QED  BY <2>2, <2>4, <5>1 DEF OneCopy
      <4>4. QED  BY <2>3, <4>1, <4>2, <4>3
    <3>4. Lookup(m) = {s}
      BY <2>2, <2>6, <3>1, <3>2, <3>3 DEF Lookup
    <3>5. QED  BY <2>3, <3>4
  <2>7. QED  BY <2>2, <2>5, <2>6
<1>2. QED  BY <1>1, SeqInvariant, PTL

-------------------------------------------------------------------------------
(* Without L2 calls hold nothing and only memory counts: a session is in   *)
(* one layer, under one id, and the index names it for each of its         *)
(* messages.                                                               *)
MemoryOnly ==
    ~hasL2 =>
      /\ \A o \in Observer : pc[o] \in {"idle", "check", "enter"} /\ held[o] = {}
      /\ l0 \cap l1 = {} /\ OneCopy(l0 \cup l1)
      /\ \A s \in l0 \cup l1 : s.id \in s.msgs /\ \A m \in s.msgs : index[Id[m]] = s.id

(* The session that was touched last is not the one idle for longest.      *)
LEMMA NewestStays ==
  ASSUME NEW order \in Seq(Msg), NEW a, NEW h, NEW cap \in Nat \ {0},
         OneCopy(a), Recorded(a, order), AtHome(a, h),
         order # << >>, NEW t \in a, order[Len(order)] \in t.msgs
  PROVE  t \notin Excess(a, cap, order)
<1> DEFINE n == Len(order)
<1>1. n \in Nat \ {0} /\ DOMAIN order = 1 .. n
  BY LenProperties, EmptySeq
<1>2. \A s \in a : /\ LastActive(s, order) \in 1 .. n
                   /\ order[LastActive(s, order)] \in s.msgs
                   /\ \A i \in 1 .. n : order[i] \in s.msgs => i <= LastActive(s, order)
  <2> SUFFICES ASSUME NEW s \in a
               PROVE  /\ LastActive(s, order) \in 1 .. n
                      /\ order[LastActive(s, order)] \in s.msgs
                      /\ \A i \in 1 .. n : order[i] \in s.msgs => i <= LastActive(s, order)
    OBVIOUS
  <2>1. Recorded({s}, order)
    BY DEF Recorded
  <2>2. QED  BY <1>1, <2>1, LastActiveIs
<1>3. LastActive(t, order) = n
  BY <1>1, <1>2
<1> SUFFICES ASSUME t \in Excess(a, cap, order) PROVE FALSE
  OBVIOUS
<1>4. Cardinality(a) > cap /\ \A u \in a : LastActive(t, order) <= LastActive(u, order)
  BY DEF Excess, Oldest
<1>5. ASSUME NEW u \in a PROVE u = t
  <2>1. LastActive(u, order) = n
    BY <1>1, <1>2, <1>3, <1>4
  <2>2. order[n] \in u.msgs
    BY <1>2, <2>1
  <2>3. u.id = t.id
    BY <2>2 DEF AtHome
  <2>4. QED  BY <2>3 DEF OneCopy
<1>6. a = {t}
  BY <1>5
<1>7. Cardinality(a) = 1
  BY <1>6, FS_Singleton
<1>8. QED  BY <1>4, <1>7

\* What a message leaves in memory before evict_collect: the sessions there
\* were, but for the one it joins, and the session t with it.
JoinsMemory(o, a, b, ix, t) ==
    LET m == msg[o]
    IN  /\ t \in a /\ t \in Session /\ m \in t.msgs /\ t.id \in t.msgs
        /\ a \cap b = {} /\ a \cup b \subseteq l0 \cup l1 \cup {t}
        /\ OneCopy(a \cup b)
        /\ \A s \in l0 \cup l1 : ReplyTo[m] \in s.msgs => ReplyTo[m] \in t.msgs
        /\ \A s \in a \cup b : \A n \in s.msgs : ix[Id[n]] = s.id

LEMMA EnterJoinsMemory ==
  ASSUME UniqueIds, TypeOK, ChainInv, MemoryOnly, IndexLive, ~hasL2,
         NEW o \in Observer, pc[o] = "enter",
         NEW a, NEW b, NEW ix, NEW sid, Placed(o, sid, a, b, ix)
  PROVE  \E t : JoinsMemory(o, a, b, ix, t)
<1> DEFINE m == msg[o]
           r == ReplyTo[m]
           M == l0 \cup l1
<1>1. m \in Msg /\ home[m] = NoMsg /\ NoMsg \notin Msg /\ r \in Msg \cup {NoMsg}
  BY ConstantsOK DEF ConstantsOK, TypeOK, ChainInv, InFlight, Clustering
<1>2. /\ held[o] = {} /\ l0 \cap l1 = {} /\ OneCopy(M)
      /\ \A s \in M : /\ s \in Session /\ s.id \in s.msgs
                      /\ \A n \in s.msgs : home[n] = s.id /\ index[Id[n]] = s.id
  BY DEF MemoryOnly, TypeOK, ChainInv, CopiesAgree, Copies
<1>3. \A s \in M : m \notin s.msgs /\ s.id # m /\ s.id \in Msg /\ s.msgs \subseteq Msg
  BY <1>1, <1>2 DEF Session
<1>4. \A i, n \in Msg : Id[i] = Id[n] => i = n
  BY DEF UniqueIds
<1>5. index \in [MsgId -> Msg \cup {NoMsg}] /\ \A n \in Msg : Id[n] \in MsgId
  BY DEF TypeOK, MsgId
<1>6. CASE /\ Target(o) = NoMsg /\ sid = m /\ b = l1
           /\ a = Put(l0, [id |-> m, msgs |-> {m}]) /\ ix = [index EXCEPT ![Id[m]] = m]
  <2> DEFINE t == [id |-> m, msgs |-> {m}]
  <2>1. t.id = m /\ t.msgs = {m} /\ t \in Session
    BY <1>1 DEF Session
  <2>2. a = l0 \cup {t}
    BY <1>3, <1>6, <2>1 DEF Put
  <2> HIDE DEF t
  <2>3. t \notin M
    BY <1>3, <2>1
  <2>4. a \cap b = {} /\ a \cup b = M \cup {t} /\ OneCopy(a \cup b)
    BY <1>2, <1>3, <1>6, <2>1, <2>2, <2>3 DEF OneCopy
  <2>5. \A s \in M : r \notin s.msgs
    BY <1>1, <1>2, <1>3, <1>6 DEF Target
  <2>6. \A s \in a \cup b : \A n \in s.msgs : ix[Id[n]] = s.id
    <3>1. \A n \in t.msgs : ix[Id[n]] = t.id
      BY <1>1, <1>5, <1>6, <2>1
    <3>2. \A s \in M : \A n \in s.msgs : ix[Id[n]] = s.id
      BY <1>1, <1>2, <1>3, <1>4, <1>5, <1>6
    <3>3. QED  BY <2>4, <3>1, <3>2
  <2>7. QED  BY <2>1, <2>2, <2>4, <2>5, <2>6 DEF JoinsMemory
<1>7. ASSUME NEW top, NEW low,
             top = { s \in l0 : s.id = sid }, low = { s \in l1 : s.id = sid /\ top = {} },
             sid = Target(o), sid # NoMsg, b = l1 \ low,
             a = (l0 \ top) \cup { With(s, m) : s \in top \cup low },
             ix = WithReply(m, sid),
             NEW s \in M, s.id = sid
      PROVE  JoinsMemory(o, a, b, ix, With(s, m))
  <2> DEFINE t == With(s, m)
  <2>1. t.id = s.id /\ t.msgs = s.msgs \cup {m} /\ t \in Session
    BY <1>1, <1>2 DEF With, Session
  <2>2. \A u \in M : u.id = sid => u = s
    BY <1>2, <1>7 DEF OneCopy
  <2>3. top \cup low = {s} /\ top = l0 \cap {s} /\ low = l1 \cap {s}
    BY <1>2, <1>7, <2>2
  <2>4. a = (l0 \ {s}) \cup {t} /\ b = l1 \ {s}
    BY <1>7, <2>3
  <2> HIDE DEF t
  <2>5. t \notin M /\ a \cup b = (M \ {s}) \cup {t}
    BY <1>3, <2>1, <2>4
  <2>6. a \cap b = {} /\ OneCopy(a \cup b)
    BY <1>2, <1>7, <2>1, <2>2, <2>4, <2>5 DEF OneCopy
  <2>7. r \in Msg /\ sid = index[Id[r]]
    BY <1>1, <1>7 DEF Target
  <2>8. \A u \in M : r \in u.msgs => r \in t.msgs
    BY <1>2, <1>7, <2>1, <2>2, <2>7
  <2>9. \A u \in a \cup b : \A n \in u.msgs : ix[Id[n]] = u.id
    <3>1. \A n \in Msg : ix[Id[n]] = IF n = m THEN sid ELSE index[Id[n]]
      BY <1>1, <1>4, <1>5, <1>7, <2>7 DEF WithReply
    <3>2. \A n \in t.msgs : ix[Id[n]] = t.id
      BY <1>1, <1>2, <1>3, <1>7, <2>1, <3>1
    <3>3. \A u \in M : \A n \in u.msgs : ix[Id[n]] = u.id
      BY <1>2, <1>3, <3>1
    <3>4. QED  BY <2>5, <3>2, <3>3
  <2>10. QED
    BY <1>2, <2>1, <2>4, <2>5, <2>6, <2>8, <2>9 DEF JoinsMemory, t
<1>8. CASE \E top, low :
             /\ top = { s \in l0 : s.id = sid } /\ low = { s \in l1 : s.id = sid /\ top = {} }
             /\ sid = Target(o) /\ sid # NoMsg /\ b = l1 \ low
             /\ a = (l0 \ top) \cup { With(s, m) : s \in top \cup low }
             /\ ix = WithReply(m, sid)
  <2>1. sid # NoMsg /\ sid = Target(o)
    BY <1>8
  <2>2. PICK s \in M : s.id = sid
    BY <1>1, <1>5, <2>1 DEF Target, IndexLive
  <2>3. QED  BY <1>7, <1>8, <2>2
<1>9. \/ \E u \in held[o] : TRUE
      \/ \E top, low :
           /\ top = { s \in l0 : s.id = sid } /\ low = { s \in l1 : s.id = sid /\ top = {} }
           /\ sid = Target(o) /\ sid # NoMsg /\ b = l1 \ low
           /\ a = (l0 \ top) \cup { With(s, m) : s \in top \cup low }
           /\ ix = WithReply(m, sid)
      \/ /\ Target(o) = NoMsg /\ sid = m /\ b = l1
         /\ a = Put(l0, [id |-> m, msgs |-> {m}]) /\ ix = [index EXCEPT ![Id[m]] = m]
  BY DEF Placed
<1>10. QED  BY <1>2, <1>6, <1>8, <1>9

(* The eviction that follows keeps the memory in order, and keeps t, unless *)
(* there is no room for anything.                                           *)
LEMMA EvictMemory ==
  ASSUME TypeOK, CapInv, MemoryOnly, ~hasL2, NEW o \in Observer, msg[o] \in Msg,
         NEW a, NEW b, NEW ix, NEW sid, NEW t,
         Puts(o, sid, a, b, ix), JoinsMemory(o, a, b, ix, t)
  PROVE  MemoryOnly' /\ (L0Capacity # 0 \/ L1Capacity # 0 => t \in l0' \cup l1')
<1> DEFINE down == Excess(a, L0Capacity, seen')
           c    == { s \in b : \A u \in down : s.id # u.id } \cup down
           out  == Excess(c, L1Capacity, seen')
           h    == [home EXCEPT ![msg[o]] = sid]
<1>1. /\ l0' = a \ down /\ l1' = c \ out /\ index' = Purge(ix, out) /\ hasL2' = hasL2
      /\ Goto(o, "idle") /\ Keep(o, {})
  BY DEF Puts, Lays, EvictCollect
<1>2. down \subseteq a /\ out \subseteq c
  BY DEF Excess, Oldest
<1>3. /\ t \in a /\ msg[o] \in t.msgs /\ t.id \in t.msgs
      /\ a \cap b = {} /\ a \cup b \subseteq l0 \cup l1 \cup {t} /\ OneCopy(a \cup b)
      /\ \A s \in a \cup b : \A n \in s.msgs : ix[Id[n]] = s.id
  BY DEF JoinsMemory
<1>4. c = b \cup down
  <2> HIDE DEF down
  <2>1. QED  BY <1>2, <1>3 DEF OneCopy
<1>5. a \cup b \subseteq Session
  BY DEF Puts, Lays, TypeOK
<1>6. L0Capacity \in Nat /\ L1Capacity \in Nat
  BY ConstantsOK DEF ConstantsOK
<1>7. /\ seen' \in Seq(Msg) /\ seen' # << >> /\ seen'[Len(seen')] = msg[o]
      /\ Recorded(a \cup b, seen') /\ AtHome(a \cup b, h)
  <2>1. seen' = Append(seen, msg[o]) /\ AtHome(a \cup b, h)
    BY DEF Puts, Lays, Cluster
  <2>2. seen' \in Seq(Msg) /\ Recorded(a \cup b, seen')
    BY PutsRecorded DEF CapInv, Puts
  <2>3. Len(seen') = Len(seen) + 1 /\ seen'[Len(seen) + 1] = msg[o] /\ Len(seen) \in Nat
    BY <2>1, AppendProperties, LenProperties DEF TypeOK
  <2>4. seen' # << >>
    BY <2>3, EmptySeq
  <2>5. QED  BY <2>1, <2>2, <2>3, <2>4
<1> HIDE DEF h
<1>8. L0Capacity # 0 => t \notin down
  <2> SUFFICES ASSUME L0Capacity # 0 PROVE t \notin down
    OBVIOUS
  <2>1. OneCopy(a) /\ Recorded(a, seen') /\ AtHome(a, h)
    BY <1>3, <1>7 DEF OneCopy, Recorded, AtHome
  <2>2. QED  BY <1>3, <1>6, <1>7, <2>1, NewestStays
<1> HIDE DEF down
<1>9. L1Capacity # 0 /\ t \in c => t \notin out
  <2> SUFFICES ASSUME L1Capacity # 0, t \in c PROVE t \notin out
    OBVIOUS
  <2>1. c \subseteq a \cup b
    BY <1>2, <1>4
  <2> HIDE DEF c
  <2>2. OneCopy(c) /\ Recorded(c, seen') /\ AtHome(c, h)
    BY <1>3, <1>7, <2>1 DEF OneCopy, Recorded, AtHome
  <2>3. QED  BY <1>3, <1>6, <1>7, <2>2, NewestStays
<1> HIDE DEF c, out
<1>10. L0Capacity # 0 \/ L1Capacity # 0 => t \in l0' \cup l1'
  BY <1>1, <1>3, <1>4, <1>8, <1>9
<1>11. \A p \in Observer : pc'[p] \in {"idle", "check", "enter"} /\ held'[p] = {}
  BY <1>1 DEF MemoryOnly, Goto, Keep, TypeOK
<1>12. l0' \cup l1' \subseteq a \cup b /\ l0' \cap l1' = {} /\ (l0' \cup l1') \cap out = {}
       /\ out \subseteq a \cup b
  BY <1>1, <1>2, <1>3, <1>4
<1>13. OneCopy(l0' \cup l1')
  BY <1>3, <1>12 DEF OneCopy
<1>14. ASSUME NEW s \in l0' \cup l1'
       PROVE  s.id \in s.msgs /\ \A n \in s.msgs : index'[Id[n]] = s.id
  <2>1. s \in a \cup b /\ s \in Session
    BY <1>5, <1>12
  <2>2. s.id \in s.msgs
    BY <1>3, <2>1 DEF MemoryOnly
  <2>3. \A u \in out : u.id # s.id
    BY <1>3, <1>12, <2>1 DEF OneCopy
  <2>4. ASSUME NEW n \in s.msgs PROVE index'[Id[n]] = s.id
    <3>1. Id[n] \in MsgId /\ ix[Id[n]] = s.id
      BY <1>3, <2>1 DEF Session, MsgId
    <3>2. QED  BY <1>1, <2>3, <3>1 DEF Purge
  <2>5. QED  BY <2>2, <2>4
<1>15. MemoryOnly'
  BY <1>11, <1>12, <1>13, <1>14 DEF MemoryOnly
<1>16. QED  BY <1>10, <1>15

\* A message m that is put somewhere, in answer to one that memory holds,
\* is found in memory with it.
Bound(m) ==
    home[m] = NoMsg /\ home'[m] # NoMsg /\ (\E s \in l0 \cup l1 : ReplyTo[m] \in s.msgs)
      => \E s \in l0' \cup l1' : {m, ReplyTo[m]} \subseteq s.msgs

LEMMA EnterBinds ==
  ASSUME UniqueIds, TypeOK, ChainInv, CapInv, IndexLive, MemoryOnly, ~hasL2,
         NEW o \in Observer, Enter(o)
  PROVE  MemoryOnly' /\ \A m \in Msg : Bound(m)
<1>1. PICK sid, a, b, ix : Puts(o, sid, a, b, ix) /\ Placed(o, sid, a, b, ix)
  BY EnterPuts
<1>2. pc[o] = "enter" /\ msg[o] \in Msg
  BY DEF Enter, Restore, JoinInMemory, StartSession, At, TypeOK
<1>3. PICK t : JoinsMemory(o, a, b, ix, t)
  BY <1>1, <1>2, EnterJoinsMemory
<1>4. MemoryOnly' /\ (L0Capacity # 0 \/ L1Capacity # 0 => t \in l0' \cup l1')
  BY <1>1, <1>2, <1>3, EvictMemory
<1>5. ASSUME NEW m \in Msg, home[m] = NoMsg, home'[m] # NoMsg,
             NEW s \in l0 \cup l1, ReplyTo[m] \in s.msgs
      PROVE  \E u \in l0' \cup l1' : {m, ReplyTo[m]} \subseteq u.msgs
  <2>1. m = msg[o]
    BY <1>1, <1>5 DEF Puts, Lays, Cluster, TypeOK
  <2>2. {m, ReplyTo[m]} \subseteq t.msgs
    BY <1>3, <1>5, <2>1 DEF JoinsMemory
  <2>3. L0Capacity # 0 \/ L1Capacity # 0
    <3> SUFFICES ASSUME L0Capacity = 0, L1Capacity = 0 PROVE FALSE
      OBVIOUS
    <3>1. IsFiniteSet(l0) /\ IsFiniteSet(l1) /\ Cardinality(l0) <= 0 /\ Cardinality(l1) <= 0
      BY DEF CapInv, WithinCapacity
    <3>2. Cardinality(l0) \in Nat /\ Cardinality(l1) \in Nat
      BY <3>1, FS_CardinalityType
    <3>3. Cardinality(l0) = 0 /\ Cardinality(l1) = 0
      BY <3>1, <3>2
    <3>4. l0 = {} /\ l1 = {}
      BY <3>1, <3>3, FS_EmptySet
    <3>5. QED  BY <1>5, <3>4
  <2>4. QED  BY <1>4, <2>2, <2>3
<1>6. QED  BY <1>4, <1>5 DEF Bound

LEMMA StepBinds ==
  ASSUME UniqueIds, TypeOK, ChainInv, CapInv, IndexLive, MemoryOnly, [Next]_vars
  PROVE  MemoryOnly' /\ (~hasL2 => \A m \in Msg : Bound(m))
<1>1. CASE hasL2 /\ ~Crash
  <2>1. ASSUME NEW o \in Observer, NEW m \in Msg, Observe(o, m)
        PROVE  hasL2' = hasL2
    BY <2>1 DEF Observe, memory
  <2>2. ASSUME NEW o \in Observer,
               Check(o) \/ Find(o) \/ Load(o) \/ Search(o) \/ Delete(o) \/ DeleteIndex(o)
        PROVE  hasL2' = hasL2
    BY <2>2 DEF Check, Find, Load, Search, Delete, DeleteIndex, memory
  <2>3. ASSUME NEW o \in Observer, Restore(o) \/ JoinInMemory(o) \/ StartSession(o)
        PROVE  hasL2' = hasL2
    BY <2>3 DEF Restore, JoinInMemory, StartSession, EvictCollect
  <2>4. ASSUME NEW o \in Observer, Persist(o) \/ Cancel(o)
        PROVE  hasL2' = hasL2
    BY <2>4 DEF Persist, PersistDelete, PersistAdd, PersistUnindex, PersistIndex, Cancel, Lose,
                memory
  <2>5. hasL2' = hasL2
    BY <1>1, <2>1, <2>2, <2>3, <2>4 DEF Next, Step, Enter, vars, memory
  <2>6. QED  BY <1>1, <2>5 DEF MemoryOnly
<1>2. CASE Crash
  <2>1. MemoryOnly' /\ UNCHANGED home
    BY <1>2 DEF Crash, history, MemoryOnly, OneCopy
  <2>2. QED  BY <2>1 DEF Bound
<1>3. ASSUME ~hasL2, NEW o \in Observer, Enter(o)
      PROVE  MemoryOnly' /\ \A m \in Msg : Bound(m)
  BY <1>3, EnterBinds
<1>4. ASSUME ~hasL2,
             \/ UNCHANGED vars
             \/ \E o \in Observer : \/ \E m \in Msg : Observe(o, m)
                                    \/ Check(o) \/ Cancel(o)
      PROVE  MemoryOnly' /\ \A m \in Msg : Bound(m)
  <2>1. UNCHANGED <<memory, home>>
    BY <1>4 DEF vars, history, Observe, Check, Cancel, Lose
  <2>2. \A p \in Observer : pc'[p] \in {"idle", "check", "enter"} /\ held'[p] = {}
    <3>1. CASE UNCHANGED vars
      BY <1>4, <3>1 DEF vars, calls, MemoryOnly
    <3>2. ASSUME NEW o \in Observer, NEW m \in Msg, Observe(o, m)
          PROVE  \A p \in Observer : pc'[p] \in {"idle", "check", "enter"} /\ held'[p] = {}
      BY <1>4, <3>2 DEF Observe, MemoryOnly, TypeOK
    <3>3. ASSUME NEW o \in Observer, Check(o) \/ Cancel(o)
          PROVE  \A p \in Observer : pc'[p] \in {"idle", "check", "enter"} /\ held'[p] = {}
      BY <1>4, <3>3 DEF Check, Cancel, Lose, Goto, Keep, MemoryOnly, TypeOK
    <3>4. QED  BY <1>4, <3>1, <3>2, <3>3
  <2>3. QED  BY <2>1, <2>2 DEF memory, MemoryOnly, Bound
<1>5. ASSUME ~hasL2, NEW o \in Observer,
             Find(o) \/ Load(o) \/ Search(o) \/ Delete(o) \/ DeleteIndex(o) \/ Persist(o)
      PROVE  FALSE
  <2>1. pc[o] \in {"idle", "check", "enter"}
    BY <1>5 DEF MemoryOnly
  <2>2. QED  BY <1>5, <2>1 DEF Find, Load, Search, Delete, DeleteIndex, Persist,
                               PersistDelete, PersistAdd, PersistUnindex, PersistIndex, At
<1>6. QED  BY <1>1, <1>2, <1>3, <1>4, <1>5 DEF Next, Step

(* In a kernel that runs without L2 a reply to a message in memory joins    *)
(* its session, and the two are still there when evict_collect is done      *)
(* (lib.rs:592-675), whatever the capacities, also 0.                       *)
THEOREM RepliesAreBound ==
  ASSUME UniqueIds
  PROVE  Spec => HeldBinding
<1>1. Init => MemoryOnly
  BY DEF Init, MemoryOnly, OneCopy
<1>2. TypeOK /\ ChainInv /\ CapInv /\ IndexLive /\ MemoryOnly /\ [Next]_vars
      => /\ MemoryOnly'
         /\ [~hasL2 => \A m \in Msg :
               /\ home[m] = NoMsg /\ home'[m] # NoMsg
               /\ \E s \in l0 \cup l1 : ReplyTo[m] \in s.msgs
               => \E s \in l0' \cup l1' : {m, ReplyTo[m]} \subseteq s.msgs]_vars
  BY StepBinds DEF Bound
<1>3. QED
  BY <1>1, <1>2, TypeCorrect, ChainInvariant, CapInvariant, IndexIsLive, PTL
     DEF Spec, HeldBinding
===============================================================================
