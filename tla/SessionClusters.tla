---------------------------- MODULE SessionClusters ----------------------------
(***************************************************************************)
(* What session clustering promises: every message that has been observed  *)
(* belongs to one session, for good.  A reply joins the session of the     *)
(* message it answers (the hard binding of RFC 003 section 5.1); a message *)
(* that answers nothing may join a session of its chat that is similar; a  *)
(* message whose target is unknown starts a session.                       *)
(*                                                                         *)
(* Where a session is kept, in memory or archived, is not visible here.    *)
(***************************************************************************)
CONSTANTS Msg, NoMsg, ReplyTo, Chat

VARIABLE clusters    \* the sessions, as sets of messages

Init == clusters = {}

Start(m) == clusters' = clusters \cup {{m}}

Join(m, S) == clusters' = (clusters \ {S}) \cup {S \cup {m}}

Observe(m) ==
    /\ m \notin UNION clusters
    /\ \/ ReplyTo[m] \notin UNION clusters /\ Start(m)
       \/ \E S \in clusters : ReplyTo[m] \in S /\ Join(m, S)
       \/ /\ ReplyTo[m] = NoMsg
          /\ \E S \in clusters : (\E n \in S : Chat[n] = Chat[m]) /\ Join(m, S)

Next == \E m \in Msg : Observe(m)

Spec == Init /\ [][Next]_clusters
==============================================================================
