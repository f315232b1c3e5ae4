---------------------------- MODULE MCSessionStore ----------------------------
(***************************************************************************)
(* Small instances of SessionStore.  Layers of one session each make the   *)
(* third session archive the first.                                        *)
(***************************************************************************)
EXTENDS SessionStore, TLC

CONSTANTS m1, m2, m3, m4, m5, m6, chatA, chatB

\* Two replies to one message, and a reply to another.
Fork == (m1 :> NoMsg) @@ (m2 :> NoMsg) @@ (m3 :> NoMsg) @@ (m4 :> m1) @@ (m5 :> m1)

\* Replies stay in the chat of the message they answer.
Many == {m1, m2, m3, m4, m5}
All == Many \cup {m6}
ForkAll == (m6 :> m2) @@ Fork

AllChats == [m \in All |-> IF m \in {m2, m6} THEN chatB ELSE chatA]
TwoChats == [m \in Many |-> IF m = m2 THEN chatB ELSE chatA]

\* Ids that no two chats share.
UniqueId == [m \in All |-> m]

ObserverSymmetry == Permutations(Observer)
===============================================================================
