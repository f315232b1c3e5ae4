---------------------------- MODULE MCMemoryModule ----------------------------
(***************************************************************************)
(* Small instances of MemoryModule: messages with ids of either origin,    *)
(* summaries of two hours, a graph write of two triples.                   *)
(***************************************************************************)
EXTENDS MemoryModule, TLC

CONSTANTS ta, tb, x, y

Message(i, t, r) == [msg_id |-> i, text |-> t, reply |-> r]
Write(l, p, t) ==
    [patch |-> FALSE, layer |-> l, period |-> p,
     json |-> [layer |-> l, period_start |-> p, content |-> t]]
Patch(l, p, t) ==
    [patch |-> TRUE, layer |-> l, period |-> p, json |-> [content |-> t]]

MCMessages == { Message(None, ta, FALSE), Message(None, tb, TRUE), Message(2, tb, FALSE) }
MCSummaries ==
    { Write("short", 1, "a"), Write("short", 2, "a"), Patch("short", 1, "b"),
      Write("long", 1, "a"), Patch("long", latest, "b") }
MCGraph == { <<x, y>> }
MCRanges == { <<1, 2>>, <<2, 3>> }

ClientSymmetry == Permutations(Client)
===============================================================================
