----------------------------- MODULE MCSearchIndex -----------------------------
(***************************************************************************)
(* Small instances of SearchIndex: two tasks that are created, described   *)
(* anew, patched and discarded; anchors of one task that supersede others. *)
(***************************************************************************)
EXTENDS SearchIndex, TLC

CONSTANTS t1, t2, x, y, f, g

Create(t, d) == [op |-> "create", task |-> t, description |-> d]
Update(t, d) == [op |-> "update", task |-> t, description |-> d]
PatchOf(t, d) == [op |-> "patch", task |-> t, description |-> d]
Anchors(t, fs, us) == [op |-> "anchor", task |-> t, facts |-> fs, supersedes |-> us]

MCRequest ==
    { Create(t1, x), Create(t2, y), Update(t1, y), Update(t1, Empty), PatchOf(t1, None),
      Anchors(t1, f, << >>), Anchors(t1, g, << >>), Anchors(t2, f, <<<<t1, 1>>, <<t2, 1>>>>) }

ClientSymmetry == Permutations(Client)
===============================================================================
