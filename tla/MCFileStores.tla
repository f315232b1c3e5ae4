----------------------------- MODULE MCFileStores -----------------------------
(***************************************************************************)
(* Small instances of FileStores: a file of persona/short, a profile, two  *)
(* services and a tool.                                                    *)
(***************************************************************************)
EXTENDS FileStores, TLC

CONSTANTS short, profile, svc, other, tool, a, b

Given1(kind, fields, name) == [kind |-> kind, fields |-> fields, name |-> name]
Object(fields) == Given1("object", fields, None)
Text == Given1("text", {}, None)
Ask(op, f, doc) == [op |-> op, at |-> f, doc |-> doc]

MCRequest ==
    { Ask("append", short, Text), Ask("patch", short, Object({a})),
      Ask("patch", profile, Object({a})), Ask("write", profile, Object({a, b})),
      Ask("write", svc, Given1("compose", {}, other)), Ask("write", svc, Text),
      Ask("write", tool, Given1("schema", {}, None)) }

ClientSymmetry == Permutations(Client)
===============================================================================
