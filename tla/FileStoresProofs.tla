--------------------------- MODULE FileStoresProofs ---------------------------
(***************************************************************************)
(* Proofs about FileStores, for any number of callers, files, requests and *)
(* restarts.                                                               *)
(***************************************************************************)
EXTENDS FileStores, TLAPS

(* Helpers of the inductive invariant. *)

Active(c) == pc[c] # "idle"

\* Calls that are on one file at one time know of each other.
Apart ==
    \A c, d \in Client : Active(c) /\ Active(d) /\ c # d /\ FileOf(c) = FileOf(d)
                         => c \in disturbed

\* Content has what d says it must have.
Agrees(f, content, d) ==
    d # None =>
        /\ f \in Short => content.kind = d.kind /\ d.entries \subseteq content.entries
        /\ f \in Doc => \A x \in Field : d.set[x] # 0 => content.set[x] = d.set[x]
        /\ f \in Compose \cup Tool => content = d

\* Only objects have fields.
FieldsOfObjects(content) ==
    Whole(content) /\ content.kind # "object" => \A x \in Field : content.set[x] = 0

FileOK(f) ==
    /\ Whole(files[f]) => Agrees(f, files[f], due[f])
    /\ files[f] = None => due[f] = None
    /\ FieldsOfObjects(files[f])
    /\ f \notin Short /\ due[f] # None /\ ~Whole(files[f])
       => \E c \in Client : pc[c] = "fill" /\ FileOf(c) = f

DraftOK(c) ==
    /\ FieldsOfObjects(draft[c])
    /\ c \notin disturbed =>
         /\ pc[c] = "fill" => files[FileOf(c)] = Blank
         /\ pc[c] \in {"open", "fill"} =>
              /\ Agrees(FileOf(c), draft[c], Owed(c))
              /\ req[c].op = "append" => Agrees(FileOf(c), draft[c], due[FileOf(c)])

IInv ==
    /\ TypeOK
    /\ Apart
    /\ \A f \in File : FileOK(f)
    /\ \A c \in Client : DraftOK(c)

-------------------------------------------------------------------------------
(* Types. *)

LEMMA Distinct ==
    /\ None \notin Document /\ Blank \notin Document /\ Mixed \notin Document
    /\ None # Blank /\ None # Mixed /\ Blank # Mixed
    /\ None \notin Request /\ Request \subseteq AllRequests
    /\ None \notin Service
BY ConstantsOK

LEMMA RequestOK ==
    ASSUME NEW r \in Request
    PROVE  /\ r.at \in File /\ r.doc \in Given /\ r.op \in {"append", "patch", "write"}
           /\ r.op = "append" => r.at \in Short
           /\ r.op = "patch" => r.at \in Short \cup Doc
           /\ r.op = "write" => r.at \in Doc \cup Compose \cup Tool
           /\ r.doc.fields # {} => r.doc.kind = "object"
BY ConstantsOK DEF AllRequests, File

LEMMA Numbers == MaxCalls \in Nat /\ MaxRestarts \in Nat /\ Faults \in BOOLEAN
BY ConstantsOK

(* What the operators on documents return are documents. *)
LEMMA MadeType ==
    ASSUME NEW n \in Nr, NEW doc \in Given
    PROVE  Made(n, doc) \in Document
<1>1. doc.kind \in Kind /\ doc.name \in Service \cup {None}
  BY DEF Given
<1>2. [x \in Field |-> IF x \in doc.fields THEN n ELSE 0] \in [Field -> 0..MaxCalls]
  BY Numbers DEF Nr
<1> QED
  BY <1>1, <1>2 DEF Made, Document

LEMMA EntriesType ==
    ASSUME NEW S \in SUBSET Nr
    PROVE  Entries(S) \in Document
<1>1. [x \in Field |-> 0] \in [Field -> 0..MaxCalls]
  BY Numbers
<1>2. "array" \in Kind
  BY DEF Kind
<1> QED
  BY <1>1, <1>2 DEF Entries, Document

LEMMA PatchedType ==
    ASSUME NEW content \in Content, NEW n \in Nr, NEW doc \in Given
    PROVE  Patched(content, n, doc) \in Document
<1>1. CASE IsObject(content) /\ doc.kind = "object"
  <2>1. content \in Document
    BY <1>1 DEF IsObject, Whole, Content
  <2> DEFINE new == [x \in Field |-> IF x \in doc.fields THEN n ELSE content.set[x]]
  <2>2. new \in [Field -> 0..MaxCalls]
    BY <2>1, Numbers DEF Nr, Document
  <2>3. Patched(content, n, doc) = [content EXCEPT !.set = new]
    BY <1>1 DEF Patched
  <2>4. [content EXCEPT !.set = new] \in Document
    BY <2>1, <2>2 DEF Document
  <2> QED
    BY <2>3, <2>4
<1>2. CASE ~(IsObject(content) /\ doc.kind = "object")
  BY <1>2, MadeType DEF Patched
<1> QED
  BY <1>1, <1>2

LEMMA WholeIsDocument ==
    ASSUME NEW content \in Content
    PROVE  Whole(content) <=> content \in Document
BY Distinct DEF Whole, Content

LEMMA OwedType ==
    ASSUME TypeOK, NEW c \in Client, Active(c)
    PROVE  Owed(c) \in Document
<1>1. req[c] \in Request /\ nr[c] \in Nr
  BY Numbers, Distinct DEF TypeOK, CallOK, Active, Nr
<1>2. req[c].doc \in Given /\ FileOf(c) \in File
  BY <1>1, RequestOK DEF FileOf
<1> DEFINE before == due[FileOf(c)]
<1>3. before # None => before \in Document
  BY <1>2 DEF TypeOK
<1>4. CASE req[c].op = "append"
  <2> DEFINE S == IF before = None THEN {nr[c]} ELSE before.entries \cup {nr[c]}
  <2>1. S \in SUBSET Nr
    BY <1>1, <1>3 DEF Document
  <2>2. Owed(c) = Entries(S)
    BY <1>4 DEF Owed
  <2> QED
    BY <2>1, <2>2, EntriesType
<1>5. CASE req[c].op # "append"
  <2> DEFINE given == req[c].doc
             stays == req[c].op = "patch" /\ given.kind = "object" /\ before # None
             new == [x \in Field |-> IF x \in given.fields THEN nr[c]
                                     ELSE IF stays THEN before.set[x] ELSE 0]
  <2>1. new \in [Field -> 0..MaxCalls]
    BY <1>1, <1>3, Numbers DEF Nr, Document
  <2>2. given.kind \in Kind /\ given.name \in Service \cup {None}
    BY <1>2 DEF Given
  <2>3. Owed(c) = [kind |-> given.kind, entries |-> {}, name |-> given.name, set |-> new]
    BY <1>5 DEF Owed
  <2> QED
    BY <2>1, <2>2, <2>3 DEF Document
<1> QED
  BY <1>4, <1>5

\* The part of the type invariant about calls.
CallsTyped ==
    /\ pc \in [Client -> {"idle", "read", "open", "fill"}]
    /\ req \in [Client -> Request \cup {None}] /\ nr \in [Client -> 0..MaxCalls]
    /\ draft \in [Client -> Document \cup {None}] /\ gone \subseteq Client
    /\ disturbed \subseteq Client
    /\ \A c \in Client : CallOK(c)

\* The part about everything else.
StoresTyped ==
    /\ files \in [File -> Content]
    /\ registry \in [Service -> Entry \cup {None}]
    /\ tools \subseteq Tool /\ unread \subseteq Compose \cup Tool
    /\ calls \in 0..MaxCalls /\ restarts \in 0..MaxRestarts
    /\ due \in [File -> Document \cup {None}]

LEMMA TypeParts == TypeOK <=> CallsTyped /\ StoresTyped
BY DEF TypeOK, CallsTyped, StoresTyped

LEMMA OneCall ==
    ASSUME TypeOK, NEW c \in Client, Active(c)
    PROVE  /\ req[c] \in Request /\ nr[c] \in Nr /\ FileOf(c) \in File
           /\ req[c].doc \in Given
           /\ FileOf(c) \in File
           /\ pc[c] \in {"open", "fill"} => draft[c] \in Document
<1>1. req[c] \in Request /\ nr[c] \in Nr
  BY Numbers, Distinct DEF TypeOK, CallOK, Active, Nr
<1>2. pc[c] \in {"open", "fill"} => draft[c] \in Document
  BY DEF TypeOK, CallOK
<1> QED
  BY <1>1, <1>2, RequestOK DEF FileOf

(* A call that ends leaves nothing of itself. *)
LEMMA LeaveTyped ==
    ASSUME CallsTyped, NEW c \in Client, Leave(c), disturbed' = disturbed \ {c}
    PROVE  CallsTyped'
<1>1. pc' \in [Client -> {"idle", "read", "open", "fill"}]
  BY DEF CallsTyped, Leave, Goto
<1>2. req' \in [Client -> Request \cup {None}]
  BY DEF CallsTyped, Leave
<1>3. nr' \in [Client -> 0..MaxCalls]
  BY Numbers DEF CallsTyped, Leave
<1>4. draft' \in [Client -> Document \cup {None}]
  BY DEF CallsTyped, Leave
<1>5. gone' \subseteq Client /\ disturbed' \subseteq Client
  BY DEF CallsTyped, Leave
<1>6. ASSUME NEW d \in Client PROVE CallOK(d)'
  <2>1. CallOK(d)
    BY DEF CallsTyped
  <2>2. CASE d = c
    BY <2>2 DEF CallOK, Leave, Goto, CallsTyped
  <2>3. CASE d # c
    BY <2>1, <2>3 DEF CallOK, Leave, Goto, CallsTyped
  <2> QED
    BY <2>2, <2>3
<1> QED
  BY <1>1, <1>2, <1>3, <1>4, <1>5, <1>6 DEF CallsTyped

(* A call goes on: it is at "open" with a draft, and nothing else of it changes. *)
LEMMA DraftTyped ==
    ASSUME CallsTyped, NEW c \in Client, NEW doc \in Document,
           pc[c] = "read", Goto(c, "open"), draft' = [draft EXCEPT ![c] = doc],
           UNCHANGED <<req, nr, gone>>, disturbed' \subseteq disturbed \cup {c}
    PROVE  CallsTyped'
<1>1. pc' \in [Client -> {"idle", "read", "open", "fill"}]
  BY DEF CallsTyped, Goto
<1>2. draft' \in [Client -> Document \cup {None}]
  BY DEF CallsTyped
<1>3. ASSUME NEW d \in Client PROVE CallOK(d)'
  <2>1. CallOK(d)
    BY DEF CallsTyped
  <2>2. CASE d = c
    BY <2>1, <2>2, Distinct DEF CallOK, Goto, CallsTyped
  <2>3. CASE d # c
    BY <2>1, <2>3 DEF CallOK, Goto, CallsTyped
  <2> QED
    BY <2>2, <2>3
<1>4. /\ req' \in [Client -> Request \cup {None}] /\ nr' \in [Client -> 0..MaxCalls]
      /\ gone' \subseteq Client /\ disturbed' \subseteq Client
  BY DEF CallsTyped
<1> QED
  BY <1>1, <1>2, <1>3, <1>4 DEF CallsTyped

LEMMA BeginTyped ==
    ASSUME TypeOK, NEW c \in Client, Begin(c)
    PROVE  TypeOK'
<1>1. PICK r \in Request :
        /\ pc[c] = "idle" /\ calls < MaxCalls
        /\ calls' = calls + 1
        /\ req' = [req EXCEPT ![c] = r] /\ nr' = [nr EXCEPT ![c] = calls + 1]
        /\ disturbed' = IF Others(c, r.at) = {} THEN disturbed
                        ELSE disturbed \cup Others(c, r.at) \cup {c}
        /\ IF r.op = "write"
           THEN Goto(c, "open") /\ draft' = [draft EXCEPT ![c] = Made(calls + 1, r.doc)]
           ELSE Goto(c, "read") /\ UNCHANGED draft
        /\ UNCHANGED <<files, runtime, gone, restarts, due>>
  BY DEF Begin
<1>2. calls + 1 \in Nr
  BY <1>1, Numbers DEF TypeOK, Nr
<1>3. Made(calls + 1, r.doc) \in Document
  BY <1>2, RequestOK, MadeType
<1>4. StoresTyped'
  BY <1>1, <1>2 DEF TypeOK, StoresTyped, runtime, Nr
<1>5. pc' \in [Client -> {"idle", "read", "open", "fill"}]
  BY <1>1 DEF TypeOK, Goto
<1>6. req' \in [Client -> Request \cup {None}] /\ nr' \in [Client -> 0..MaxCalls]
  BY <1>1, <1>2 DEF TypeOK, Nr
<1>7. draft' \in [Client -> Document \cup {None}]
  BY <1>1, <1>3 DEF TypeOK
<1>8. gone' \subseteq Client /\ disturbed' \subseteq Client
  BY <1>1 DEF TypeOK, Others
<1>9. ASSUME NEW d \in Client PROVE CallOK(d)'
  <2>1. CallOK(d) /\ CallOK(c)
    BY DEF TypeOK
  <2>2. CASE d = c
    <3>1. req'[c] = r /\ r # None /\ nr'[c] = calls + 1 /\ calls + 1 # 0
      BY <1>1, <1>2, Distinct DEF TypeOK, Nr
    <3>2. c \notin gone'
      BY <1>1, <2>1 DEF CallOK
    <3>3. pc'[c] = IF r.op = "write" THEN "open" ELSE "read"
      BY <1>1 DEF TypeOK, Goto
    <3>4. draft'[c] = IF r.op = "write" THEN Made(calls + 1, r.doc) ELSE draft[c]
      BY <1>1 DEF TypeOK
    <3>5. draft[c] = None
      BY <1>1, <2>1 DEF CallOK, TypeOK
    <3> QED
      BY <2>2, <3>1, <3>2, <3>3, <3>4, <3>5, <1>3, Distinct DEF CallOK
  <2>3. CASE d # c
    <3>1. d \in disturbed' => d \in disturbed \/ pc[d] # "idle"
      BY <1>1, <2>3 DEF Others
    <3>2. /\ pc'[d] = pc[d] /\ req'[d] = req[d] /\ nr'[d] = nr[d] /\ draft'[d] = draft[d]
          /\ gone' = gone
      BY <1>1, <2>3 DEF Goto, TypeOK
    <3> QED
      BY <2>1, <3>1, <3>2 DEF CallOK
  <2> QED
    BY <2>2, <2>3
<1> QED
  BY <1>4, <1>5, <1>6, <1>7, <1>8, <1>9 DEF TypeOK, StoresTyped

LEMMA ReadAppendTyped ==
    ASSUME TypeOK, NEW c \in Client, ReadAppend(c)
    PROVE  TypeOK'
<1> DEFINE array == ArrayIn(files[FileOf(c)])
<1>1. Active(c) /\ pc[c] = "read"
  BY DEF ReadAppend, Active
<1>2. StoresTyped'
  BY DEF ReadAppend, runtime, TypeOK, StoresTyped
<1>3. CASE array = None
  <2>1. CallsTyped'
    BY <1>3, LeaveTyped, TypeParts DEF ReadAppend
  <2> QED
    BY <1>2, <2>1 DEF TypeOK, CallsTyped, StoresTyped
<1>4. CASE array # None
  <2>1. array \in SUBSET Nr
    <3>1. files[FileOf(c)] \in Content
      BY <1>1, OneCall DEF TypeOK
    <3>2. Whole(files[FileOf(c)]) => files[FileOf(c)].entries \in SUBSET Nr
      BY <3>1, WholeIsDocument DEF Document
    <3> QED
      BY <1>4, <3>2 DEF ArrayIn
  <2>2. array \cup {nr[c]} \in SUBSET Nr
    BY <2>1, <1>1, OneCall
  <2>3. Entries(array \cup {nr[c]}) \in Document
    BY <2>2, EntriesType
  <2>4. /\ draft' = [draft EXCEPT ![c] = Entries(array \cup {nr[c]})]
        /\ Goto(c, "open") /\ UNCHANGED <<req, nr, gone, disturbed>>
    BY <1>4 DEF ReadAppend
  <2>5. CallsTyped'
    BY <1>1, <2>3, <2>4, DraftTyped, TypeParts
  <2> QED
    BY <1>2, <2>5 DEF TypeOK, CallsTyped, StoresTyped
<1> QED
  BY <1>3, <1>4

LEMMA ReadPatchTyped ==
    ASSUME TypeOK, NEW c \in Client, ReadPatch(c)
    PROVE  TypeOK'
<1>1. Active(c) /\ pc[c] = "read"
  BY DEF ReadPatch, Active
<1>2. StoresTyped'
  BY DEF ReadPatch, runtime, TypeOK, StoresTyped
<1>3. /\ Made(nr[c], req[c].doc) \in Document
      /\ Patched(files[FileOf(c)], nr[c], req[c].doc) \in Document
  <2>1. /\ nr[c] \in Nr /\ req[c].doc \in Given /\ files[FileOf(c)] \in Content
    BY <1>1, OneCall DEF TypeOK
  <2> QED
    BY <2>1, MadeType, PatchedType
<1>4. Goto(c, "open") /\ UNCHANGED <<req, nr, gone>> /\ disturbed' \subseteq disturbed \cup {c}
  BY DEF ReadPatch
<1>5. PICK doc \in Document : draft' = [draft EXCEPT ![c] = doc]
  BY <1>3 DEF ReadPatch
<1>6. CallsTyped'
  BY <1>1, <1>4, <1>5, DraftTyped, TypeParts
<1> QED
  BY <1>2, <1>6 DEF TypeOK, CallsTyped, StoresTyped

LEMMA OpenTyped ==
    ASSUME TypeOK, NEW c \in Client, Open(c)
    PROVE  TypeOK'
<1>1. StoresTyped'
  <2>1. files' \in [File -> Content]
    BY DEF Open, TypeOK, Content
  <2> QED
    BY <2>1 DEF Open, runtime, TypeOK, StoresTyped
<1>2. ASSUME NEW d \in Client PROVE CallOK(d)'
  <2>1. CallOK(d) /\ CallOK(c)
    BY DEF TypeOK
  <2>2. CASE d = c
    BY <2>1, <2>2 DEF Open, Goto, CallOK, TypeOK
  <2>3. CASE d # c
    BY <2>1, <2>3 DEF Open, Goto, CallOK, TypeOK
  <2> QED
    BY <2>2, <2>3
<1>3. CallsTyped'
  <2>1. pc' \in [Client -> {"idle", "read", "open", "fill"}]
    BY DEF Open, Goto, TypeOK
  <2> QED
    BY <1>2, <2>1 DEF Open, TypeOK, CallsTyped
<1> QED
  BY <1>1, <1>3 DEF TypeOK, CallsTyped, StoresTyped

LEMMA FillTyped ==
    ASSUME TypeOK, NEW c \in Client, Fill(c)
    PROVE  TypeOK'
<1>1. Active(c) /\ pc[c] = "fill"
  BY DEF Fill, Active
<1>2. PICK content \in {draft[c], Mixed} : files' = [files EXCEPT ![FileOf(c)] = content]
  BY DEF Fill
<1>3. content \in Content
  BY <1>1, OneCall DEF Content
<1>4. files' \in [File -> Content]
  BY <1>2, <1>3 DEF TypeOK
<1>5. DueAfter(c) \in Document \cup {None}
  BY <1>1, OneCall, OwedType DEF DueAfter, TypeOK
<1>6. due' \in [File -> Document \cup {None}]
  BY <1>5 DEF Fill, TypeOK
<1>7. StoresTyped'
  BY <1>4, <1>6 DEF Fill, runtime, TypeOK, StoresTyped
<1>8. CallsTyped'
  BY LeaveTyped, TypeParts DEF Fill
<1> QED
  BY <1>7, <1>8 DEF TypeOK, CallsTyped, StoresTyped

LEMMA FailsTyped ==
    ASSUME TypeOK, NEW c \in Client, Fails(c)
    PROVE  TypeOK'
<1>1. Active(c)
  BY DEF Fails, Active
<1>2. FileOf(c) \in File
  BY <1>1, OneCall
<1>3. due' \in [File -> Document \cup {None}]
  BY <1>2 DEF Fails, DueIfCut, TypeOK
<1>4. StoresTyped'
  BY <1>3 DEF Fails, runtime, TypeOK, StoresTyped
<1>5. CallsTyped'
  BY LeaveTyped, TypeParts DEF Fails
<1> QED
  BY <1>4, <1>5 DEF TypeOK, CallsTyped, StoresTyped

LEMMA AbortTyped ==
    ASSUME TypeOK, NEW c \in Client, Abort(c)
    PROVE  TypeOK'
<1>1. StoresTyped'
  BY DEF Abort, runtime, TypeOK, StoresTyped
<1>2. CASE Leave(c) /\ disturbed' = disturbed \ {c}
  <2>1. CallsTyped'
    BY <1>2, LeaveTyped, TypeParts
  <2> QED
    BY <1>1, <2>1 DEF TypeOK, CallsTyped, StoresTyped
<1>3. CASE pc[c] \in {"open", "fill"} /\ gone' = gone \cup {c} /\ UNCHANGED <<pc, req, nr, draft, disturbed>>
  <2>1. ASSUME NEW d \in Client PROVE CallOK(d)'
    BY <1>3 DEF TypeOK, CallOK
  <2>2. CallsTyped'
    BY <1>3, <2>1 DEF TypeOK, CallsTyped
  <2> QED
    BY <1>1, <2>2 DEF TypeOK, CallsTyped, StoresTyped
<1> QED
  BY <1>2, <1>3 DEF Abort

LEMMA RegistryTyped ==
    ASSUME TypeOK, NEW s \in Service, Register(s) \/ Update(s)
    PROVE  TypeOK'
<1>1. CallsTyped'
  BY TypeParts DEF Register, Update, locals, CallsTyped, CallOK
<1>2. CASE Register(s)
  <2>1. calls + 1 \in 0..MaxCalls
    BY <1>2, Numbers DEF Register, TypeOK
  <2>2. registry' \in [Service -> Entry \cup {None}]
    BY <1>2, <2>1 DEF Register, TypeOK, Entry
  <2>3. StoresTyped'
    BY <1>2, <2>1, <2>2 DEF Register, TypeOK, StoresTyped
  <2> QED
    BY <1>1, <2>3 DEF TypeOK, CallsTyped, StoresTyped
<1>3. CASE Update(s)
  <2>1. PICK status \in {"running", "stopped"} : registry' = [registry EXCEPT ![s].status = status]
    BY <1>3 DEF Update
  <2>2. [registry[s] EXCEPT !.status = status] \in Entry
    BY <1>3 DEF Update, TypeOK, Entry
  <2>3. registry' \in [Service -> Entry \cup {None}]
    BY <2>1, <2>2 DEF TypeOK
  <2>4. StoresTyped'
    BY <1>3, <2>3 DEF Update, TypeOK, StoresTyped
  <2> QED
    BY <1>1, <2>4 DEF TypeOK, CallsTyped, StoresTyped
<1> QED
  BY <1>2, <1>3

LEMMA RestartTyped ==
    ASSUME TypeOK, Restart
    PROVE  TypeOK'
<1>1. registry' \in [Service -> Entry \cup {None}]
  <2>1. Stopped \in Entry
    BY Numbers DEF Stopped, Entry
  <2>2. PICK as \in [Compose -> Service \cup {None}] :
          registry' = [s \in Service |-> IF \E d \in Compose : as[d] = s THEN Stopped ELSE None]
    BY DEF Restart, RestoreServices
  <2> QED
    BY <2>1, <2>2
<1>2. tools' \subseteq Tool /\ unread' \subseteq Compose \cup Tool
  BY DEF Restart, RestoreTools
<1>3. due' \in [File -> Document \cup {None}]
  BY DEF Restart, DueIfCut, TypeOK
<1>4. restarts' \in 0..MaxRestarts
  BY Numbers DEF Restart, TypeOK
<1>5. StoresTyped'
  BY <1>1, <1>2, <1>3, <1>4 DEF Restart, TypeOK, StoresTyped
<1>6. CallsTyped'
  BY Numbers DEF Restart, CallsTyped, CallOK
<1> QED
  BY <1>5, <1>6 DEF TypeOK, CallsTyped, StoresTyped

LEMMA InitTyped ==
    ASSUME Init
    PROVE  TypeOK
<1>1. CallsTyped
  BY Numbers DEF Init, CallsTyped, CallOK
<1>2. StoresTyped
  BY Numbers DEF Init, StoresTyped, Content
<1> QED
  BY <1>1, <1>2 DEF TypeOK, CallsTyped, StoresTyped

LEMMA StutterTyped ==
    ASSUME TypeOK, UNCHANGED vars
    PROVE  TypeOK'
<1>1. CallsTyped'
  BY TypeParts DEF vars, locals, CallsTyped, CallOK
<1>2. StoresTyped'
  BY TypeParts DEF vars, runtime, StoresTyped
<1> QED
  BY <1>1, <1>2 DEF TypeOK, CallsTyped, StoresTyped

LEMMA NextTyped ==
    ASSUME TypeOK, [Next]_vars
    PROVE  TypeOK'
<1>1. CASE Restart
  BY <1>1, RestartTyped
<1>2. CASE \E s \in Service : Register(s) \/ Update(s)
  BY <1>2, RegistryTyped
<1>3. ASSUME NEW c \in Client, Step(c) PROVE TypeOK'
  BY <1>3, BeginTyped, ReadAppendTyped, ReadPatchTyped, OpenTyped, FillTyped, FailsTyped,
     AbortTyped DEF Step
<1>4. CASE UNCHANGED vars
  BY <1>4, StutterTyped
<1> QED
  BY <1>1, <1>2, <1>3, <1>4 DEF Next

(* Whatever calls are made on however many files: variables have their     *)
(* types, and a call has a draft and a number while it is under way only.  *)
THEOREM TypeCorrect == Spec => []TypeOK
<1>1. Init => TypeOK
  BY InitTyped
<1>2. TypeOK /\ [Next]_vars => TypeOK'
  BY NextTyped
<1> QED
  BY <1>1, <1>2, PTL DEF Spec

-------------------------------------------------------------------------------
(* What is due is kept. *)

\* A step of c that touches the file f only.
OnlyAt(c, f) ==
    /\ \A d \in Client \ {c} : /\ pc'[d] = pc[d] /\ req'[d] = req[d] /\ nr'[d] = nr[d]
                               /\ draft'[d] = draft[d]
                               /\ d \in disturbed => d \in disturbed'
    /\ \A g \in File \ {f} : files'[g] = files[g] /\ due'[g] = due[g]
    /\ Active(c) => FileOf(c) = f
    /\ \A d \in Client \ {c} : Active(d) /\ FileOf(d) = f => d \in disturbed'
    /\ pc'[c] # "idle" =>
         /\ req'[c].at = f
         /\ (\E d \in Client \ {c} : Active(d) /\ FileOf(d) = f) => c \in disturbed'

(* Calls on other files, other files, and calls that know of c do not      *)
(* notice such a step.                                                     *)
LEMMA Elsewhere ==
    ASSUME IInv, NEW c \in Client, NEW f \in File, OnlyAt(c, f)
    PROVE  /\ Apart'
           /\ \A g \in File \ {f} : FileOK(g)'
           /\ \A d \in Client \ {c} : DraftOK(d)'
<1>1. ASSUME NEW d \in Client, NEW e \in Client, Active(d)', Active(e)', d # e,
             (FileOf(d) = FileOf(e))'
      PROVE  d \in disturbed'
  <2>1. CASE d = c
    <3>1. pc[e] # "idle" /\ req[e].at = f
      BY <1>1, <2>1 DEF OnlyAt, Active, FileOf
    <3> QED
      BY <1>1, <2>1, <3>1 DEF OnlyAt, Active, FileOf
  <2>2. CASE d # c /\ e = c
    <3>1. pc[d] # "idle" /\ req[d].at = f
      BY <1>1, <2>2 DEF OnlyAt, Active, FileOf
    <3> QED
      BY <2>2, <3>1 DEF OnlyAt, Active, FileOf
  <2>3. CASE d # c /\ e # c
    <3>1. Active(d) /\ Active(e) /\ FileOf(d) = FileOf(e)
      BY <1>1, <2>3 DEF OnlyAt, Active, FileOf
    <3> QED
      BY <1>1, <2>3, <3>1 DEF IInv, Apart, OnlyAt
  <2> QED
    BY <2>1, <2>2, <2>3
<1>2. ASSUME NEW g \in File \ {f} PROVE FileOK(g)'
  <2>1. files'[g] = files[g] /\ due'[g] = due[g] /\ FileOK(g)
    BY DEF OnlyAt, IInv
  <2>2. ASSUME NEW d \in Client, pc[d] = "fill", FileOf(d) = g
        PROVE  pc'[d] = "fill" /\ req'[d].at = g
    BY <2>2 DEF OnlyAt, FileOf, Active
  <2> QED
    BY <2>1, <2>2 DEF FileOK, FieldsOfObjects, Agrees, Whole, FileOf
<1>3. ASSUME NEW d \in Client \ {c} PROVE DraftOK(d)'
  <2>1. /\ pc'[d] = pc[d] /\ req'[d] = req[d] /\ nr'[d] = nr[d] /\ draft'[d] = draft[d]
        /\ d \in disturbed => d \in disturbed'
    BY DEF OnlyAt
  <2>2. DraftOK(d)
    BY DEF IInv
  <2>3. CASE pc[d] = "idle" \/ d \in disturbed'
    BY <2>1, <2>2, <2>3 DEF DraftOK, FieldsOfObjects, Whole
  <2>4. CASE pc[d] # "idle" /\ d \notin disturbed'
    <3>1. FileOf(d) \in File \ {f}
      BY <2>4, OneCall DEF OnlyAt, Active, IInv
    <3>2. /\ files'[FileOf(d)] = files[FileOf(d)] /\ due'[FileOf(d)] = due[FileOf(d)]
          /\ FileOf(d)' = FileOf(d)
      BY <2>1, <3>1 DEF OnlyAt, FileOf
    <3>3. Owed(d)' = Owed(d)
      BY <2>1, <3>2 DEF Owed
    <3> QED
      BY <2>1, <2>2, <2>4, <3>2, <3>3 DEF DraftOK, FieldsOfObjects, Agrees, Whole
  <2> QED
    BY <2>3, <2>4
<1> QED
  BY <1>1, <1>2, <1>3 DEF Apart

(* A call that is under way and changes nothing of others is such a step. *)
LEMMA StepsOnlyAt ==
    ASSUME IInv, NEW c \in Client, Active(c),
           \A d \in Client \ {c} : /\ pc'[d] = pc[d] /\ req'[d] = req[d] /\ nr'[d] = nr[d]
                                   /\ draft'[d] = draft[d]
                                   /\ d \in disturbed => d \in disturbed',
           \A g \in File \ {FileOf(c)} : files'[g] = files[g] /\ due'[g] = due[g],
           pc'[c] # "idle" => req'[c] = req[c] /\ (c \in disturbed => c \in disturbed')
    PROVE  OnlyAt(c, FileOf(c))
<1>1. ASSUME NEW d \in Client \ {c}, Active(d), FileOf(d) = FileOf(c)
      PROVE  d \in disturbed /\ c \in disturbed
  BY <1>1 DEF IInv, Apart
<1> QED
  BY <1>1 DEF OnlyAt, FileOf, Active

LEMMA Together ==
    ASSUME IInv, TypeOK', NEW c \in Client, NEW f \in File, OnlyAt(c, f),
           FileOK(f)', DraftOK(c)'
    PROVE  IInv'
<1>1. Apart' /\ (\A g \in File \ {f} : FileOK(g)') /\ (\A d \in Client \ {c} : DraftOK(d)')
  BY Elsewhere
<1>2. (\A g \in File : FileOK(g)') /\ (\A d \in Client : DraftOK(d)')
  BY <1>1
<1> QED
  BY <1>1, <1>2 DEF IInv

\* A call that ended has nothing to keep.
LEMMA IdleOK ==
    ASSUME TypeOK', NEW c \in Client, pc'[c] = "idle"
    PROVE  DraftOK(c)'
<1>1. draft'[c] = None
  <2>1. CallOK(c)'
    BY DEF TypeOK
  <2> QED
    BY <2>1 DEF CallOK
<1> QED
  BY <1>1 DEF DraftOK, FieldsOfObjects, Whole

\* A file that nobody touches, and that nobody at "fill" leaves.
LEMMA SameFile ==
    ASSUME IInv, NEW f \in File, NEW c \in Client, pc[c] # "fill",
           files'[f] = files[f], due'[f] = due[f],
           \A d \in Client \ {c} : pc'[d] = pc[d] /\ req'[d] = req[d]
    PROVE  FileOK(f)'
<1>1. FileOK(f)
  BY DEF IInv
<1>2. ASSUME NEW d \in Client, pc[d] = "fill", FileOf(d) = f
      PROVE  pc'[d] = "fill" /\ req'[d].at = f
  BY <1>2 DEF FileOf
<1> QED
  BY <1>1, <1>2 DEF FileOK, FieldsOfObjects, Agrees, Whole, FileOf

LEMMA BeginOK ==
    ASSUME IInv, NEW c \in Client, Begin(c)
    PROVE  IInv'
<1>1. TypeOK /\ TypeOK'
  BY BeginTyped DEF IInv
<1>2. PICK r \in Request :
        /\ pc[c] = "idle" /\ calls < MaxCalls
        /\ calls' = calls + 1
        /\ req' = [req EXCEPT ![c] = r] /\ nr' = [nr EXCEPT ![c] = calls + 1]
        /\ disturbed' = IF Others(c, r.at) = {} THEN disturbed
                        ELSE disturbed \cup Others(c, r.at) \cup {c}
        /\ IF r.op = "write"
           THEN Goto(c, "open") /\ draft' = [draft EXCEPT ![c] = Made(calls + 1, r.doc)]
           ELSE Goto(c, "read") /\ UNCHANGED draft
        /\ UNCHANGED <<files, runtime, gone, restarts, due>>
  BY DEF Begin
<1>3. r.at \in File
  BY RequestOK
<1>4. /\ req'[c] = r /\ nr'[c] = calls + 1
      /\ pc'[c] = IF r.op = "write" THEN "open" ELSE "read"
      /\ draft'[c] = IF r.op = "write" THEN Made(calls + 1, r.doc) ELSE draft[c]
  BY <1>1, <1>2 DEF TypeOK, Goto
<1>5. OnlyAt(c, r.at)
  <2>1. ASSUME NEW d \in Client \ {c}
        PROVE  /\ pc'[d] = pc[d] /\ req'[d] = req[d] /\ nr'[d] = nr[d] /\ draft'[d] = draft[d]
               /\ d \in disturbed => d \in disturbed'
    BY <1>1, <1>2 DEF TypeOK, Goto
  <2>2. ASSUME NEW d \in Client \ {c}, Active(d), FileOf(d) = r.at
        PROVE  d \in disturbed' /\ c \in disturbed'
    <3>1. d \in Others(c, r.at)
      BY <2>2 DEF Others, Active
    <3> QED
      BY <1>2, <3>1
  <2> QED
    BY <1>2, <1>4, <2>1, <2>2 DEF OnlyAt, Active
<1>6. FileOK(r.at)'
  BY <1>2, <1>3, <1>5, SameFile DEF OnlyAt
<1>7. DraftOK(c)'
  <2>1. CASE r.op # "write"
    <3>1. draft[c] = None
      BY <1>1, <1>2 DEF TypeOK, CallOK
    <3> QED
      BY <2>1, <3>1, <1>4 DEF DraftOK, FieldsOfObjects, Whole
  <2>2. CASE r.op = "write"
    <3>1. r.at \notin Short /\ r.doc \in Given /\ (r.doc.fields # {} => r.doc.kind = "object")
      BY <2>2, RequestOK, ConstantsOK
    <3>2. Owed(c)' = Made(calls + 1, r.doc)
      BY <1>4, <2>2 DEF Owed, Made, FileOf
    <3>3. FieldsOfObjects(Made(calls + 1, r.doc))
      BY <3>1 DEF FieldsOfObjects, Made
    <3>4. FileOf(c)' = r.at
      BY <1>4 DEF FileOf
    <3>5. Agrees(r.at, draft'[c], Owed(c)')
      BY <1>4, <2>2, <3>1, <3>2 DEF Agrees
    <3>6. pc'[c] = "open" /\ req'[c].op = "write" /\ draft'[c] = Made(calls + 1, r.doc)
      BY <1>4, <2>2
    <3> QED
      BY <3>3, <3>4, <3>5, <3>6 DEF DraftOK, Agrees, FieldsOfObjects
  <2> QED
    BY <2>1, <2>2
<1> QED
  BY <1>1, <1>3, <1>5, <1>6, <1>7, Together

LEMMA LeaveOnlyAt ==
    ASSUME IInv, NEW c \in Client, Active(c), Leave(c), disturbed' = disturbed \ {c},
           \A g \in File \ {FileOf(c)} : files'[g] = files[g] /\ due'[g] = due[g]
    PROVE  OnlyAt(c, FileOf(c)) /\ pc'[c] = "idle"
<1>1. /\ pc'[c] = "idle"
      /\ \A d \in Client \ {c} : /\ pc'[d] = pc[d] /\ req'[d] = req[d] /\ nr'[d] = nr[d]
                                 /\ draft'[d] = draft[d]
                                 /\ d \in disturbed => d \in disturbed'
  BY DEF Leave, Goto, IInv, TypeOK
<1> QED
  BY <1>1, StepsOnlyAt

(* The file of c stays as it is, and c ends. *)
LEMMA LeaveSameOK ==
    ASSUME IInv, TypeOK', NEW c \in Client, Active(c), pc[c] # "fill",
           Leave(c), disturbed' = disturbed \ {c}, UNCHANGED <<files, due>>
    PROVE  IInv'
<1>1. PICK f \in File : f = FileOf(c)
  BY OneCall DEF IInv
<1>2. OnlyAt(c, f) /\ pc'[c] = "idle"
  BY <1>1, LeaveOnlyAt
<1>3. FileOK(f)'
  BY <1>2, SameFile DEF OnlyAt
<1> QED
  BY <1>2, <1>3, IdleOK, Together

(* A draft of what was read has what is owed. *)
LEMMA DraftedOK ==
    ASSUME IInv, TypeOK', NEW c \in Client, NEW doc \in Document,
           pc[c] = "read", Goto(c, "open"), draft' = [draft EXCEPT ![c] = doc],
           UNCHANGED <<req, nr, files, due>>,
           disturbed \subseteq disturbed', disturbed' \subseteq disturbed \cup {c},
           FieldsOfObjects(doc),
           c \notin disturbed' => Agrees(FileOf(c), doc, Owed(c)),
           c \notin disturbed' /\ req[c].op = "append" => Agrees(FileOf(c), doc, due[FileOf(c)])
    PROVE  IInv'
<1>1. PICK f \in File : f = FileOf(c)
  BY OneCall DEF IInv, Active
<1>2. pc'[c] = "open" /\ draft'[c] = doc
  BY DEF IInv, TypeOK, Goto
<1>3. OnlyAt(c, f)
  <2>1. \A d \in Client \ {c} : pc'[d] = pc[d] /\ draft'[d] = draft[d]
    BY DEF Goto, IInv, TypeOK
  <2> QED
    BY <1>1, <2>1, StepsOnlyAt DEF Active
<1>4. FileOK(f)'
  BY <1>3, SameFile DEF OnlyAt
<1>5. FileOf(c)' = FileOf(c) /\ Owed(c)' = Owed(c) /\ due'[FileOf(c)] = due[FileOf(c)]
  BY DEF FileOf, Owed
<1>6. DraftOK(c)'
  BY <1>2, <1>5 DEF DraftOK, Agrees, FieldsOfObjects, Whole
<1> QED
  BY <1>3, <1>4, <1>6, Together

LEMMA ReadAppendOK ==
    ASSUME IInv, NEW c \in Client, ReadAppend(c)
    PROVE  IInv'
<1> DEFINE f == FileOf(c)
           array == ArrayIn(files[f])
<1>1. TypeOK /\ TypeOK'
  BY ReadAppendTyped DEF IInv
<1>2. Active(c) /\ pc[c] = "read" /\ req[c].op = "append" /\ UNCHANGED <<files, due>>
  BY DEF ReadAppend, Active
<1>3. CASE array = None
  BY <1>1, <1>2, <1>3, LeaveSameOK DEF ReadAppend
<1>4. CASE array # None
  <2> DEFINE doc == Entries(array \cup {nr[c]})
  <2>1. /\ draft' = [draft EXCEPT ![c] = doc]
        /\ Goto(c, "open") /\ UNCHANGED <<req, nr, gone, disturbed>>
    BY <1>4 DEF ReadAppend
  <2>2. f \in Short /\ f \in File /\ f \notin Doc /\ f \notin Compose \cup Tool
    BY <1>1, <1>2, OneCall, RequestOK, ConstantsOK DEF FileOf
  <2>3. files[f] \in Content /\ FileOK(f)
    BY <1>1, <2>2 DEF TypeOK, IInv
  <2>4. array \in SUBSET Nr
    BY <1>4, <2>3, WholeIsDocument DEF ArrayIn, Document
  <2>5. doc \in Document
    BY <1>1, <1>2, <2>4, OneCall, EntriesType
  <2>6. doc.kind = "array" /\ doc.entries = array \cup {nr[c]} /\ FieldsOfObjects(doc)
    BY DEF Entries, FieldsOfObjects
  <2>7. due[f] # None => Whole(files[f]) /\ files[f].kind = "array" /\ array = files[f].entries
    BY <1>4, <2>3 DEF FileOK, ArrayIn
  <2>8. due[f] # None => due[f].kind = "array" /\ due[f].entries \subseteq array
    BY <2>2, <2>3, <2>7 DEF FileOK, Agrees
  <2>9. Agrees(f, doc, due[f])
    BY <2>2, <2>6, <2>8 DEF Agrees
  <2>10. Owed(c) = Entries(IF due[f] = None THEN {nr[c]} ELSE due[f].entries \cup {nr[c]})
    BY <1>2 DEF Owed
  <2>11. Owed(c).kind = "array" /\ Owed(c).entries \subseteq array \cup {nr[c]}
    BY <2>8, <2>10 DEF Entries
  <2>12. Agrees(f, doc, Owed(c))
    BY <2>2, <2>6, <2>11 DEF Agrees
  <2> QED
    BY <1>1, <1>2, <2>1, <2>5, <2>6, <2>9, <2>12, DraftedOK
<1> QED
  BY <1>3, <1>4

LEMMA ReadPatchOK ==
    ASSUME IInv, NEW c \in Client, ReadPatch(c)
    PROVE  IInv'
<1> DEFINE f == FileOf(c)
           given == req[c].doc
           n == nr[c]
<1>1. TypeOK /\ TypeOK'
  BY ReadPatchTyped DEF IInv
<1>2. /\ Active(c) /\ pc[c] = "read" /\ req[c].op = "patch" /\ UNCHANGED <<files, due>>
      /\ Goto(c, "open") /\ UNCHANGED <<req, nr>>
      /\ disturbed \subseteq disturbed' /\ disturbed' \subseteq disturbed \cup {c}
  BY DEF ReadPatch, Active
<1>3. /\ f \in Short \cup Doc /\ f \in File /\ f \notin Compose \cup Tool
      /\ f \in Doc => f \notin Short
      /\ given.fields # {} => given.kind = "object"
  BY <1>1, <1>2, OneCall, RequestOK, ConstantsOK DEF FileOf
<1>4. files[f] \in Content /\ FileOK(f) /\ n \in Nr /\ given \in Given
  BY <1>1, <1>2, <1>3, OneCall DEF TypeOK, IInv
<1>5. Made(n, given) \in Document /\ FieldsOfObjects(Made(n, given))
  BY <1>3, <1>4, MadeType DEF FieldsOfObjects, Made
<1>6. CASE draft' = [draft EXCEPT ![c] = Made(n, given)] /\ disturbed' = disturbed \cup {c}
  BY <1>1, <1>2, <1>5, <1>6, DraftedOK
<1>7. CASE draft' = [draft EXCEPT ![c] = Patched(files[f], n, given)] /\ UNCHANGED disturbed
  <2> DEFINE doc == Patched(files[f], n, given)
  <2>1. doc \in Document
    BY <1>4, PatchedType
  <2>2. IsObject(files[f]) /\ given.kind = "object" => doc.kind = "object"
    <3>1. ASSUME IsObject(files[f]), given.kind = "object" PROVE doc.kind = "object"
      <4>1. files[f] \in Document /\ files[f].kind = "object"
        BY <1>4, <3>1, WholeIsDocument DEF IsObject
      <4>2. doc = [files[f] EXCEPT !.set = [x \in Field |-> IF x \in given.fields THEN n ELSE @[x]]]
        BY <3>1 DEF Patched
      <4> QED
        BY <4>1, <4>2 DEF Document
    <3> QED
      BY <3>1
  <2>3. ~(IsObject(files[f]) /\ given.kind = "object") => doc = Made(n, given)
    BY DEF Patched
  <2>4. FieldsOfObjects(doc)
    BY <1>5, <2>2, <2>3 DEF FieldsOfObjects
  <2>5. doc.kind = given.kind
    BY <2>2, <2>3 DEF Made
  <2>6. Owed(c).kind = given.kind /\ Owed(c).entries = {}
    BY <1>2 DEF Owed
  <2>7. ASSUME NEW x \in Field
        PROVE  /\ x \in given.fields => doc.set[x] = n
               /\ x \notin given.fields => doc.set[x] = IF IsObject(files[f]) /\ given.kind = "object"
                                                        THEN files[f].set[x] ELSE 0
    <3>1. CASE IsObject(files[f]) /\ given.kind = "object"
      <4>1. files[f] \in Document
        BY <1>4, <3>1, WholeIsDocument DEF IsObject
      <4>2. doc = [files[f] EXCEPT !.set = [y \in Field |-> IF y \in given.fields THEN n ELSE @[y]]]
        BY <3>1 DEF Patched
      <4> QED
        BY <3>1, <4>1, <4>2 DEF Document
    <3>2. CASE ~(IsObject(files[f]) /\ given.kind = "object")
      BY <2>3, <3>2 DEF Made
    <3> QED
      BY <3>1, <3>2
  <2>8. ASSUME NEW x \in Field
        PROVE  Owed(c).set[x] = IF x \in given.fields THEN n
                               ELSE IF given.kind = "object" /\ due[f] # None
                               THEN due[f].set[x] ELSE 0
    BY <1>2 DEF Owed
  <2>9. ASSUME NEW x \in Field, c \notin disturbed, f \in Doc, Owed(c).set[x] # 0
        PROVE  doc.set[x] = Owed(c).set[x]
    <3>1. CASE x \in given.fields
      BY <2>7, <2>8, <3>1
    <3>2. CASE x \notin given.fields
      <4>1. given.kind = "object" /\ due[f] # None /\ due[f].set[x] # 0
        BY <2>8, <2>9, <3>2
      <4>2. Whole(files[f])
        <5>1. ASSUME NEW d \in Client, pc[d] = "fill", FileOf(d) = f PROVE FALSE
          <6>1. d # c /\ Active(d) /\ Active(c)
            BY <1>2, <5>1 DEF Active
          <6> QED
            BY <2>9, <5>1, <6>1 DEF IInv, Apart
        <5> QED
          BY <1>3, <1>4, <2>9, <4>1, <5>1 DEF FileOK
      <4>3. files[f].set[x] = due[f].set[x]
        BY <1>4, <2>9, <4>1, <4>2 DEF FileOK, Agrees
      <4>4. IsObject(files[f])
        BY <1>4, <4>1, <4>2, <4>3 DEF FileOK, FieldsOfObjects, IsObject
      <4> QED
        BY <2>7, <2>8, <3>2, <4>1, <4>3, <4>4
    <3> QED
      BY <3>1, <3>2
  <2>10. c \notin disturbed => Agrees(f, doc, Owed(c))
    BY <1>3, <2>5, <2>6, <2>9 DEF Agrees
  <2> QED
    BY <1>1, <1>2, <1>7, <2>1, <2>4, <2>10, DraftedOK
<1> QED
  BY <1>6, <1>7 DEF ReadPatch

LEMMA OpenOK ==
    ASSUME IInv, NEW c \in Client, Open(c)
    PROVE  IInv'
<1>1. TypeOK /\ TypeOK' /\ Active(c) /\ pc[c] = "open"
  BY OpenTyped DEF IInv, Open, Active
<1>2. PICK f \in File : f = FileOf(c)
  BY <1>1, OneCall
<1>3. /\ pc'[c] = "fill" /\ files'[f] = Blank /\ FileOf(c)' = f
      /\ UNCHANGED <<req, nr, draft, due, disturbed>>
      /\ \A g \in File \ {f} : files'[g] = files[g]
      /\ \A d \in Client \ {c} : pc'[d] = pc[d]
  BY <1>1, <1>2 DEF Open, Goto, TypeOK, FileOf
<1>4. OnlyAt(c, f)
  BY <1>1, <1>2, <1>3, StepsOnlyAt
<1>5. FileOK(f)'
  BY <1>3, Distinct DEF FileOK, FieldsOfObjects, Whole, FileOf
<1>6. DraftOK(c)'
  <2>1. DraftOK(c)
    BY DEF IInv
  <2>2. Owed(c)' = Owed(c)
    BY <1>3 DEF Owed, FileOf
  <2> QED
    BY <1>1, <1>2, <1>3, <2>1, <2>2 DEF DraftOK, Agrees, FieldsOfObjects, Whole
<1> QED
  BY <1>1, <1>4, <1>5, <1>6, Together

LEMMA FillOK ==
    ASSUME IInv, NEW c \in Client, Fill(c)
    PROVE  IInv'
<1>1. TypeOK /\ TypeOK' /\ Active(c) /\ pc[c] = "fill" /\ Leave(c) /\ disturbed' = disturbed \ {c}
  BY FillTyped DEF IInv, Fill, Active
<1>2. PICK f \in File : f = FileOf(c)
  BY <1>1, OneCall
<1>3. PICK content \in {draft[c], Mixed} :
        /\ content = Mixed => files[f] \notin {Blank, draft[c]}
        /\ files' = [files EXCEPT ![f] = content]
  BY <1>2 DEF Fill
<1>4. /\ files'[f] = content /\ due'[f] = DueAfter(c)
      /\ \A g \in File \ {f} : files'[g] = files[g] /\ due'[g] = due[g]
  BY <1>1, <1>2, <1>3 DEF Fill, TypeOK
<1>5. OnlyAt(c, f) /\ pc'[c] = "idle"
  BY <1>1, <1>2, <1>4, LeaveOnlyAt
<1>6. DraftOK(c) /\ draft[c] \in Document /\ Whole(draft[c])
  BY <1>1, OneCall, WholeIsDocument DEF IInv, Content
<1>7. content # None /\ FieldsOfObjects(content)
  BY <1>3, <1>6, Distinct DEF DraftOK, FieldsOfObjects, Whole
<1>8. FileOK(f)'
  <2>1. CASE DueAfter(c) = None
    BY <1>4, <1>7, <2>1 DEF FileOK, Agrees, FieldsOfObjects, Whole
  <2>2. CASE DueAfter(c) # None
    <3>1. c \notin disturbed
      BY <2>2 DEF DueAfter
    <3>2. files[f] = Blank
      BY <1>1, <1>2, <1>6, <3>1 DEF DraftOK
    <3>3. content = draft[c]
      BY <1>3, <3>2
    <3>4. Agrees(f, draft[c], DueAfter(c))
      BY <1>1, <1>2, <1>6, <2>2, <3>1 DEF DraftOK, DueAfter
    <3> QED
      BY <1>4, <1>6, <1>7, <3>3, <3>4 DEF FileOK, Agrees, FieldsOfObjects, Whole
  <2> QED
    BY <2>1, <2>2
<1> QED
  BY <1>1, <1>5, <1>8, IdleOK, Together

LEMMA FailsOK ==
    ASSUME IInv, NEW c \in Client, Fails(c)
    PROVE  IInv'
<1>1. /\ TypeOK /\ TypeOK' /\ Active(c) /\ Leave(c) /\ disturbed' = disturbed \ {c}
      /\ UNCHANGED files
  BY FailsTyped DEF IInv, Fails, Active
<1>2. CASE pc[c] # "fill"
  <2>1. UNCHANGED due
    BY <1>2 DEF Fails
  <2> QED
    BY <1>1, <1>2, <2>1, LeaveSameOK
<1>3. CASE pc[c] = "fill"
  <2>1. PICK f \in File : f = FileOf(c)
    BY <1>1, OneCall
  <2>2. /\ due'[f] = DueIfCut(f)
        /\ \A g \in File \ {f} : files'[g] = files[g] /\ due'[g] = due[g]
    BY <1>1, <1>3, <2>1 DEF Fails, TypeOK
  <2>3. OnlyAt(c, f) /\ pc'[c] = "idle"
    BY <1>1, <2>1, <2>2, LeaveOnlyAt
  <2>4. FileOK(f)'
    <3>1. FileOK(f)
      BY DEF IInv
    <3> QED
      BY <1>1, <2>2, <3>1 DEF FileOK, DueIfCut, Agrees, FieldsOfObjects, Whole
  <2> QED
    BY <1>1, <2>3, <2>4, IdleOK, Together
<1> QED
  BY <1>2, <1>3

(* What a step leaves as it is, the invariant leaves as it is. *)
LEMMA SameOK ==
    ASSUME IInv, TypeOK', UNCHANGED <<files, due, pc, req, nr, draft, disturbed>>
    PROVE  IInv'
<1>1. Apart'
  BY DEF IInv, Apart, Active, FileOf
<1>2. ASSUME NEW f \in File PROVE FileOK(f)'
  BY DEF IInv, FileOK, FieldsOfObjects, Agrees, Whole, FileOf
<1>3. ASSUME NEW c \in Client PROVE DraftOK(c)'
  <2>1. DraftOK(c)
    BY DEF IInv
  <2>2. Owed(c)' = Owed(c) /\ FileOf(c)' = FileOf(c)
    BY DEF Owed, FileOf
  <2> QED
    BY <2>1, <2>2 DEF DraftOK, FieldsOfObjects, Agrees, Whole
<1> QED
  BY <1>1, <1>2, <1>3 DEF IInv

LEMMA AbortOK ==
    ASSUME IInv, NEW c \in Client, Abort(c)
    PROVE  IInv'
<1>1. TypeOK' /\ UNCHANGED <<files, due>>
  BY AbortTyped DEF IInv, Abort
<1>2. CASE pc[c] \in {"read", "open"} /\ Leave(c) /\ disturbed' = disturbed \ {c}
  BY <1>1, <1>2, LeaveSameOK DEF Active
<1>3. CASE UNCHANGED <<pc, req, nr, draft, disturbed>>
  BY <1>1, <1>3, SameOK
<1> QED
  BY <1>2, <1>3 DEF Abort

LEMMA RestartOK ==
    ASSUME IInv, Restart
    PROVE  IInv'
<1>1. TypeOK'
  BY RestartTyped DEF IInv
<1>2. /\ UNCHANGED files /\ \A c \in Client : pc'[c] = "idle"
      /\ \A f \in File : due'[f] = IF \E c \in Client : pc[c] = "fill" /\ FileOf(c) = f
                                    THEN DueIfCut(f) ELSE due[f]
  BY DEF Restart
<1>3. ASSUME NEW f \in File PROVE FileOK(f)'
  <2>1. FileOK(f)
    BY DEF IInv
  <2> QED
    BY <1>2, <2>1 DEF FileOK, DueIfCut, FieldsOfObjects, Agrees, Whole
<1>4. \A c \in Client : DraftOK(c)'
  BY <1>1, <1>2, IdleOK
<1>5. Apart'
  BY <1>2 DEF Apart, Active
<1> QED
  BY <1>1, <1>3, <1>4, <1>5 DEF IInv

LEMMA InitOK ==
    ASSUME Init
    PROVE  IInv
<1>1. TypeOK
  BY InitTyped
<1>2. Apart /\ \A f \in File : FileOK(f)
  BY DEF Init, Apart, Active, FileOK, FieldsOfObjects, Whole
<1>3. \A c \in Client : DraftOK(c)
  BY DEF Init, DraftOK, FieldsOfObjects, Whole
<1> QED
  BY <1>1, <1>2, <1>3 DEF IInv

LEMMA NextOK ==
    ASSUME IInv, [Next]_vars
    PROVE  IInv'
<1>1. TypeOK'
  BY NextTyped DEF IInv
<1>2. CASE Restart
  BY <1>2, RestartOK
<1>3. CASE \E s \in Service : Register(s) \/ Update(s)
  BY <1>1, <1>3, SameOK DEF Register, Update, locals
<1>4. ASSUME NEW c \in Client, Step(c) PROVE IInv'
  BY <1>4, BeginOK, ReadAppendOK, ReadPatchOK, OpenOK, FillOK, FailsOK, AbortOK DEF Step
<1>5. CASE UNCHANGED vars
  BY <1>1, <1>5, SameOK DEF vars, locals
<1> QED
  BY <1>2, <1>3, <1>4, <1>5 DEF Next

LEMMA IInvHolds == Spec => []IInv
<1>1. Init => IInv
  BY InitOK
<1>2. IInv /\ [Next]_vars => IInv'
  BY NextOK
<1> QED
  BY <1>1, <1>2, PTL DEF Spec

(* An entry of persona/short that was acknowledged stays in its file for   *)
(* as long as calls on the file neither overlap nor patch it, through any  *)
(* number of failures, abandoned calls and restarts between.               *)
THEOREM EntriesStay == Spec => []EntriesKept
<1>1. IInv => EntriesKept
  BY DEF IInv, EntriesKept, FileOK, Agrees, File
<1> QED
  BY <1>1, IInvHolds, PTL

(* A field stays as the last call that set it left it, through patches of  *)
(* other fields and restarts, unless calls on the file overlap, one of     *)
(* them is cut short in writing it or cannot read it.                      *)
THEOREM FieldsStay == Spec => []FieldsKept
<1>1. IInv => FieldsKept
  BY DEF IInv, FieldsKept, FileOK, Agrees, File
<1> QED
  BY <1>1, IInvHolds, PTL

(* Services and tools whose declaration was acknowledged are there after a *)
(* restart, whatever other calls were under way when the kernel stopped,   *)
(* unless one of them was about to write this very declaration.            *)
THEOREM DeclarationsComeBack == Spec => DeclaredComesBack
<1> DEFINE Back ==
      restarts' # restarts =>
        /\ \A s \in Compose \ unread' :
             due'[s] # None /\ due'[s].kind = "compose"
             => registry'[IF due'[s].name = None THEN s ELSE due'[s].name] = Stopped
        /\ \A t \in Tool \ unread' :
             due'[t] # None /\ due'[t].kind = "schema" => t \in tools'
<1>1. ASSUME IInv, IInv', [Next]_vars PROVE Back
  <2>1. SUFFICES ASSUME restarts' # restarts PROVE Back
    OBVIOUS
  <2>2. Restart
    BY <1>1, <2>1 DEF Next, Step, vars, Register, Update, Begin, ReadAppend, ReadPatch, Open,
       Fill, Fails, Abort
  <2>3. ASSUME NEW f \in Compose \cup Tool, due'[f] # None
        PROVE  Whole(files[f]) /\ files[f] = due'[f]
    <3>1. f \in File /\ f \notin Short /\ files'[f] = files[f]
      BY <2>2, ConstantsOK DEF File, Restart
    <3>2. \A c \in Client : pc'[c] = "idle"
      BY <2>2 DEF Restart
    <3> QED
      BY <1>1, <2>3, <3>1, <3>2 DEF IInv, FileOK, Agrees, Whole
  <2>4. ASSUME NEW t \in Tool \ unread', due'[t] # None, due'[t].kind = "schema"
        PROVE  t \in tools'
    BY <2>2, <2>3, <2>4 DEF Restart, RestoreTools
  <2>5. ASSUME NEW s \in Compose \ unread', due'[s] # None, due'[s].kind = "compose"
        PROVE  registry'[IF due'[s].name = None THEN s ELSE due'[s].name] = Stopped
    <3>1. PICK as \in [Compose -> Service \cup {None}] :
            /\ \A d \in Compose : as[d] \in IF d \in unread' THEN {None} ELSE RestoredAs(d)
            /\ registry' = [x \in Service |-> IF \E d \in Compose : as[d] = x THEN Stopped ELSE None]
      BY <2>2 DEF Restart, RestoreServices
    <3>2. Whole(files[s]) /\ files[s] = due'[s]
      BY <2>3, <2>5
    <3>3. RestoredAs(s) = {NameIn(s, files[s].name)}
      BY <2>5, <3>2 DEF RestoredAs, Whole
    <3>4. as[s] = NameIn(s, files[s].name)
      BY <3>1, <3>3, <2>5
    <3>5. NameIn(s, files[s].name) \in Service
      <4>1. files[s] \in Document
        BY <1>1, <3>2, <2>5, WholeIsDocument DEF IInv, TypeOK, File
      <4> QED
        BY <4>1, ConstantsOK DEF NameIn, Document
    <3> QED
      BY <3>1, <3>2, <3>4, <3>5 DEF NameIn
  <2> QED
    BY <2>4, <2>5
<1>2. IInv /\ IInv' /\ [Next]_vars => [Back]_vars
  BY <1>1
<1> QED
  BY <1>2, IInvHolds, PTL DEF Spec, DeclaredComesBack
===============================================================================
