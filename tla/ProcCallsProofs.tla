--------------------------- MODULE ProcCallsProofs ---------------------------
(***************************************************************************)
(* Proofs about ProcCalls, for any number of callers, tools, call_ids,     *)
(* calls and restarts.                                                     *)
(***************************************************************************)
EXTENDS ProcCalls, TLAPS

(* Helpers of the inductive invariant. *)

\* What the command of c will read, has read or has returned is for its params.
InputOK(c) ==
    /\ req[c] # None /\ req[c].tool \in Builtin /\ result[c] \in Output
       => result[c].of = req[c].params
    /\ executor = "host" /\ c \notin disturbed =>
         /\ pc[c] = "fill" => input_json[req[c].tool] = Blank
         /\ pc[c] \in {"start", "run"} => input_json[req[c].tool] = req[c].params
         /\ pc[c] = "exit" => got[c] = req[c].params
         /\ result[c] \in Output => result[c].of = req[c].params

SlotOK(k) ==
    LET slot == call_slots[k]
    IN  /\ slot # None /\ slot.output # None
        /\ k[1] \in Builtin \/ (executor = "host" /\ ~slot.disturbed)
        => slot.output.of = slot.input

\* The numbers of calls, of slots and of what was delivered are apart.
NumbersApart ==
    /\ \A c \in Client : nr[c] <= calls
    /\ \A c, d \in Client : nr[c] # 0 /\ c # d => nr[c] # nr[d]
    /\ \A k \in Key : call_slots[k] # None =>
         /\ call_slots[k].nr <= calls
         /\ \A c \in Client : nr[c] # call_slots[k].nr
         /\ \A l \in Key \ {k} : call_slots[l] # None => call_slots[l].nr # call_slots[k].nr
    /\ \A n \in 1..MaxCalls :
         /\ delivered[n] <= 1
         /\ delivered[n] # 0 =>
              /\ n <= calls /\ \A c \in Client : nr[c] # n
              /\ \A k \in Key : call_slots[k] # None => call_slots[k].nr # n

\* A held result is in its slot, or it is five minutes old.
HeldOK(h) ==
    \/ /\ call_slots[h.key] # None /\ call_slots[h.key].nr = h.nr
       /\ call_slots[h.key].created_at = h.at
    \/ now - h.at >= Life

IInv ==
    /\ TypeOK
    /\ \A c \in Client : InputOK(c)
    /\ \A k \in Key : SlotOK(k)
    /\ NumbersApart
    /\ \A h \in held : HeldOK(h)

-------------------------------------------------------------------------------
(* Types. *)

LEMMA Distinct ==
    /\ None \notin Request /\ None \notin Content /\ None \notin Output /\ None \notin Error
    /\ None \notin Slot /\ None \notin CallId
    /\ Blank \notin Params /\ Mixed \notin Params /\ Blank # Mixed
    /\ Request \subseteq AllRequests /\ Builtin \cap External = {}
    /\ Life \in Nat \ {0} /\ MaxTime \in Nat /\ MaxCalls \in Nat /\ MaxRestarts \in Nat
    /\ Shipped \subseteq Content \cup {None}
BY ConstantsOK DEF Content

LEMMA RequestOK ==
    ASSUME NEW r \in Request
    PROVE  r.tool \in Tool /\ r.id \in CallId \cup {None} /\ r.params \in Params
BY ConstantsOK DEF AllRequests

LEMMA ResultType ==
    /\ \A content \in Content, whole \in BOOLEAN :
         [of |-> content, whole |-> whole] \in Output \cup Error
    /\ [error |-> TRUE] \in Output \cup Error
BY DEF Output, Error

\* The part of the type invariant about calls.
CallsTyped ==
    /\ pc \in [Client -> Places] /\ req \in [Client -> Request \cup {None}]
    /\ got \in [Client -> Content \cup {None}] /\ cut \in [Client -> BOOLEAN]
    /\ result \in [Client -> Output \cup Error \cup {None}]
    /\ nr \in [Client -> 0..MaxCalls] /\ disturbed \subseteq Client
    /\ \A c \in Client : CallOK(c)

\* The part about everything else.
StoresTyped ==
    /\ executor \in Executor
    /\ call_slots \in [Key -> Slot \cup {None}]
    /\ input_json \in [External -> Content]
    /\ now \in Time /\ calls \in 0..MaxCalls /\ restarts \in 0..MaxRestarts
    /\ delivered \in [1..MaxCalls -> Nat]
    /\ held \subseteq [key : Key, nr : 1..MaxCalls, at : Time]

LEMMA TypeParts == TypeOK <=> CallsTyped /\ StoresTyped
BY DEF TypeOK, CallsTyped, StoresTyped

\* A step of c leaves the other calls as they are.
Only(c) ==
    \A d \in Client \ {c} :
        /\ pc'[d] = pc[d] /\ req'[d] = req[d] /\ got'[d] = got[d] /\ cut'[d] = cut[d]
        /\ result'[d] = result[d] /\ nr'[d] = nr[d]

LEMMA OneCall ==
    ASSUME CallsTyped, NEW c \in Client, pc[c] # "idle"
    PROVE  /\ req[c] \in Request /\ req[c] # None
           /\ req[c].tool \in Tool /\ req[c].params \in Params
           /\ pc[c] \in {"fill", "orphan", "start", "run", "exit"} => req[c].tool \in External
           /\ req[c].id \in CallId \cup {None}
           /\ pc[c] # "orphan" => nr[c] \in 1..MaxCalls
           /\ pc[c] = "exit" => got[c] \in Content
           /\ pc[c] = "returned" => result[c] \in Output \cup Error
<1>1. CallOK(c)
  BY DEF CallsTyped
<1>2. req[c] \in Request /\ req[c] # None
  BY <1>1 DEF CallOK, CallsTyped
<1>3. pc[c] # "orphan" => nr[c] \in 1..MaxCalls
  BY <1>1, Distinct DEF CallOK, CallsTyped
<1>4. /\ pc[c] = "exit" => got[c] \in Content
      /\ pc[c] = "returned" => result[c] \in Output \cup Error
      /\ pc[c] \in {"fill", "orphan", "start", "run", "exit"} => req[c].tool \in External
  BY <1>1 DEF CallOK, CallsTyped
<1> QED
  BY <1>2, <1>3, <1>4, RequestOK

(* What is left to show of a step of c: the types, and that c is in order. *)
LEMMA StepTyped ==
    ASSUME CallsTyped, NEW c \in Client, Only(c),
           pc' \in [Client -> Places], req' \in [Client -> Request \cup {None}],
           got' \in [Client -> Content \cup {None}], cut' \in [Client -> BOOLEAN],
           result' \in [Client -> Output \cup Error \cup {None}],
           nr' \in [Client -> 0..MaxCalls], disturbed' \subseteq Client,
           \A d \in Client \ {c} :
               d \in disturbed' => d \in disturbed \/ pc[d] \in {"fill", "start", "run"},
           CallOK(c)'
    PROVE  CallsTyped'
<1>1. ASSUME NEW d \in Client \ {c} PROVE CallOK(d)'
  <2>1. CallOK(d)
    BY DEF CallsTyped
  <2>2. /\ pc'[d] = pc[d] /\ req'[d] = req[d] /\ got'[d] = got[d]
        /\ result'[d] = result[d] /\ nr'[d] = nr[d]
    BY DEF Only
  <2> QED
    BY <2>1, <2>2 DEF CallOK
<1>2. \A d \in Client : CallOK(d)'
  BY <1>1
<1> QED
  BY <1>2 DEF CallsTyped

(* A call that ends leaves nothing of itself. *)
LEMMA LeaveTyped ==
    ASSUME CallsTyped, NEW c \in Client, Leave(c)
    PROVE  CallsTyped' /\ Only(c) /\ nr'[c] = 0 /\ pc'[c] = "idle" /\ result'[c] = None
           /\ req'[c] = None
<1>1. Only(c)
  BY DEF Leave, Goto, Only, CallsTyped
<1>2. /\ pc' \in [Client -> Places] /\ req' \in [Client -> Request \cup {None}]
      /\ got' \in [Client -> Content \cup {None}] /\ cut' \in [Client -> BOOLEAN]
      /\ result' \in [Client -> Output \cup Error \cup {None}]
      /\ nr' \in [Client -> 0..MaxCalls] /\ disturbed' \subseteq Client
  BY Distinct DEF Leave, Goto, CallsTyped, Places
<1>3. /\ pc'[c] = "idle" /\ req'[c] = None /\ got'[c] = None /\ result'[c] = None
      /\ nr'[c] = 0 /\ c \notin disturbed'
  BY DEF Leave, Goto, CallsTyped
<1>4. CallOK(c)'
  BY <1>3 DEF CallOK
<1>5. \A d \in Client \ {c} :
        d \in disturbed' => d \in disturbed \/ pc[d] \in {"fill", "start", "run"}
  BY DEF Leave
<1> QED
  BY <1>1, <1>2, <1>3, <1>4, <1>5, StepTyped

(* A call goes on from one place to another, and nothing else of it changes. *)
LEMMA GotoTyped ==
    ASSUME CallsTyped, NEW c \in Client, NEW at \in Places, Goto(c, at),
           UNCHANGED <<req, got, cut, result, nr>>,
           disturbed' \subseteq Client,
           \A d \in Client \ {c} :
               d \in disturbed' => d \in disturbed \/ pc[d] \in {"fill", "start", "run"},
           c \in disturbed' => c \in disturbed,
           \/ pc[c] = "fill" /\ at = "start"
           \/ pc[c] = "start" /\ at = "run"
    PROVE  CallsTyped' /\ Only(c)
<1>1. Only(c)
  BY DEF Goto, Only, CallsTyped
<1>2. /\ pc' \in [Client -> Places] /\ req' \in [Client -> Request \cup {None}]
      /\ got' \in [Client -> Content \cup {None}] /\ cut' \in [Client -> BOOLEAN]
      /\ result' \in [Client -> Output \cup Error \cup {None}]
      /\ nr' \in [Client -> 0..MaxCalls]
  BY DEF Goto, CallsTyped
<1>3. pc'[c] = at
  BY DEF Goto, CallsTyped
<1>4. CallOK(c)
  BY DEF CallsTyped
<1>5. CallOK(c)'
  BY <1>3, <1>4 DEF CallOK
<1> QED
  BY <1>1, <1>2, <1>5, StepTyped

(* The tool of a call returns. *)
LEMMA ReturnsTyped ==
    ASSUME CallsTyped, NEW c \in Client, NEW r \in Output \cup Error, Returns(c, r),
           pc[c] \in {"builtin", "fill", "start", "run", "exit"},
           UNCHANGED <<req, got, cut, nr, disturbed>>
    PROVE  CallsTyped' /\ Only(c) /\ pc'[c] = "returned" /\ result'[c] = r
<1>1. Only(c)
  BY DEF Returns, Goto, Only, CallsTyped
<1>2. /\ pc' \in [Client -> Places] /\ req' \in [Client -> Request \cup {None}]
      /\ got' \in [Client -> Content \cup {None}] /\ cut' \in [Client -> BOOLEAN]
      /\ nr' \in [Client -> 0..MaxCalls] /\ disturbed' \subseteq Client
  BY DEF Returns, Goto, CallsTyped, Places
<1>3. result' \in [Client -> Output \cup Error \cup {None}]
  BY DEF Returns, CallsTyped
<1>4. pc'[c] = "returned" /\ result'[c] = r /\ r # None
  BY Distinct DEF Returns, Goto, CallsTyped
<1>5. CallOK(c)
  BY DEF CallsTyped
<1>6. CallOK(c)'
  BY <1>4, <1>5 DEF CallOK
<1> QED
  BY <1>1, <1>2, <1>3, <1>4, <1>6, StepTyped

LEMMA BeginTyped ==
    ASSUME TypeOK, NEW c \in Client, Begin(c)
    PROVE  TypeOK' /\ Only(c)
<1>1. PICK r \in Request :
        /\ pc[c] = "idle" /\ calls < MaxCalls
        /\ calls' = calls + 1
        /\ req' = [req EXCEPT ![c] = r] /\ nr' = [nr EXCEPT ![c] = calls + 1]
        /\ IF r.tool \in External
           THEN Truncate(c, r.tool) /\ Goto(c, "fill")
           ELSE Goto(c, "builtin") /\ UNCHANGED <<input_json, disturbed>>
        /\ UNCHANGED <<executor, call_slots, got, cut, result, now, restarts, delivered, held>>
  BY DEF Begin
<1>2. calls + 1 \in 1..MaxCalls
  BY <1>1, Distinct DEF TypeOK
<1>3. StoresTyped'
  <2>1. input_json' \in [External -> Content]
    BY <1>1 DEF Truncate, TypeOK, Content
  <2> QED
    BY <1>1, <1>2, <2>1 DEF TypeOK, StoresTyped
<1>4. Only(c)
  BY <1>1 DEF Goto, Only, TypeOK
<1>5. /\ pc' \in [Client -> Places] /\ req' \in [Client -> Request \cup {None}]
      /\ got' \in [Client -> Content \cup {None}] /\ cut' \in [Client -> BOOLEAN]
      /\ result' \in [Client -> Output \cup Error \cup {None}]
      /\ nr' \in [Client -> 0..MaxCalls]
  <2>1. pc' \in [Client -> Places]
    BY <1>1 DEF Goto, TypeOK, Places
  <2>2. req' \in [Client -> Request \cup {None}] /\ nr' \in [Client -> 0..MaxCalls]
    BY <1>1, <1>2 DEF TypeOK
  <2> QED
    BY <1>1, <2>1, <2>2 DEF TypeOK
<1>7. /\ disturbed' \subseteq Client
      /\ \A d \in Client : d \in disturbed' =>
           d \in disturbed \/ (d # c /\ pc[d] \in {"fill", "start", "run"})
  BY <1>1 DEF Truncate, Readers, TypeOK
<1>8. CallOK(c)'
  <2>1. CallOK(c)
    BY DEF TypeOK
  <2>2. pc'[c] = IF r.tool \in External THEN "fill" ELSE "builtin"
    BY <1>1 DEF Goto, TypeOK
  <2>3. /\ req'[c] = r /\ nr'[c] = calls + 1 /\ nr'[c] # 0
        /\ got'[c] = got[c] /\ result'[c] = result[c]
    BY <1>1, <1>2 DEF TypeOK
  <2>4. r # None /\ r.tool \in Builtin \cup External
    BY Distinct, RequestOK DEF Tool
  <2>5. c \notin disturbed'
    BY <2>1, <1>1, <1>7 DEF CallOK
  <2> QED
    BY <1>1, <2>1, <2>2, <2>3, <2>4, <2>5 DEF CallOK
<1>9. CallsTyped'
  BY <1>4, <1>5, <1>7, <1>8, StepTyped, TypeParts
<1> QED
  BY <1>3, <1>4, <1>9 DEF TypeOK, CallsTyped, StoresTyped

LEMMA RunBuiltinTyped ==
    ASSUME TypeOK, NEW c \in Client, RunBuiltin(c)
    PROVE  /\ TypeOK' /\ Only(c) /\ pc'[c] = "returned"
           /\ \/ result'[c] = [of |-> req[c].params, whole |-> TRUE]
              \/ result'[c] = [error |-> TRUE]
<1>1. PICK r \in {[of |-> req[c].params, whole |-> TRUE], [error |-> TRUE]} : Returns(c, r)
  BY DEF RunBuiltin
<1>2. r \in Output \cup Error
  <2>1. req[c].params \in Content
    BY OneCall, TypeParts DEF RunBuiltin, Content
  <2> QED
    BY <1>1, <2>1, ResultType
<1>3. CallsTyped' /\ Only(c) /\ pc'[c] = "returned" /\ result'[c] = r
  BY <1>1, <1>2, ReturnsTyped, TypeParts DEF RunBuiltin
<1>4. StoresTyped'
  BY DEF TypeOK, StoresTyped, RunBuiltin
<1> QED
  BY <1>1, <1>3, <1>4 DEF TypeOK, CallsTyped, StoresTyped

LEMMA FillKeeps ==
    ASSUME TypeOK, NEW c \in Client, pc[c] \in {"fill", "orphan"}, Fill(c, req[c].tool)
    PROVE  /\ input_json' \in [External -> Content]
           /\ disturbed' \subseteq Client
           /\ c \in disturbed' => c \in disturbed
           /\ \A d \in Client \ {c} :
                d \in disturbed' => d \in disturbed \/ pc[d] \in {"fill", "start", "run"}
<1>1. req[c].params \in Content
  BY OneCall, TypeParts DEF Content
<1>2. input_json' \in [External -> Content]
  BY <1>1 DEF Fill, TypeOK, Content
<1> QED
  BY <1>2 DEF Fill, Readers, TypeOK

LEMMA FillInputTyped ==
    ASSUME TypeOK, NEW c \in Client, FillInput(c)
    PROVE  TypeOK' /\ Only(c) /\ pc'[c] = "start"
<1>1. CallsTyped' /\ Only(c)
  BY FillKeeps, GotoTyped, TypeParts DEF FillInput, Places
<1>2. StoresTyped'
  BY FillKeeps DEF TypeOK, StoresTyped, FillInput
<1>3. pc'[c] = "start"
  BY DEF FillInput, Goto, TypeOK
<1> QED
  BY <1>1, <1>2, <1>3 DEF TypeOK, CallsTyped, StoresTyped

LEMMA FillOrphanTyped ==
    ASSUME TypeOK, NEW c \in Client, FillOrphan(c)
    PROVE  TypeOK' /\ Only(c) /\ pc'[c] = "idle" /\ result'[c] = None /\ req'[c] = None
<1>1. Only(c)
  BY DEF FillOrphan, Goto, Only, TypeOK
<1>2. /\ pc' \in [Client -> Places] /\ req' \in [Client -> Request \cup {None}]
      /\ got' \in [Client -> Content \cup {None}] /\ cut' \in [Client -> BOOLEAN]
      /\ result' \in [Client -> Output \cup Error \cup {None}]
      /\ nr' \in [Client -> 0..MaxCalls]
  BY DEF FillOrphan, Goto, TypeOK, Places
<1>3. CallOK(c) /\ pc[c] = "orphan"
  BY DEF TypeOK, FillOrphan
<1>4. /\ pc'[c] = "idle" /\ req'[c] = None /\ nr'[c] = nr[c] /\ got'[c] = got[c]
      /\ result'[c] = result[c]
  BY DEF FillOrphan, Goto, TypeOK
<1>5. CallOK(c)'
  BY <1>3, <1>4, FillKeeps DEF CallOK, FillOrphan
<1>6. CallsTyped'
  BY <1>1, <1>2, <1>5, FillKeeps, StepTyped, TypeParts DEF FillOrphan
<1>7. StoresTyped'
  BY FillKeeps DEF TypeOK, StoresTyped, FillOrphan
<1> QED
  BY <1>1, <1>3, <1>4, <1>6, <1>7 DEF TypeOK, CallsTyped, StoresTyped, CallOK

LEMMA StartExecTyped ==
    ASSUME TypeOK, NEW c \in Client, StartExec(c)
    PROVE  TypeOK' /\ Only(c) /\ pc'[c] = "run"
<1>1. CallsTyped' /\ Only(c)
  BY GotoTyped, TypeParts DEF StartExec, Places, TypeOK
<1>2. StoresTyped'
  BY DEF TypeOK, StoresTyped, StartExec
<1>3. pc'[c] = "run"
  BY DEF StartExec, Goto, TypeOK
<1> QED
  BY <1>1, <1>2, <1>3 DEF TypeOK, CallsTyped, StoresTyped

LEMMA ReadInputTyped ==
    ASSUME TypeOK, NEW c \in Client, ReadInput(c)
    PROVE  /\ TypeOK' /\ Only(c)
           /\ \/ pc'[c] = "returned" /\ result'[c] = [error |-> TRUE]
              \/ /\ pc'[c] = "exit" /\ got'[c] \in Seen(req[c].tool) /\ result'[c] = None
<1>1. pc[c] = "run" /\ CallOK(c) /\ req[c].tool \in External /\ req[c] # None
  BY OneCall, TypeParts DEF ReadInput, TypeOK
<1>2. PICK seen \in Seen(req[c].tool) :
        IF seen = None
        THEN Returns(c, [error |-> TRUE]) /\ UNCHANGED got
        ELSE got' = [got EXCEPT ![c] = seen] /\ Goto(c, "exit") /\ UNCHANGED result
  BY DEF ReadInput
<1>3. StoresTyped'
  BY DEF TypeOK, StoresTyped, ReadInput
<1>4. CASE seen = None
  <2>1. CallsTyped' /\ Only(c) /\ pc'[c] = "returned" /\ result'[c] = [error |-> TRUE]
    BY <1>1, <1>2, <1>4, ResultType, ReturnsTyped, TypeParts DEF ReadInput
  <2> QED
    BY <1>3, <2>1 DEF TypeOK, CallsTyped, StoresTyped
<1>5. CASE seen # None
  <2>1. got' = [got EXCEPT ![c] = seen] /\ Goto(c, "exit") /\ UNCHANGED result
    BY <1>2, <1>5
  <2>2. seen \in Content
    BY <1>1, <1>5, Distinct DEF Seen, TypeOK
  <2>3. Only(c)
    BY <2>1 DEF ReadInput, Goto, Only, TypeOK
  <2>4. /\ pc' \in [Client -> Places] /\ req' \in [Client -> Request \cup {None}]
        /\ got' \in [Client -> Content \cup {None}] /\ cut' \in [Client -> BOOLEAN]
        /\ result' \in [Client -> Output \cup Error \cup {None}]
        /\ nr' \in [Client -> 0..MaxCalls] /\ disturbed' \subseteq Client
    BY <2>1, <2>2 DEF ReadInput, Goto, TypeOK, Places
  <2>5. pc'[c] = "exit" /\ got'[c] = seen /\ result'[c] = None
    BY <1>1, <2>1 DEF Goto, TypeOK, CallOK
  <2>6. CallOK(c)'
    BY <1>1, <1>5, <2>5 DEF CallOK, ReadInput
  <2>7. CallsTyped'
    BY <2>3, <2>4, <2>6, StepTyped, TypeParts DEF ReadInput
  <2> QED
    BY <1>3, <2>3, <2>5, <2>7 DEF TypeOK, CallsTyped, StoresTyped
<1> QED
  BY <1>4, <1>5

LEMMA GiveUpTyped ==
    ASSUME TypeOK, NEW c \in Client, GiveUp(c)
    PROVE  TypeOK' /\ Only(c)
<1>1. cut' \in [Client -> BOOLEAN]
  BY DEF GiveUp, TypeOK
<1>2. Only(c)
  BY DEF GiveUp, Only, TypeOK
<1>3. \A d \in Client : CallOK(d)'
  BY DEF TypeOK, GiveUp, CallOK
<1> QED
  BY <1>1, <1>2, <1>3 DEF TypeOK, GiveUp

LEMMA ExitTyped ==
    ASSUME TypeOK, NEW c \in Client, Exit(c)
    PROVE  /\ TypeOK' /\ Only(c) /\ pc'[c] = "returned"
           /\ \/ result'[c] = [of |-> got[c], whole |-> ~cut[c]]
              \/ result'[c] = [error |-> TRUE]
<1>1. PICK r \in {[of |-> got[c], whole |-> ~cut[c]], [error |-> TRUE]} : Returns(c, r)
  BY DEF Exit
<1>2. r \in Output \cup Error
  <2>1. got[c] \in Content
    BY OneCall, TypeParts DEF Exit
  <2>2. (~cut[c]) \in BOOLEAN
    OBVIOUS
  <2>3. [of |-> got[c], whole |-> ~cut[c]] \in Output \cup Error
    BY <2>1, <2>2, ResultType
  <2> QED
    BY <1>1, <2>3, ResultType
<1>3. CallsTyped' /\ Only(c) /\ pc'[c] = "returned" /\ result'[c] = r
  BY <1>1, <1>2, ReturnsTyped, TypeParts DEF Exit
<1>4. StoresTyped'
  BY DEF TypeOK, StoresTyped, Exit
<1> QED
  BY <1>1, <1>3, <1>4 DEF TypeOK, CallsTyped, StoresTyped

LEMMA ToolFailsTyped ==
    ASSUME TypeOK, NEW c \in Client, ToolFails(c)
    PROVE  TypeOK' /\ Only(c) /\ pc'[c] = "returned" /\ result'[c] = [error |-> TRUE]
<1>1. CallsTyped' /\ Only(c) /\ pc'[c] = "returned" /\ result'[c] = [error |-> TRUE]
  BY ResultType, ReturnsTyped, TypeParts DEF ToolFails
<1>2. StoresTyped'
  BY DEF TypeOK, StoresTyped, ToolFails
<1> QED
  BY <1>1, <1>2 DEF TypeOK, CallsTyped, StoresTyped

LEMMA AnswerTyped ==
    ASSUME TypeOK, NEW c \in Client, Answer(c)
    PROVE  TypeOK' /\ Only(c) /\ nr'[c] = 0 /\ pc'[c] = "idle" /\ result'[c] = None
           /\ req'[c] = None
<1>1. /\ CallsTyped' /\ Only(c) /\ nr'[c] = 0 /\ pc'[c] = "idle" /\ result'[c] = None
      /\ req'[c] = None
  BY LeaveTyped, TypeParts DEF Answer
<1>2. StoresTyped'
  BY DEF TypeOK, StoresTyped, Answer
<1> QED
  BY <1>1, <1>2 DEF TypeOK, CallsTyped, StoresTyped

LEMMA KeyOfType ==
    ASSUME TypeOK, NEW c \in Client, pc[c] = "returned", req[c].id # None
    PROVE  KeyOf(c) \in Key /\ req[c].tool \in Tool /\ req[c].id \in CallId
BY OneCall, TypeParts DEF KeyOf, Key

LEMMA FilledType ==
    ASSUME TypeOK, NEW c \in Client, pc[c] = "returned", req[c].id # None
    PROVE  Filled(c) \in Slot
<1>1. KeyOf(c) \in Key /\ req[c].params \in Params /\ nr[c] \in 1..MaxCalls
  BY KeyOfType, OneCall, TypeParts
<1>2. call_slots[KeyOf(c)] # None => call_slots[KeyOf(c)].created_at \in Time
  BY <1>1 DEF TypeOK, Slot
<1>3. now \in Time
  BY DEF TypeOK
<1> QED
  BY <1>1, <1>2, <1>3 DEF Filled, Slot

LEMMA StoreTyped ==
    ASSUME TypeOK, NEW c \in Client, Store(c)
    PROVE  TypeOK' /\ Only(c) /\ nr'[c] = 0 /\ pc'[c] = "idle" /\ result'[c] = None
           /\ req'[c] = None
<1>1. /\ CallsTyped' /\ Only(c) /\ nr'[c] = 0 /\ pc'[c] = "idle" /\ result'[c] = None
      /\ req'[c] = None
  BY LeaveTyped, TypeParts DEF Store
<1>2. KeyOf(c) \in Key /\ Filled(c) \in Slot /\ nr[c] \in 1..MaxCalls /\ now \in Time
  BY KeyOfType, FilledType, OneCall, TypeParts DEF Store, TypeOK
<1>3. call_slots' \in [Key -> Slot \cup {None}]
  BY <1>2 DEF Store, Retained, TypeOK
<1>4. held' \subseteq [key : Key, nr : 1..MaxCalls, at : Time]
  <2>1. [key |-> KeyOf(c), nr |-> nr[c], at |-> now] \in [key : Key, nr : 1..MaxCalls, at : Time]
    BY <1>2
  <2> QED
    BY <2>1 DEF Store, TypeOK
<1>5. StoresTyped'
  BY <1>3, <1>4 DEF TypeOK, StoresTyped, Store
<1> QED
  BY <1>1, <1>5 DEF TypeOK, CallsTyped, StoresTyped

LEMMA AbortTyped ==
    ASSUME TypeOK, NEW c \in Client, Abort(c)
    PROVE  /\ TypeOK' /\ Only(c) /\ nr'[c] = 0 /\ pc'[c] \in {"idle", "orphan"}
           /\ result'[c] = None
           /\ \A d \in Client \ {c} : d \in disturbed' <=> d \in disturbed
<1>1. StoresTyped'
  BY DEF TypeOK, StoresTyped, Abort
<1>2. CASE pc[c] # "fill"
  <2>1. Leave(c) /\ disturbed' = disturbed \ {c}
    BY <1>2 DEF Abort, Leave
  <2>2. CallsTyped' /\ Only(c) /\ nr'[c] = 0 /\ pc'[c] = "idle" /\ result'[c] = None
    BY <2>1, LeaveTyped, TypeParts
  <2>3. \A d \in Client \ {c} : d \in disturbed' <=> d \in disturbed
    BY <2>1
  <2> QED
    BY <1>1, <2>2, <2>3 DEF TypeOK, CallsTyped, StoresTyped
<1>3. CASE pc[c] = "fill"
  <2>1. /\ Goto(c, "orphan") /\ nr' = [nr EXCEPT ![c] = 0] /\ disturbed' = disturbed \ {c}
        /\ UNCHANGED <<req, got, cut, result>>
    BY <1>3 DEF Abort
  <2>2. Only(c)
    BY <2>1 DEF Goto, Only, TypeOK
  <2>3. /\ pc' \in [Client -> Places] /\ req' \in [Client -> Request \cup {None}]
        /\ got' \in [Client -> Content \cup {None}] /\ cut' \in [Client -> BOOLEAN]
        /\ result' \in [Client -> Output \cup Error \cup {None}]
        /\ nr' \in [Client -> 0..MaxCalls] /\ disturbed' \subseteq Client
    BY <2>1, Distinct DEF Goto, TypeOK, Places
  <2>4. CallOK(c)
    BY DEF TypeOK
  <2>5. /\ pc'[c] = "orphan" /\ nr'[c] = 0 /\ req'[c] = req[c] /\ got'[c] = got[c]
        /\ result'[c] = result[c] /\ c \notin disturbed'
    BY <2>1 DEF Goto, TypeOK
  <2>6. CallOK(c)' /\ result'[c] = None
    BY <1>3, <2>4, <2>5 DEF CallOK
  <2>7. CallsTyped'
    BY <2>1, <2>2, <2>3, <2>6, StepTyped, TypeParts
  <2> QED
    BY <1>1, <2>1, <2>2, <2>5, <2>6, <2>7 DEF TypeOK, CallsTyped, StoresTyped
<1> QED
  BY <1>2, <1>3

LEMMA RestartTyped ==
    ASSUME TypeOK, Restart
    PROVE  TypeOK'
<1>1. \A c \in Client : CallOK(c)'
  BY DEF Restart, CallOK
<1>2. CallsTyped'
  BY <1>1, Distinct DEF Restart, CallsTyped, TypeOK, Places
<1>3. StoresTyped'
  BY Distinct DEF Restart, TypeOK, StoresTyped
<1> QED
  BY <1>2, <1>3 DEF TypeOK, CallsTyped, StoresTyped

LEMMA ReadOutputTyped ==
    ASSUME TypeOK, NEW k \in Key, ReadOutput(k)
    PROVE  TypeOK'
<1>1. call_slots[k].nr \in 1..MaxCalls
  BY DEF ReadOutput, TypeOK, Slot
<1>2. delivered' \in [1..MaxCalls -> Nat]
  BY <1>1 DEF ReadOutput, TypeOK
<1>3. /\ call_slots' \in [Key -> Slot \cup {None}]
      /\ held' \subseteq [key : Key, nr : 1..MaxCalls, at : Time]
  BY DEF ReadOutput, TypeOK
<1>4. \A c \in Client : CallOK(c)'
  BY DEF ReadOutput, TypeOK, CallOK, locals
<1> QED
  BY <1>2, <1>3, <1>4 DEF ReadOutput, TypeOK, locals

LEMMA TimePassesTyped ==
    ASSUME TypeOK, TimePasses
    PROVE  TypeOK'
<1>1. now' \in Time
  BY Distinct DEF TimePasses, TypeOK, Time
<1>2. \A c \in Client : CallOK(c)'
  BY DEF TimePasses, TypeOK, CallOK, locals
<1> QED
  BY <1>1, <1>2 DEF TimePasses, TypeOK, locals

LEMMA InitTyped ==
    ASSUME Init
    PROVE  TypeOK
<1>1. \A c \in Client : CallOK(c)
  BY DEF Init, CallOK
<1>2. now \in Time /\ calls \in 0..MaxCalls /\ restarts \in 0..MaxRestarts
  BY Distinct DEF Init, Time
<1>3. /\ nr \in [Client -> 0..MaxCalls] /\ delivered \in [1..MaxCalls -> Nat]
      /\ input_json \in [External -> Content] /\ pc \in [Client -> Places]
  BY Distinct DEF Init, Content, Places
<1> QED
  BY <1>1, <1>2, <1>3 DEF Init, TypeOK

LEMMA NextTyped ==
    ASSUME TypeOK, [Next]_vars
    PROVE  TypeOK'
<1>1. CASE Restart
  BY <1>1, RestartTyped
<1>2. CASE TimePasses
  BY <1>2, TimePassesTyped
<1>3. ASSUME NEW k \in Key, ReadOutput(k) PROVE TypeOK'
  BY <1>3, ReadOutputTyped
<1>4. ASSUME NEW c \in Client, Step(c) PROVE TypeOK'
  BY <1>4, BeginTyped, RunBuiltinTyped, FillInputTyped, FillOrphanTyped, StartExecTyped,
     ReadInputTyped, GiveUpTyped, ExitTyped, ToolFailsTyped, AnswerTyped, StoreTyped, AbortTyped
     DEF Step
<1>5. CASE UNCHANGED vars
  BY <1>5 DEF vars, locals, TypeOK, CallOK
<1> QED
  BY <1>1, <1>2, <1>3, <1>4, <1>5 DEF Next

(* Every state is well typed; no two places of the code disagree on where  *)
(* a call is, and what it has read and returned is there when it is used.  *)
THEOREM TypeCorrect == Spec => []TypeOK
<1>1. Init => TypeOK
  BY InitTyped
<1>2. TypeOK /\ [Next]_vars => TypeOK'
  BY NextTyped
<1> QED
  BY <1>1, <1>2, PTL DEF Spec

-------------------------------------------------------------------------------
(* Inputs, outputs and slots. *)

LEMMA ErrorIsNoOutput == [error |-> TRUE] \notin Output
<1>1. DOMAIN [error |-> TRUE] = {"error"}
  OBVIOUS
<1>2. ASSUME NEW r \in Output PROVE DOMAIN r = {"of", "whole"}
  BY DEF Output
<1> QED
  BY <1>1, <1>2

\* What another call finds in its input file, and whether it was disturbed, stays.
Undisturbed(d) ==
    /\ d \notin disturbed' => d \notin disturbed
    /\ d \in disturbed' \/ pc[d] \notin {"fill", "start", "run"}
         \/ input_json'[req[d].tool] = input_json[req[d].tool]

LEMMA OtherInputs ==
    ASSUME IInv, NEW c \in Client, Only(c), executor' = executor,
           \A d \in Client \ {c} : Undisturbed(d)
    PROVE  \A d \in Client \ {c} : InputOK(d)'
<1> SUFFICES ASSUME NEW d \in Client \ {c} PROVE InputOK(d)'
  OBVIOUS
<1>1. InputOK(d)
  BY DEF IInv
<1>2. /\ pc'[d] = pc[d] /\ req'[d] = req[d] /\ got'[d] = got[d] /\ result'[d] = result[d]
  BY DEF Only
<1>3. req'[d] # None /\ req'[d].tool \in Builtin /\ result'[d] \in Output
         => result'[d].of = req'[d].params
  BY <1>1, <1>2 DEF InputOK
<1>4. executor' = "host" /\ d \notin disturbed' =>
         /\ pc'[d] = "fill" => input_json'[req'[d].tool] = Blank
         /\ pc'[d] \in {"start", "run"} => input_json'[req'[d].tool] = req'[d].params
         /\ pc'[d] = "exit" => got'[d] = req'[d].params
         /\ result'[d] \in Output => result'[d].of = req'[d].params
  BY <1>1, <1>2 DEF InputOK, Undisturbed
<1> QED
  BY <1>3, <1>4 DEF InputOK

LEMMA SameNumbers ==
    ASSUME TypeOK, NumbersApart, NEW c \in Client, Only(c), nr'[c] \in {nr[c], 0},
           UNCHANGED <<call_slots, calls, delivered>>
    PROVE  NumbersApart'
<1>1. \A d \in Client : nr'[d] = nr[d] \/ nr'[d] = 0
  BY DEF Only
<1>2. \A d \in Client : nr'[d] <= calls
  <2>1. (\A d \in Client : nr[d] <= calls) /\ calls >= 0
    BY Distinct DEF NumbersApart, TypeOK
  <2> QED
    BY <1>1, <2>1
<1>3. \A d, e \in Client : nr'[d] # 0 /\ d # e => nr'[d] # nr'[e]
  BY <1>1 DEF NumbersApart
<1>4. ASSUME NEW k \in Key, call_slots[k] # None
      PROVE  \A d \in Client : nr'[d] # call_slots[k].nr
  <2>1. call_slots[k].nr \in 1..MaxCalls
    BY <1>4 DEF TypeOK, Slot
  <2> QED
    BY <1>1, <1>4, <2>1, Distinct DEF NumbersApart
<1>5. \A n \in 1..MaxCalls : delivered[n] # 0 => \A d \in Client : nr'[d] # n
  BY <1>1, Distinct DEF NumbersApart
<1> QED
  BY <1>2, <1>3, <1>4, <1>5 DEF NumbersApart

(* What is left to show of a step of c that changes no slot. *)
LEMMA QuietStep ==
    ASSUME IInv, TypeOK', NEW c \in Client, Only(c), nr'[c] \in {nr[c], 0},
           UNCHANGED <<executor, call_slots, now, calls, delivered, held>>,
           \A d \in Client \ {c} : Undisturbed(d),
           InputOK(c)'
    PROVE  IInv'
<1>1. \A d \in Client : InputOK(d)'
  BY OtherInputs
<1>2. \A k \in Key : SlotOK(k)'
  BY DEF IInv, SlotOK
<1>3. NumbersApart'
  BY SameNumbers DEF IInv
<1>4. \A h \in held : HeldOK(h)'
  BY DEF IInv, HeldOK
<1> QED
  BY <1>1, <1>2, <1>3, <1>4 DEF IInv

LEMMA NoResult ==
    ASSUME TypeOK, NEW c \in Client, pc[c] # "returned"
    PROVE  result[c] = None /\ result[c] \notin Output
BY Distinct DEF TypeOK, CallOK

(* A call without a result that reads no file is in order. *)
LEMMA Nothing ==
    ASSUME NEW c \in Client, result'[c] = None \/ result'[c] = [error |-> TRUE],
           pc'[c] \notin {"fill", "start", "run", "exit"}
    PROVE  InputOK(c)'
BY ErrorIsNoOutput, Distinct DEF InputOK

LEMMA BeginOK ==
    ASSUME IInv, NEW c \in Client, Begin(c)
    PROVE  IInv'
<1>1. TypeOK' /\ Only(c) /\ TypeOK
  BY BeginTyped DEF IInv
<1>2. PICK r \in Request :
        /\ pc[c] = "idle" /\ calls < MaxCalls
        /\ calls' = calls + 1
        /\ req' = [req EXCEPT ![c] = r] /\ nr' = [nr EXCEPT ![c] = calls + 1]
        /\ IF r.tool \in External
           THEN Truncate(c, r.tool) /\ Goto(c, "fill")
           ELSE Goto(c, "builtin") /\ UNCHANGED <<input_json, disturbed>>
        /\ UNCHANGED <<executor, call_slots, got, cut, result, now, restarts, delivered, held>>
  BY DEF Begin
<1>3. result'[c] = None /\ req'[c] = r /\ nr'[c] = calls + 1
  BY <1>1, <1>2, NoResult DEF TypeOK
<1>4. \A d \in Client \ {c} : Undisturbed(d)
  <2> SUFFICES ASSUME NEW d \in Client \ {c} PROVE Undisturbed(d)
    OBVIOUS
  <2>1. d \notin disturbed' => d \notin disturbed
    BY <1>2 DEF Truncate
  <2>2. CASE r.tool \in External /\ pc[d] \in {"fill", "start", "run"} /\ req[d].tool # r.tool
    <3>1. req[d].tool \in External
      BY <1>1, <2>2, OneCall, TypeParts
    <3> QED
      BY <1>1, <1>2, <2>1, <2>2, <3>1 DEF Truncate, TypeOK, Undisturbed
  <2>3. CASE r.tool \in External /\ pc[d] \in {"fill", "start", "run"} /\ req[d].tool = r.tool
    BY <1>2, <2>1, <2>3 DEF Truncate, Readers, Undisturbed
  <2>4. CASE r.tool \notin External
    BY <1>2, <2>1, <2>4 DEF Undisturbed
  <2> QED
    BY <2>1, <2>2, <2>3, <2>4 DEF Undisturbed
<1>5. InputOK(c)'
  <2>1. pc'[c] = IF r.tool \in External THEN "fill" ELSE "builtin"
    BY <1>1, <1>2 DEF Goto, TypeOK
  <2>2. r.tool \in External => input_json'[r.tool] = Blank
    BY <1>1, <1>2 DEF Truncate, TypeOK
  <2> QED
    BY <1>3, <2>1, <2>2, Distinct DEF InputOK
<1>6. \A d \in Client : InputOK(d)'
  BY <1>1, <1>2, <1>4, <1>5, OtherInputs
<1>7. NumbersApart'
  <2>1. calls \in Nat /\ calls' = calls + 1 /\ UNCHANGED <<call_slots, delivered>>
    BY <1>1, <1>2, Distinct DEF TypeOK
  <2>2. \A d \in Client \ {c} : nr'[d] = nr[d]
    BY <1>1 DEF Only
  <2>3. \A d \in Client : nr[d] \in Nat /\ nr[d] <= calls
    BY <1>1, Distinct DEF TypeOK, IInv, NumbersApart
  <2>4. \A d \in Client : nr'[d] <= calls'
    BY <1>3, <2>1, <2>2, <2>3
  <2>5. \A d, e \in Client : nr'[d] # 0 /\ d # e => nr'[d] # nr'[e]
    BY <1>3, <2>1, <2>2, <2>3 DEF IInv, NumbersApart
  <2>6. ASSUME NEW k \in Key, call_slots[k] # None
        PROVE  call_slots[k].nr <= calls' /\ \A d \in Client : nr'[d] # call_slots[k].nr
    <3>1. call_slots[k].nr \in Nat /\ call_slots[k].nr <= calls
      BY <1>1, <2>6, Distinct DEF TypeOK, Slot, IInv, NumbersApart
    <3> QED
      BY <1>3, <2>1, <2>2, <2>6, <3>1 DEF IInv, NumbersApart
  <2>7. ASSUME NEW n \in 1..MaxCalls, delivered[n] # 0
        PROVE  n <= calls' /\ \A d \in Client : nr'[d] # n
    BY <1>3, <2>1, <2>2, <2>7 DEF IInv, NumbersApart
  <2> QED
    BY <2>1, <2>4, <2>5, <2>6, <2>7 DEF IInv, NumbersApart
<1>8. (\A k \in Key : SlotOK(k)') /\ \A h \in held : HeldOK(h)'
  BY <1>2 DEF IInv, SlotOK, HeldOK
<1> QED
  BY <1>1, <1>2, <1>6, <1>7, <1>8 DEF IInv

LEMMA RunBuiltinOK ==
    ASSUME IInv, NEW c \in Client, RunBuiltin(c)
    PROVE  IInv'
<1>1. /\ TypeOK' /\ Only(c) /\ TypeOK /\ pc'[c] = "returned"
      /\ \/ result'[c] = [of |-> req[c].params, whole |-> TRUE]
         \/ result'[c] = [error |-> TRUE]
  BY RunBuiltinTyped DEF IInv
<1>2. req' = req /\ nr' = nr
  BY DEF RunBuiltin
<1>3. InputOK(c)'
  BY <1>1, <1>2, ErrorIsNoOutput DEF InputOK
<1>4. \A d \in Client \ {c} : Undisturbed(d)
  BY DEF RunBuiltin, Undisturbed
<1> QED
  BY <1>1, <1>2, <1>3, <1>4, QuietStep DEF RunBuiltin

LEMMA FillUndisturbed ==
    ASSUME TypeOK, NEW c \in Client, pc[c] \in {"fill", "orphan"}, Fill(c, req[c].tool)
    PROVE  \A d \in Client \ {c} : Undisturbed(d)
<1> SUFFICES ASSUME NEW d \in Client \ {c} PROVE Undisturbed(d)
  OBVIOUS
<1>1. d \notin disturbed' => d \notin disturbed
  BY DEF Fill
<1>2. CASE pc[d] \in {"fill", "start", "run"} /\ req[d].tool # req[c].tool
  <2>1. req[d].tool \in External
    BY <1>2, OneCall, TypeParts
  <2> QED
    BY <1>1, <1>2, <2>1 DEF Fill, TypeOK, Undisturbed
<1>3. CASE pc[d] \in {"fill", "start", "run"} /\ req[d].tool = req[c].tool
  BY <1>1, <1>3 DEF Fill, Readers, Undisturbed
<1> QED
  BY <1>1, <1>2, <1>3 DEF Undisturbed

LEMMA FillInputOK ==
    ASSUME IInv, NEW c \in Client, FillInput(c)
    PROVE  IInv'
<1>1. TypeOK' /\ Only(c) /\ TypeOK /\ pc'[c] = "start"
  BY FillInputTyped DEF IInv
<1>2. UNCHANGED <<executor, req, nr, result>> /\ pc[c] = "fill" /\ Fill(c, req[c].tool)
  BY DEF FillInput
<1>3. result'[c] = None
  BY <1>1, <1>2, NoResult
<1>4. executor = "host" /\ c \notin disturbed' => input_json'[req[c].tool] = req[c].params
  <2> SUFFICES ASSUME executor = "host", c \notin disturbed'
               PROVE  input_json'[req[c].tool] = req[c].params
    OBVIOUS
  <2>1. c \notin disturbed /\ req[c].tool \in External
    BY <1>1, <1>2, FillKeeps, OneCall, TypeParts DEF Fill
  <2>2. input_json[req[c].tool] = Blank
    BY <1>2, <2>1 DEF IInv, InputOK
  <2> QED
    BY <1>1, <1>2, <2>1, <2>2 DEF Fill, TypeOK
<1>5. InputOK(c)'
  BY <1>1, <1>2, <1>3, <1>4, Distinct DEF InputOK
<1>6. \A d \in Client \ {c} : Undisturbed(d)
  BY <1>1, <1>2, FillUndisturbed
<1> QED
  BY <1>1, <1>2, <1>5, <1>6, QuietStep DEF FillInput

LEMMA FillOrphanOK ==
    ASSUME IInv, NEW c \in Client, FillOrphan(c)
    PROVE  IInv'
<1>1. TypeOK' /\ Only(c) /\ TypeOK /\ pc'[c] = "idle" /\ result'[c] = None
  BY FillOrphanTyped DEF IInv
<1>2. nr' = nr /\ \A d \in Client \ {c} : Undisturbed(d)
  BY <1>1, FillUndisturbed DEF FillOrphan
<1>3. InputOK(c)'
  BY <1>1, Nothing
<1> QED
  BY <1>1, <1>2, <1>3, QuietStep DEF FillOrphan

LEMMA StartExecOK ==
    ASSUME IInv, NEW c \in Client, StartExec(c)
    PROVE  IInv'
<1>1. TypeOK' /\ Only(c) /\ TypeOK /\ pc'[c] = "run"
  BY StartExecTyped DEF IInv
<1>2. UNCHANGED <<executor, input_json, req, nr, result, disturbed>> /\ pc[c] = "start"
  BY DEF StartExec
<1>3. InputOK(c)'
  BY <1>1, <1>2 DEF IInv, InputOK
<1>4. \A d \in Client \ {c} : Undisturbed(d)
  BY <1>2 DEF Undisturbed
<1> QED
  BY <1>1, <1>2, <1>3, <1>4, QuietStep DEF StartExec

LEMMA ReadInputOK ==
    ASSUME IInv, NEW c \in Client, ReadInput(c)
    PROVE  IInv'
<1>1. /\ TypeOK' /\ Only(c) /\ TypeOK
      /\ \/ pc'[c] = "returned" /\ result'[c] = [error |-> TRUE]
         \/ pc'[c] = "exit" /\ got'[c] \in Seen(req[c].tool) /\ result'[c] = None
  BY ReadInputTyped DEF IInv
<1>2. UNCHANGED <<executor, input_json, req, nr, disturbed>> /\ pc[c] = "run"
  BY DEF ReadInput
<1>3. InputOK(c)'
  <2>1. CASE pc'[c] = "returned" /\ result'[c] = [error |-> TRUE]
    BY <2>1, Nothing
  <2>2. CASE pc'[c] = "exit" /\ got'[c] \in Seen(req[c].tool) /\ result'[c] = None
    <3>1. executor = "host" /\ c \notin disturbed => got'[c] = req[c].params
      BY <1>2, <2>2 DEF IInv, InputOK, Seen
    <3> QED
      BY <1>2, <2>2, <3>1, Distinct DEF InputOK
  <2> QED
    BY <1>1, <2>1, <2>2
<1>4. \A d \in Client \ {c} : Undisturbed(d)
  BY <1>2 DEF Undisturbed
<1> QED
  BY <1>1, <1>2, <1>3, <1>4, QuietStep DEF ReadInput

LEMMA ExitOK ==
    ASSUME IInv, NEW c \in Client, Exit(c)
    PROVE  IInv'
<1>1. /\ TypeOK' /\ Only(c) /\ TypeOK /\ pc'[c] = "returned"
      /\ \/ result'[c] = [of |-> got[c], whole |-> ~cut[c]]
         \/ result'[c] = [error |-> TRUE]
  BY ExitTyped DEF IInv
<1>2. UNCHANGED <<executor, input_json, req, nr, disturbed>> /\ pc[c] = "exit"
  BY DEF Exit
<1>3. InputOK(c)'
  <2>1. req[c].tool \in External /\ req[c].tool \notin Builtin
    BY <1>1, <1>2, OneCall, TypeParts, Distinct
  <2>2. executor = "host" /\ c \notin disturbed /\ result'[c] \in Output
          => result'[c].of = req[c].params
    BY <1>1, <1>2, ErrorIsNoOutput DEF IInv, InputOK
  <2> QED
    BY <1>1, <1>2, <2>1, <2>2 DEF InputOK
<1>4. \A d \in Client \ {c} : Undisturbed(d)
  BY <1>2 DEF Undisturbed
<1> QED
  BY <1>1, <1>2, <1>3, <1>4, QuietStep DEF Exit

LEMMA StillOK ==
    ASSUME IInv, TypeOK', NEW c \in Client, Only(c), nr'[c] = 0,
           result'[c] = None \/ result'[c] = [error |-> TRUE],
           pc'[c] \notin {"fill", "start", "run", "exit"},
           \A d \in Client \ {c} : d \in disturbed' <=> d \in disturbed,
           UNCHANGED <<executor, input_json, call_slots, now, calls, delivered, held>>
    PROVE  IInv'
<1>1. InputOK(c)'
  BY Nothing
<1>2. \A d \in Client \ {c} : Undisturbed(d)
  BY DEF Undisturbed
<1> QED
  BY <1>1, <1>2, QuietStep

LEMMA AnswerOK ==
    ASSUME IInv, NEW c \in Client, Answer(c)
    PROVE  IInv'
<1>1. TypeOK' /\ Only(c) /\ nr'[c] = 0 /\ pc'[c] = "idle" /\ result'[c] = None
  BY AnswerTyped DEF IInv
<1>2. \A d \in Client \ {c} : d \in disturbed' <=> d \in disturbed
  BY DEF Answer, Leave
<1> QED
  BY <1>1, <1>2, StillOK DEF Answer

LEMMA AbortOK ==
    ASSUME IInv, NEW c \in Client, Abort(c)
    PROVE  IInv'
<1>1. /\ TypeOK' /\ Only(c) /\ nr'[c] = 0 /\ pc'[c] \in {"idle", "orphan"}
      /\ result'[c] = None
      /\ \A d \in Client \ {c} : d \in disturbed' <=> d \in disturbed
  BY AbortTyped DEF IInv
<1> QED
  BY <1>1, StillOK DEF Abort

LEMMA ToolFailsOK ==
    ASSUME IInv, NEW c \in Client, ToolFails(c)
    PROVE  IInv'
<1>1. TypeOK' /\ Only(c) /\ pc'[c] = "returned" /\ result'[c] = [error |-> TRUE]
  BY ToolFailsTyped DEF IInv
<1>2. nr' = nr /\ UNCHANGED <<executor, input_json, disturbed>>
  BY DEF ToolFails
<1>3. InputOK(c)'
  BY <1>1, Nothing
<1>4. \A d \in Client \ {c} : Undisturbed(d)
  BY <1>2 DEF Undisturbed
<1> QED
  BY <1>1, <1>2, <1>3, <1>4, QuietStep DEF ToolFails

LEMMA GiveUpOK ==
    ASSUME IInv, NEW c \in Client, GiveUp(c)
    PROVE  IInv'
<1>1. TypeOK' /\ Only(c)
  BY GiveUpTyped DEF IInv
<1>2. InputOK(c)'
  BY DEF GiveUp, IInv, InputOK
<1>3. \A d \in Client \ {c} : Undisturbed(d)
  BY DEF GiveUp, Undisturbed
<1> QED
  BY <1>1, <1>2, <1>3, QuietStep DEF GiveUp

(* The slot that a call leaves has its params, its result and its number. *)
LEMMA FilledIs ==
    ASSUME IInv, NEW c \in Client, Store(c)
    PROVE  /\ Filled(c).nr = nr[c]
           /\ /\ Filled(c).output # None
              /\ req[c].tool \in Builtin \/ (executor = "host" /\ ~Filled(c).disturbed)
              => Filled(c).output.of = Filled(c).input
           /\ call_slots[KeyOf(c)] = None => Filled(c).created_at = now
<1>1. Filled(c).nr = nr[c] /\ Filled(c).input = req[c].params
  BY DEF Filled
<1>2. Filled(c).output = IF result[c] \in Output THEN result[c] ELSE None
  BY DEF Filled
<1>3. Filled(c).disturbed = (c \in disturbed)
  BY DEF Filled
<1>4. call_slots[KeyOf(c)] = None => Filled(c).created_at = now
  BY DEF Filled
<1>5. ASSUME Filled(c).output # None,
             req[c].tool \in Builtin \/ (executor = "host" /\ ~Filled(c).disturbed)
      PROVE  Filled(c).output.of = Filled(c).input
  <2>1. result[c] \in Output /\ Filled(c).output = result[c]
    BY <1>2, <1>5
  <2>2. InputOK(c) /\ req[c] # None
    BY OneCall, TypeParts DEF IInv, Store
  <2>3. req[c].tool \in Builtin \/ (executor = "host" /\ c \notin disturbed)
    BY <1>3, <1>5
  <2>4. result[c].of = req[c].params
    BY <2>1, <2>2, <2>3 DEF InputOK
  <2> QED
    BY <1>1, <2>1, <2>4
<1> QED
  BY <1>1, <1>4, <1>5

LEMMA StoreOK ==
    ASSUME IInv, NEW c \in Client, Store(c)
    PROVE  IInv'
<1>1. /\ TypeOK' /\ TypeOK /\ Only(c) /\ nr'[c] = 0 /\ pc'[c] = "idle" /\ result'[c] = None
  BY StoreTyped DEF IInv
<1>2. /\ KeyOf(c) \in Key /\ Filled(c) \in Slot /\ Filled(c) # None /\ nr[c] \in 1..MaxCalls
      /\ KeyOf(c)[1] = req[c].tool
  BY <1>1, KeyOfType, FilledType, OneCall, TypeParts, Distinct DEF Store, KeyOf
<1>3. UNCHANGED <<executor, input_json, now, calls, delivered>>
      /\ \A d \in Client \ {c} : d \in disturbed' <=> d \in disturbed
  BY DEF Store, Leave
<1>4. ASSUME NEW k \in Key, call_slots'[k] # None
      PROVE  /\ k = KeyOf(c) => call_slots'[k] = Filled(c)
             /\ k # KeyOf(c) => call_slots'[k] = call_slots[k]
  BY <1>1, <1>2, <1>4 DEF Store, Retained, TypeOK
<1>5. \A d \in Client : InputOK(d)'
  <2>1. InputOK(c)'
    BY <1>1, Nothing
  <2>2. \A d \in Client \ {c} : Undisturbed(d)
    BY <1>3 DEF Undisturbed
  <2> QED
    BY <1>1, <1>3, <2>1, <2>2, OtherInputs
<1>6. ASSUME NEW k \in Key PROVE SlotOK(k)'
  <2>1. CASE k = KeyOf(c)
    BY <1>2, <1>3, <1>4, <2>1, FilledIs DEF SlotOK
  <2>2. CASE k # KeyOf(c)
    BY <1>3, <1>4, <2>2 DEF SlotOK, IInv
  <2> QED
    BY <2>1, <2>2
<1>7. NumbersApart'
  <2>1. \A d \in Client \ {c} : nr'[d] = nr[d]
    BY <1>1 DEF Only
  <2>2. /\ \A d \in Client : nr[d] <= calls /\ nr[d] \in Nat
        /\ \A d, e \in Client : nr[d] # 0 /\ d # e => nr[d] # nr[e]
        /\ calls \in Nat
    BY <1>1, Distinct DEF IInv, NumbersApart, TypeOK
  <2>3. \A d \in Client : nr'[d] <= calls'
    BY <1>1, <1>3, <2>1, <2>2
  <2>4. \A d, e \in Client : nr'[d] # 0 /\ d # e => nr'[d] # nr'[e]
    BY <1>1, <2>1, <2>2
  <2>5. ASSUME NEW k \in Key, call_slots'[k] # None
        PROVE  /\ call_slots'[k].nr <= calls'
               /\ \A d \in Client : nr'[d] # call_slots'[k].nr
               /\ \A n \in 1..MaxCalls : delivered[n] # 0 => call_slots'[k].nr # n
    <3>1. CASE k = KeyOf(c)
      <4>1. call_slots'[k].nr = nr[c]
        BY <1>4, <2>5, <3>1, FilledIs
      <4> QED
        BY <1>1, <1>2, <1>3, <2>1, <2>2, <4>1 DEF IInv, NumbersApart
    <3>2. CASE k # KeyOf(c)
      <4>1. call_slots'[k] = call_slots[k] /\ call_slots[k].nr \in 1..MaxCalls
        BY <1>1, <1>4, <2>5, <3>2 DEF TypeOK, Slot
      <4> QED
        BY <1>1, <1>3, <2>1, <2>5, <4>1, Distinct DEF IInv, NumbersApart
    <3> QED
      BY <3>1, <3>2
  <2>6. ASSUME NEW k \in Key, NEW l \in Key \ {k}, call_slots'[k] # None, call_slots'[l] # None
        PROVE  call_slots'[l].nr # call_slots'[k].nr
    <3>1. CASE k = KeyOf(c)
      <4>1. call_slots'[k].nr = nr[c] /\ call_slots'[l] = call_slots[l]
        BY <1>4, <2>6, <3>1, FilledIs
      <4> QED
        BY <2>6, <4>1 DEF IInv, NumbersApart
    <3>2. CASE l = KeyOf(c)
      <4>1. call_slots'[l].nr = nr[c] /\ call_slots'[k] = call_slots[k]
        BY <1>4, <2>6, <3>2, FilledIs
      <4> QED
        BY <2>6, <4>1 DEF IInv, NumbersApart
    <3>3. CASE k # KeyOf(c) /\ l # KeyOf(c)
      <4>1. call_slots'[l] = call_slots[l] /\ call_slots'[k] = call_slots[k]
        BY <1>4, <2>6, <3>3
      <4> QED
        BY <2>6, <4>1 DEF IInv, NumbersApart
    <3> QED
      BY <3>1, <3>2, <3>3
  <2>7. ASSUME NEW n \in 1..MaxCalls
        PROVE  /\ delivered[n] <= 1
               /\ delivered[n] # 0 => n <= calls' /\ \A d \in Client : nr'[d] # n
    BY <1>1, <1>3, <2>1, <2>7, Distinct DEF IInv, NumbersApart
  <2> QED
    BY <1>3, <2>3, <2>4, <2>5, <2>6, <2>7 DEF NumbersApart
<1>8. ASSUME NEW h \in held' PROVE HeldOK(h)'
  <2>1. now \in Nat /\ Life \in Nat \ {0} /\ now' = now
    BY <1>1, <1>3, Distinct DEF TypeOK, Time
  <2>2. CASE h \in held /\ h.key # KeyOf(c)
    <3>1. HeldOK(h) /\ h.key \in Key /\ h.at \in Nat
      BY <1>1, <2>2, Distinct DEF IInv, TypeOK, Time
    <3>2. CASE call_slots[h.key] # None /\ Young(call_slots[h.key])
      <4>1. call_slots'[h.key] = call_slots[h.key]
        BY <1>1, <1>2, <2>2, <3>1, <3>2 DEF Store, Retained, TypeOK
      <4> QED
        BY <2>1, <3>1, <4>1 DEF HeldOK
    <3>3. CASE ~(call_slots[h.key] # None /\ Young(call_slots[h.key]))
      <4>1. now - h.at >= Life
        BY <2>1, <3>1, <3>3 DEF HeldOK, Young
      <4> QED
        BY <2>1, <4>1 DEF HeldOK
    <3> QED
      BY <3>2, <3>3
  <2>3. CASE /\ call_slots[KeyOf(c)] = None
             /\ h = [key |-> KeyOf(c), nr |-> nr[c], at |-> now]
    <3>1. Filled(c).created_at = now /\ Filled(c).nr = nr[c]
      BY <2>3, FilledIs
    <3>2. Young(Filled(c))
      BY <2>1, <3>1 DEF Young
    <3>3. call_slots'[KeyOf(c)] = Filled(c)
      BY <1>1, <1>2, <3>2 DEF Store, Retained, TypeOK
    <3> QED
      BY <1>2, <2>3, <3>1, <3>3 DEF HeldOK
  <2> QED
    BY <2>2, <2>3 DEF Store
<1> QED
  BY <1>1, <1>5, <1>6, <1>7, <1>8 DEF IInv

LEMMA ReadOutputOK ==
    ASSUME IInv, NEW k \in Key, ReadOutput(k)
    PROVE  IInv'
<1>1. TypeOK' /\ TypeOK
  BY ReadOutputTyped DEF IInv
<1>2. /\ call_slots[k] # None
      /\ delivered' = [delivered EXCEPT ![call_slots[k].nr] = @ + 1]
      /\ call_slots' = [call_slots EXCEPT ![k] = None]
      /\ held' = { h \in held : h.key # k }
      /\ UNCHANGED <<executor, input_json, now, calls>>
  BY DEF ReadOutput
<1>3. UNCHANGED <<pc, req, got, cut, result, nr, disturbed>>
  BY DEF ReadOutput, locals
<1>4. ASSUME NEW l \in Key, call_slots'[l] # None PROVE l # k /\ call_slots'[l] = call_slots[l]
  BY <1>1, <1>2, <1>4 DEF TypeOK
<1>5. \A d \in Client : InputOK(d)'
  BY <1>2, <1>3 DEF IInv, InputOK
<1>6. \A l \in Key : SlotOK(l)'
  BY <1>2, <1>4 DEF IInv, SlotOK
<1>7. NumbersApart'
  <2> DEFINE m == call_slots[k].nr
  <2>1. m \in 1..MaxCalls /\ delivered[m] = 0 /\ m <= calls /\ \A d \in Client : nr[d] # m
    <3>1. m \in 1..MaxCalls /\ delivered \in [1..MaxCalls -> Nat]
      BY <1>1, <1>2 DEF TypeOK, Slot
    <3> QED
      BY <1>2, <3>1 DEF IInv, NumbersApart
  <2>2. ASSUME NEW l \in Key, call_slots'[l] # None
        PROVE  /\ call_slots'[l].nr <= calls /\ call_slots'[l].nr # m
               /\ \A d \in Client : nr[d] # call_slots'[l].nr
               /\ \A i \in Key \ {l} : call_slots'[i] # None => call_slots'[i].nr # call_slots'[l].nr
    BY <1>2, <1>4, <2>2 DEF IInv, NumbersApart
  <2>3. \A n \in 1..MaxCalls : delivered'[n] = IF n = m THEN 1 ELSE delivered[n]
    BY <1>1, <1>2, <2>1 DEF TypeOK
  <2>4. ASSUME NEW n \in 1..MaxCalls
        PROVE  /\ delivered'[n] <= 1
               /\ delivered'[n] # 0 =>
                    /\ n <= calls /\ \A d \in Client : nr[d] # n
                    /\ \A l \in Key : call_slots'[l] # None => call_slots'[l].nr # n
    <3>1. CASE n = m
      BY <2>1, <2>2, <2>3, <3>1
    <3>2. CASE n # m
      <4>1. delivered'[n] = delivered[n]
        BY <2>3, <3>2
      <4> QED
        BY <1>4, <4>1 DEF IInv, NumbersApart
    <3> QED
      BY <3>1, <3>2
  <2> QED
    BY <1>2, <1>3, <2>2, <2>4 DEF IInv, NumbersApart
<1>8. ASSUME NEW h \in held' PROVE HeldOK(h)'
  <2>1. HeldOK(h) /\ h.key # k /\ h.key \in Key
    BY <1>1, <1>2 DEF IInv, TypeOK
  <2>2. call_slots'[h.key] = call_slots[h.key]
    BY <1>1, <1>2, <2>1 DEF TypeOK
  <2> QED
    BY <1>2, <2>1, <2>2 DEF HeldOK
<1> QED
  BY <1>1, <1>5, <1>6, <1>7, <1>8 DEF IInv

LEMMA TimePassesOK ==
    ASSUME IInv, TimePasses
    PROVE  IInv'
<1>1. TypeOK' /\ TypeOK
  BY TimePassesTyped DEF IInv
<1>2. \A d \in Client : InputOK(d)'
  BY DEF IInv, TimePasses, locals, InputOK
<1>3. \A k \in Key : SlotOK(k)'
  BY DEF IInv, TimePasses, SlotOK
<1>4. NumbersApart'
  BY DEF IInv, TimePasses, locals, NumbersApart
<1>5. ASSUME NEW h \in held PROVE HeldOK(h)'
  <2>1. h.at \in Nat /\ now \in Nat /\ now' = now + 1 /\ Life \in Nat /\ HeldOK(h)
    BY <1>1, Distinct DEF TypeOK, Time, TimePasses, IInv
  <2> QED
    BY <2>1 DEF HeldOK, TimePasses
<1>6. held' = held
  BY DEF TimePasses
<1> QED
  BY <1>1, <1>2, <1>3, <1>4, <1>5, <1>6 DEF IInv

LEMMA RestartOK ==
    ASSUME IInv, Restart
    PROVE  IInv'
<1>1. TypeOK' /\ TypeOK
  BY RestartTyped DEF IInv
<1>2. \A d \in Client : InputOK(d)'
  BY Distinct DEF Restart, InputOK
<1>3. (\A k \in Key : SlotOK(k)') /\ \A h \in held' : HeldOK(h)'
  BY DEF Restart, SlotOK
<1>4. NumbersApart'
  <2>1. \A n \in 1..MaxCalls : delivered[n] <= 1 /\ (delivered[n] # 0 => n <= calls /\ n # 0)
    BY <1>1, Distinct DEF IInv, NumbersApart, TypeOK
  <2>2. (\A c \in Client : nr'[c] = 0) /\ (\A k \in Key : call_slots'[k] = None)
    BY DEF Restart
  <2>3. UNCHANGED <<calls, delivered>> /\ calls >= 0
    BY <1>1, Distinct DEF Restart, TypeOK
  <2> QED
    BY <2>1, <2>2, <2>3 DEF NumbersApart
<1> QED
  BY <1>1, <1>2, <1>3, <1>4 DEF IInv

LEMMA InitOK ==
    ASSUME Init
    PROVE  IInv
<1>1. TypeOK
  BY InitTyped
<1>2. \A d \in Client : InputOK(d)
  BY Distinct DEF Init, InputOK
<1>3. (\A k \in Key : SlotOK(k)) /\ \A h \in held : HeldOK(h)
  BY DEF Init, SlotOK
<1>4. NumbersApart
  BY Distinct DEF Init, NumbersApart
<1> QED
  BY <1>1, <1>2, <1>3, <1>4 DEF IInv

LEMMA NextOK ==
    ASSUME IInv, [Next]_vars
    PROVE  IInv'
<1>1. CASE Restart
  BY <1>1, RestartOK
<1>2. CASE TimePasses
  BY <1>2, TimePassesOK
<1>3. ASSUME NEW k \in Key, ReadOutput(k) PROVE IInv'
  BY <1>3, ReadOutputOK
<1>4. ASSUME NEW c \in Client, Step(c) PROVE IInv'
  BY <1>4, BeginOK, RunBuiltinOK, FillInputOK, FillOrphanOK, StartExecOK, ReadInputOK,
     GiveUpOK, ExitOK, ToolFailsOK, AnswerOK, StoreOK, AbortOK DEF Step
<1>5. CASE UNCHANGED vars
  <2>1. TypeOK'
    BY NextTyped DEF IInv
  <2>2. (\A d \in Client : InputOK(d)') /\ \A k \in Key : SlotOK(k)'
    BY <1>5 DEF vars, locals, IInv, InputOK, SlotOK
  <2>3. NumbersApart' /\ (\A h \in held' : HeldOK(h)')
    BY <1>5 DEF vars, locals, IInv, NumbersApart, HeldOK
  <2> QED
    BY <2>1, <2>2, <2>3 DEF IInv
<1> QED
  BY <1>1, <1>2, <1>3, <1>4, <1>5 DEF Next

LEMMA IInvHolds == Spec => []IInv
<1>1. Init => IInv
  BY InitOK
<1>2. IInv /\ [Next]_vars => IInv'
  BY NextOK
<1> QED
  BY <1>1, <1>2, PTL DEF Spec

(* What a builtin tool returns, and an external one whose input file no    *)
(* other call touched in time, is for the params of the call, and a slot   *)
(* shows it with those params.                                             *)
THEOREM ResultsAreOwn == Spec => []OwnResult
<1>1. ASSUME IInv PROVE OwnResult
  <2>1. ASSUME NEW c \in Client, result[c] \in Output, c \notin disturbed,
               executor = "host" \/ req[c].tool \in Builtin
        PROVE  result[c].of = req[c].params
    <3>1. pc[c] = "returned"
      BY <1>1, <2>1, NoResult DEF IInv
    <3>2. req[c] # None
      BY <1>1, <3>1, OneCall, TypeParts DEF IInv
    <3> QED
      BY <1>1, <2>1, <3>2 DEF IInv, InputOK
  <2>2. \A k \in Key : SlotOK(k)
    BY <1>1 DEF IInv
  <2> QED
    BY <2>1, <2>2 DEF OwnResult, SlotOK
<1> QED
  BY <1>1, IInvHolds, PTL

(* However often a call_id is used again and whatever is read when, the    *)
(* result of a call is handed out once at most.                            *)
THEOREM ReadOnce == Spec => []DeliveredOnce
<1>1. IInv => DeliveredOnce
  BY DEF IInv, NumbersApart, DeliveredOnce
<1> QED
  BY <1>1, IInvHolds, PTL

(* No other call drops a result before its five minutes are over.          *)
THEOREM ResultsStay == Spec => []ResultKept
<1>1. ASSUME IInv PROVE ResultKept
  <2> SUFFICES ASSUME NEW h \in held, now - h.at < Life
               PROVE  call_slots[h.key] # None /\ call_slots[h.key].nr = h.nr
    BY DEF ResultKept
  <2>1. h.at \in Nat /\ now \in Nat /\ Life \in Nat /\ HeldOK(h)
    BY <1>1, Distinct DEF IInv, TypeOK, Time
  <2> QED
    BY <2>1 DEF HeldOK
<1> QED
  BY <1>1, IInvHolds, PTL
===============================================================================
