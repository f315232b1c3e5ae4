----------------------------- MODULE MemoryProofs -----------------------------
(***************************************************************************)
(* What the message store guarantees for any callers, messages, ids and    *)
(* page sizes, however calls interleave and wherever they are cut short.   *)
(***************************************************************************)
EXTENDS MemoryModule, FiniteSetTheorems, WellFoundedInduction, TLAPS

(* Pages.  Rows are counted from below, so rows inserted later never move a *)
(* row towards the pages that were fetched already.                         *)

LEMMA RankNat ==
  ASSUME NEW S, IsFiniteSet(S), S \subseteq Int, NEW i \in Int
  PROVE  /\ IsFiniteSet({ j \in S : j < i })
         /\ Rank(i, S) \in Nat
<1>1. { j \in S : j < i } \in SUBSET S
  OBVIOUS
<1>2. IsFiniteSet({ j \in S : j < i })
  BY <1>1, FS_Subset
<1>3. QED  BY <1>2, FS_CardinalityType DEF Rank

\* An insertion moves no row towards the first page.
LEMMA RankGrows ==
  ASSUME NEW S, NEW T, S \subseteq T, IsFiniteSet(T), T \subseteq Int, NEW i \in Int
  PROVE  Rank(i, S) <= Rank(i, T)
<1>1. { j \in S : j < i } \in SUBSET { j \in T : j < i }
  OBVIOUS
<1>2. IsFiniteSet({ j \in T : j < i })
  BY RankNat
<1>3. QED  BY <1>1, <1>2, FS_Subset DEF Rank

LEMMA RankStrict ==
  ASSUME NEW S, IsFiniteSet(S), S \subseteq Int, NEW i \in S, NEW k \in S, i < k
  PROVE  Rank(i, S) < Rank(k, S)
<1> DEFINE A == { j \in S : j < i }
           B == { j \in S : j < k }
<1>1. IsFiniteSet(A) /\ Cardinality(A) = Rank(i, S) /\ Rank(i, S) \in Nat
  BY RankNat DEF Rank
<1>2. IsFiniteSet(B) /\ Cardinality(B) = Rank(k, S) /\ Rank(k, S) \in Nat
  BY RankNat DEF Rank
<1>3. A \cup {i} \in SUBSET B /\ i \notin A
  <2>1. i \in Int /\ k \in Int /\ \A j \in S : j \in Int
    OBVIOUS
  <2>2. \A j \in S : j < i => j < k
    BY <2>1
  <2>3. ~(i < i)
    BY <2>1
  <2>4. QED  BY <2>2, <2>3
<1>4. Cardinality(A \cup {i}) = Cardinality(A) + 1
  BY <1>1, <1>3, FS_AddElement
<1>5. Cardinality(A \cup {i}) <= Cardinality(B)
  BY <1>2, <1>3, FS_Subset
<1>6. QED  BY <1>1, <1>2, <1>4, <1>5

\* LIMIT: a page has no more rows than were asked for.
LEMMA PageSize ==
  ASSUME NEW S, IsFiniteSet(S), S \subseteq Int, NEW n \in Nat, NEW o \in Nat
  PROVE  /\ IsFiniteSet(Page(S, n, o))
         /\ Cardinality(Page(S, n, o)) \in Nat
         /\ Cardinality(Page(S, n, o)) <= n
<1> DEFINE P == Page(S, n, o)
           I == o .. (o + n - 1)
           f == [i \in P |-> Rank(i, S)]
<1>1. P \in SUBSET S
  BY DEF Page
<1>2. IsFiniteSet(P) /\ Cardinality(P) \in Nat
  BY <1>1, FS_Subset, FS_CardinalityType
<1>3. \A i \in P : Rank(i, S) \in I
  <2>1. SUFFICES ASSUME NEW i \in P PROVE Rank(i, S) \in I
    OBVIOUS
  <2>2. i \in S /\ i \in Int
    BY <1>1
  <2>3. Rank(i, S) \in Nat
    BY <2>2, RankNat
  <2>4. o <= Rank(i, S) /\ Rank(i, S) < o + n
    BY DEF Page
  <2>5. QED  BY <2>3, <2>4
<1>4. \A i, k \in P : Rank(i, S) = Rank(k, S) => i = k
  <2>1. SUFFICES ASSUME NEW i \in P, NEW k \in P, i # k PROVE Rank(i, S) # Rank(k, S)
    OBVIOUS
  <2>2. i \in S /\ k \in S /\ i \in Int /\ k \in Int
    BY <1>1
  <2>3. Rank(i, S) \in Nat /\ Rank(k, S) \in Nat
    BY <2>2, RankNat
  <2>4. i < k \/ k < i
    BY <2>1, <2>2
  <2>5. CASE i < k
    <3>1. Rank(i, S) < Rank(k, S)
      BY <2>2, <2>5, RankStrict
    <3>2. QED  BY <2>3, <3>1
  <2>6. CASE k < i
    <3>1. Rank(k, S) < Rank(i, S)
      BY <2>2, <2>6, RankStrict
    <3>2. QED  BY <2>3, <3>1
  <2>7. QED  BY <2>4, <2>5, <2>6
<1>5. f \in Injection(P, I)
  <2>1. f \in [P -> I]
    BY <1>3
  <2>2. \A a, b \in P : f[a] = f[b] => a = b
    BY <1>4
  <2>3. QED  BY <2>1, <2>2, Zenon DEF Injection, IsInjective
<1>6. IsFiniteSet(I) /\ Cardinality(I) = n
  <2>1. o \in Int /\ o + n - 1 \in Int
    OBVIOUS
  <2>2. IsFiniteSet(I) /\ Cardinality(I) = IF o > o + n - 1 THEN 0 ELSE (o + n - 1) - o + 1
    BY <2>1, FS_Interval
  <2>3. QED  BY <2>2
<1>7. Cardinality(P) <= Cardinality(I)
  BY <1>5, <1>6, FS_Injection
<1>8. QED  BY <1>2, <1>6, <1>7

\* OFFSET: while a row is left to come, a page has at least one.
LEMMA NoGap ==
  ASSUME NEW S, IsFiniteSet(S), S \subseteq Nat, NEW n \in Nat, n > 0, NEW o \in Nat,
         NEW i \in S, Rank(i, S) >= o
  PROVE  Page(S, n, o) # {}
<1> DEFINE L == { k \in S : Rank(k, S) >= o }
<1>0. S \subseteq Int /\ \A k \in S : Rank(k, S) \in Nat
  <2>1. S \subseteq Int
    OBVIOUS
  <2>2. SUFFICES ASSUME NEW k \in S PROVE Rank(k, S) \in Nat
    BY <2>1
  <2>3. k \in Int
    BY <2>1
  <2>4. QED  BY <2>1, <2>3, RankNat
<1>1. PICK k \in L : \A j \in L : ~(j < k)
  <2>1. L \subseteq Nat /\ L # {}
    OBVIOUS
  <2>2. IsWellFoundedOn(OpToRel(<, Nat), Nat)
    BY NatLessThanWellFounded
  <2>3. PICK k \in L : \A j \in L : ~(<<j, k>> \in OpToRel(<, Nat))
    BY <2>1, <2>2, WFMin
  <2>4. QED  BY <2>1, <2>3 DEF OpToRel
<1>2. k \in S /\ k \in Nat /\ Rank(k, S) \in Nat /\ Rank(k, S) >= o
  BY <1>0
<1> DEFINE B == { j \in S : j < k }
<1>3. IsFiniteSet(B) /\ Cardinality(B) = Rank(k, S)
  BY <1>0, <1>2, RankNat DEF Rank
<1>4. CASE B = {}
  <2>1. Rank(k, S) = 0
    BY <1>3, <1>4, FS_EmptySet
  <2>2. o <= Rank(k, S) /\ Rank(k, S) < o + n
    BY <1>2, <2>1
  <2> HIDE DEF L
  <2>4. k \in Page(S, n, o)
    BY <1>2, <2>2 DEF Page
  <2>3. QED  BY <2>4
<1>5. CASE B # {}
  \* The row before k is not left to come.
  <2> DEFINE D == { k - j : j \in B }
  <2>1. D \subseteq Nat /\ D # {}
    <3>1. \A j \in B : j \in Nat /\ j < k
      OBVIOUS
    <3>2. \A j \in B : k - j \in Nat
      BY <1>2, <3>1
    <3>3. QED  BY <1>5, <3>2
  <2>2. IsWellFoundedOn(OpToRel(<, Nat), Nat)
    BY NatLessThanWellFounded
  <2>3. PICK d \in D : \A e \in D : ~(<<e, d>> \in OpToRel(<, Nat))
    BY <2>1, <2>2, WFMin
  <2>4. PICK m \in B : d = k - m
    OBVIOUS
  <2>5. m \in S /\ m \in Nat /\ m < k
    OBVIOUS
  <2>6. \A j \in B : j <= m
    <3>1. SUFFICES ASSUME NEW j \in B PROVE j <= m
      OBVIOUS
    <3>2. j \in Nat /\ j < k /\ k - j \in D
      BY <1>2
    <3>3. ~(<<k - j, d>> \in OpToRel(<, Nat))
      BY <2>3, <3>2
    <3>4. k - j \in Nat /\ d \in Nat
      BY <2>1, <3>2
    <3>5. ~(k - j < d)
      BY <3>3, <3>4 DEF OpToRel
    <3>6. QED  BY <1>2, <2>4, <2>5, <3>2, <3>5
  <2>7. B = { j \in S : j < m } \cup {m}
    <3>1. \A j \in B : j \in S /\ j \in Nat /\ j < k
      OBVIOUS
    <3>2. \A j \in B : j < m \/ j = m
      BY <2>5, <2>6, <3>1
    <3>3. \A j \in S : j \in Nat
      OBVIOUS
    <3>4. \A j \in S : j < m => j < k
      BY <1>2, <2>5, <3>3
    <3>5. QED  BY <2>5, <3>1, <3>2, <3>4
  <2>8. IsFiniteSet({ j \in S : j < m }) /\ Rank(m, S) \in Nat
    BY <1>0, <2>5, RankNat
  <2>9. Cardinality(B) = Rank(m, S) + 1
    <3>1. m \notin { j \in S : j < m }
      BY <2>5
    <3>2. Cardinality({ j \in S : j < m } \cup {m}) = Cardinality({ j \in S : j < m }) + 1
      BY <2>8, <3>1, FS_AddElement
    <3>3. QED  BY <2>7, <3>2 DEF Rank
  <2>10. m \notin L
    BY <1>1, <2>5
  <2>11. Rank(m, S) < o
    BY <2>5, <2>8, <2>10
  <2>12. o <= Rank(k, S) /\ Rank(k, S) < o + n
    BY <1>2, <1>3, <2>8, <2>9, <2>11
  <2>13. QED  BY <1>2, <2>12 DEF Page
<1>6. QED  BY <1>4, <1>5
-------------------------------------------------------------------------------
(* TypeOK in three parts: the tables, the calls, the reader.                *)
TablesOK ==
    /\ messages \in [Id -> Row \cup {None}]
    /\ messages_fts \in [Id -> Text \cup {None}]
    /\ observed \subseteq [msg_id : Id, text : Text, reply_to : Id \cup {None}]
    /\ summaries \in Seq(SummaryRow)
    /\ triples \subseteq Triple
    /\ acked \in [messages : SUBSET Id, triples : SUBSET Triple]

CallsOK ==
    /\ pc \in [Client -> {"idle", "insert", "fts", "observe", "patch", "write_summary", "graph"}]
    /\ reply_to \in [Client -> Id \cup {None}]
    /\ msg_id \in [Client -> Id \cup {None}]
    /\ left \in [Client -> Seq(Triple)]
    /\ DOMAIN req = Client /\ DOMAIN json = Client
    /\ \A c \in Client :
         /\ pc[c] \in {"insert", "fts", "observe"} => req[c] \in MessageRequest
         /\ pc[c] \in {"fts", "observe"} <=> msg_id[c] # None
         /\ pc[c] = "patch" => req[c] \in SummaryRequest
         /\ pc[c] = "write_summary" => IsJson(json[c])
         /\ pc[c] = "graph" => req[c] \in GraphRequest

ReaderOK ==
    reader \in [at : {"idle", "reading", "done"}, offset : Nat,
               got : SUBSET Id, owed : SUBSET Id]

LEMMA TypeParts == TypeOK <=> TablesOK /\ CallsOK /\ ReaderOK
BY DEF TypeOK, TablesOK, CallsOK, ReaderOK

LEMMA TypePartsNext == TablesOK' /\ CallsOK' /\ ReaderOK' => TypeOK'
BY DEF TypeOK, TablesOK, CallsOK, ReaderOK

\* None is no row number: it compares with one as different.
LEMMA NoneIsNoId == None \notin Id
BY ConstantsOK DEF Id

LEMMA LeaveOK ==
  ASSUME CallsOK, NEW c \in Client, Leave(c)
  PROVE  CallsOK'
BY DEF CallsOK, Leave

LEMMA MergeOK ==
  ASSUME NEW a, IsJson(a), NEW b, IsJson(b)
  PROVE  IsJson(Merge(a, b))
<1> DEFINE M == Merge(a, b)
<1>1. DOMAIN M = DOMAIN a \cup DOMAIN b
  BY DEF Merge
<1>2. \A f \in DOMAIN M : M[f] \in Cell(f)
  BY DEF Merge, IsJson
<1>3. QED  BY <1>1, <1>2 DEF IsJson

LEMMA DefaultOK == IsJson(Default) /\ DOMAIN Default = Column
<1>1. \A f \in Column : Default[f] \in Cell(f)
  BY DEF Default, Column, Cell
<1>2. QED  BY <1>1 DEF Default, IsJson

\* The columns that the JSON of a summary lacks are filled in.
LEMMA FilledIn ==
  ASSUME NEW d, IsJson(d)
  PROVE  Merge(Default, d) \in SummaryRow
<1> DEFINE M == Merge(Default, d)
<1>1. IsJson(M)
  BY DefaultOK, MergeOK
<1>2. M = [f \in Column |-> M[f]]
  BY DefaultOK DEF Merge, IsJson
<1>3. DOMAIN M = Column
  BY <1>2
<1>4. \A f \in Column : M[f] \in Cell(f)
  BY <1>1, <1>3 DEF IsJson
<1>5. /\ M["layer"] \in Layer \cup {""} /\ M["period_start"] \in Nat
      /\ M["content"] \in Content \cup {""}
  BY <1>4 DEF Cell, Column
<1>6. M = [layer |-> M["layer"], period_start |-> M["period_start"], content |-> M["content"]]
  BY <1>2 DEF Column
<1>7. QED  BY <1>5, <1>6 DEF SummaryRow
-------------------------------------------------------------------------------
(* What SummaryDb::read returns.                                            *)

LEMMA RowTypes ==
  ASSUME summaries \in Seq(SummaryRow), NEW k \in DOMAIN summaries
  PROVE  /\ k \in Nat /\ IsJson(summaries[k])
         /\ summaries[k].period_start \in Nat
<1>1. summaries[k] \in SummaryRow /\ k \in Nat
  OBVIOUS
<1>2. DOMAIN summaries[k] = Column
  BY <1>1 DEF SummaryRow, Column
<1>3. /\ summaries[k]["layer"] \in Layer \cup {""} /\ summaries[k]["period_start"] \in Nat
      /\ summaries[k]["content"] \in Content \cup {""}
  BY <1>1 DEF SummaryRow
<1>4. \A f \in Column : summaries[k][f] \in Cell(f)
  BY <1>3 DEF Cell, Column
<1>5. QED  BY <1>1, <1>2, <1>3, <1>4 DEF IsJson

LEMMA RowsFinite ==
  ASSUME summaries \in Seq(SummaryRow), NEW rows \in SUBSET (DOMAIN summaries)
  PROVE  IsFiniteSet(rows)
<1>1. DOMAIN summaries = 1 .. Len(summaries) /\ Len(summaries) \in Int
  OBVIOUS
<1>2. IsFiniteSet(DOMAIN summaries)
  BY <1>1, FS_Interval
<1>3. QED  BY <1>2, FS_Subset

\* Rows that come before row k in ORDER BY period_start DESC.
Before(k, rows) ==
    { j \in rows :
        \/ summaries[k].period_start < summaries[j].period_start
        \/ summaries[k].period_start = summaries[j].period_start /\ k < j }

LEMMA BeforeShrinks ==
  ASSUME summaries \in Seq(SummaryRow), NEW rows \in SUBSET (DOMAIN summaries),
         NEW k \in rows, NEW j \in Before(k, rows)
  PROVE  Cardinality(Before(j, rows)) < Cardinality(Before(k, rows))
<1> DEFINE A == Before(j, rows)
           B == Before(k, rows)
<1>1. j \in rows /\ \A i \in rows : i \in Nat /\ summaries[i].period_start \in Nat
  BY RowTypes DEF Before
<1>2. A \subseteq B
  <2>1. SUFFICES ASSUME NEW i \in A PROVE i \in B
    OBVIOUS
  <2>2. i \in rows
    BY DEF Before
  <2>3. \/ summaries[j].period_start < summaries[i].period_start
        \/ summaries[j].period_start = summaries[i].period_start /\ j < i
    BY DEF Before
  <2>4. \/ summaries[k].period_start < summaries[j].period_start
        \/ summaries[k].period_start = summaries[j].period_start /\ k < j
    BY DEF Before
  <2>5. \/ summaries[k].period_start < summaries[i].period_start
        \/ summaries[k].period_start = summaries[i].period_start /\ k < i
    BY <1>1, <2>2, <2>3, <2>4
  <2>6. QED  BY <2>2, <2>5 DEF Before
<1>3. j \in B /\ j \notin A
  <2>1. ~(summaries[j].period_start < summaries[j].period_start) /\ ~(j < j)
    BY <1>1
  <2>2. QED  BY <2>1 DEF Before
<1>4. B \in SUBSET rows
  BY DEF Before
<1>5. IsFiniteSet(A) /\ IsFiniteSet(B)
  BY <1>2, <1>4, RowsFinite
<1>6. IsFiniteSet(B \ {j}) /\ Cardinality(B \ {j}) = Cardinality(B) - 1
  BY <1>3, <1>5, FS_RemoveElement
<1>7. A \in SUBSET (B \ {j})
  BY <1>2, <1>3
<1>8. Cardinality(A) <= Cardinality(B \ {j})
  BY <1>6, <1>7, FS_Subset
<1>9. Cardinality(A) \in Nat /\ Cardinality(B) \in Nat
  BY <1>5, FS_CardinalityType
<1>10. QED  BY <1>6, <1>8, <1>9

LEMMA NewestIsLatest ==
  ASSUME summaries \in Seq(SummaryRow), NEW rows \in SUBSET (DOMAIN summaries), rows # {}
  PROVE  /\ Newest(rows) \in rows
         /\ \A j \in rows : summaries[j].period_start <= summaries[Newest(rows)].period_start
<1> DEFINE C == { Cardinality(Before(k, rows)) : k \in rows }
           Latest(k) == \A j \in rows :
               \/ summaries[j].period_start < summaries[k].period_start
               \/ summaries[j].period_start = summaries[k].period_start /\ j <= k
<1>1. \A i \in rows : i \in Nat /\ summaries[i].period_start \in Nat
  BY RowTypes
<1>2. C \subseteq Nat /\ C # {}
  <2>1. \A k \in rows : Before(k, rows) \in SUBSET rows
    BY DEF Before
  <2>2. \A k \in rows : IsFiniteSet(Before(k, rows))
    BY <2>1, RowsFinite
  <2>3. \A k \in rows : Cardinality(Before(k, rows)) \in Nat
    BY <2>2, FS_CardinalityType
  <2>4. QED  BY <2>3
<1>3. PICK n \in C : \A m \in C : ~(<<m, n>> \in OpToRel(<, Nat))
  BY <1>2, NatLessThanWellFounded, WFMin
<1>4. PICK k \in rows : n = Cardinality(Before(k, rows))
  OBVIOUS
<1>5. Before(k, rows) = {}
  <2>1. SUFFICES ASSUME NEW j \in Before(k, rows) PROVE FALSE
    OBVIOUS
  <2>2. j \in rows /\ Cardinality(Before(j, rows)) \in C
    BY DEF Before
  <2>3. Cardinality(Before(j, rows)) < n
    BY <1>4, BeforeShrinks
  <2>4. <<Cardinality(Before(j, rows)), n>> \in OpToRel(<, Nat)
    BY <1>2, <2>2, <2>3 DEF OpToRel
  <2>5. QED  BY <1>3, <2>2, <2>4
<1>6. Latest(k)
  <2>1. SUFFICES ASSUME NEW j \in rows
                 PROVE  \/ summaries[j].period_start < summaries[k].period_start
                        \/ summaries[j].period_start = summaries[k].period_start /\ j <= k
    OBVIOUS
  <2>2. ~(\/ summaries[k].period_start < summaries[j].period_start
          \/ summaries[k].period_start = summaries[j].period_start /\ k < j)
    BY <1>5 DEF Before
  <2>3. QED  BY <1>1, <2>2
<1>7. Newest(rows) \in rows /\ Latest(Newest(rows))
  BY <1>6 DEF Newest
<1>8. QED  BY <1>1, <1>7

LEMMA OldestIsARow ==
  ASSUME summaries \in Seq(SummaryRow), NEW rows \in SUBSET (DOMAIN summaries), rows # {}
  PROVE  Oldest(rows) \in rows
<1>1. \A i \in rows : i \in Nat
  BY RowTypes
<1>2. PICK k \in rows : \A j \in rows : ~(<<j, k>> \in OpToRel(<, Nat))
  BY <1>1, NatLessThanWellFounded, WFMin
<1>3. \A j \in rows : k <= j
  <2>1. SUFFICES ASSUME NEW j \in rows, ~(k <= j) PROVE FALSE
    OBVIOUS
  <2>2. j \in Nat /\ k \in Nat /\ j < k
    BY <1>1, <2>1
  <2>3. <<j, k>> \in OpToRel(<, Nat)
    BY <2>2 DEF OpToRel
  <2>4. QED  BY <1>2, <2>3
<1>4. QED  BY <1>3 DEF Oldest

\* A read returns a row that matches, if there is one.
LEMMA ReadFinds ==
  ASSUME summaries \in Seq(SummaryRow), NEW l, NEW key, Matching(l, key) # {}
  PROVE  ReadSummary(l, key) \in Matching(l, key) /\ IsJson(summaries[ReadSummary(l, key)])
<1>1. Matching(l, key) \in SUBSET (DOMAIN summaries)
  BY DEF Matching, Of
<1>2. ReadSummary(l, key) \in Matching(l, key)
  BY <1>1, NewestIsLatest, OldestIsARow DEF ReadSummary
<1>3. QED  BY <1>1, <1>2, RowTypes

-------------------------------------------------------------------------------
(* Type correctness.                                                        *)

LEMMA BeginOK ==
  ASSUME CallsOK, NEW c \in Client, NEW r, NEW l, Begin(c, r, l),
         reply_to' \in [Client -> Id \cup {None}],
         \/ l = "insert" /\ r \in MessageRequest /\ UNCHANGED <<json, left>>
         \/ l = "write_summary" /\ json' = [json EXCEPT ![c] = r.json]
              /\ IsJson(r.json) /\ UNCHANGED left
         \/ l = "patch" /\ r \in SummaryRequest /\ UNCHANGED <<json, left>>
         \/ l = "graph" /\ r \in GraphRequest /\ UNCHANGED json
              /\ left' = [left EXCEPT ![c] = r]
  PROVE  CallsOK'
<1>1. msg_id[c] = None /\ msg_id' = msg_id
  BY DEF CallsOK, Begin
<1>2. left' \in [Client -> Seq(Triple)]
  BY ConstantsOK DEF CallsOK
<1>3. DOMAIN req' = Client /\ DOMAIN json' = Client
  BY DEF CallsOK, Begin
<1>4. ASSUME NEW d \in Client, d # c
      PROVE  pc'[d] = pc[d] /\ req'[d] = req[d] /\ json'[d] = json[d]
  BY <1>4 DEF CallsOK, Begin
<1>5. pc' \in [Client -> {"idle", "insert", "fts", "observe", "patch", "write_summary", "graph"}]
  BY DEF CallsOK, Begin
<1>6. pc'[c] = l /\ req'[c] = r
  BY DEF CallsOK, Begin
<1>7. l = "write_summary" => IsJson(json'[c])
  BY DEF CallsOK
<1>8. ASSUME NEW d \in Client
      PROVE  /\ pc'[d] \in {"insert", "fts", "observe"} => req'[d] \in MessageRequest
             /\ pc'[d] \in {"fts", "observe"} <=> msg_id'[d] # None
             /\ pc'[d] = "patch" => req'[d] \in SummaryRequest
             /\ pc'[d] = "write_summary" => IsJson(json'[d])
             /\ pc'[d] = "graph" => req'[d] \in GraphRequest
  <2>1. CASE d = c
    BY <1>1, <1>6, <1>7, <2>1
  <2>2. CASE d # c
    BY <1>1, <1>4, <2>2 DEF CallsOK
  <2>3. QED  BY <2>1, <2>2
<1>9. QED  BY <1>1, <1>2, <1>3, <1>5, <1>8 DEF CallsOK

LEMMA TypeInit == Init => TypeOK
<1> SUFFICES ASSUME Init PROVE TypeOK
  OBVIOUS
<1>1. TablesOK
  BY DEF Init, TablesOK
<1>2. CallsOK
  BY DEF Init, CallsOK
<1>3. ReaderOK
  BY DEF Init, ReaderOK
<1>4. QED  BY <1>1, <1>2, <1>3, TypeParts

\* The messages and their index.
LEMMA MessageCallType ==
  ASSUME TypeOK, NEW c \in Client,
         \/ WriteMessage(c) \/ InsertMessage(c) \/ IdTaken(c) \/ SyncFts(c) \/ Observe(c)
  PROVE  TypeOK'
<1> USE TypeParts, TypePartsNext DEF locals
<1>1. CASE WriteMessage(c)
  <2>1. PICK r \in MessageRequest :
          /\ Begin(c, r, "insert") /\ UNCHANGED <<json, left>>
          /\ \E t \in IF r.reply THEN Recent(ViewLimit) ELSE {None} :
               reply_to' = [reply_to EXCEPT ![c] = t]
    BY <1>1 DEF WriteMessage
  <2>2. Recent(ViewLimit) \subseteq Id
    BY DEF Recent, Stored
  <2>3. reply_to' \in [Client -> Id \cup {None}]
    BY <2>1, <2>2 DEF CallsOK
  <2>4. CallsOK'
    BY <2>1, <2>3, BeginOK
  <2>5. TablesOK' /\ ReaderOK'
    BY <2>1 DEF Begin, TablesOK, ReaderOK
  <2>6. QED  BY <2>4, <2>5
<1>2. CASE InsertMessage(c)
  <2>1. pc[c] = "insert" /\ req[c] \in MessageRequest
    BY <1>2 DEF InsertMessage, CallsOK
  <2>2. PICK i \in Id : Insert(c, i)
    BY <1>2 DEF InsertMessage
  <2>3. [text |-> req[c].text, reply_to |-> reply_to[c]] \in Row
    BY <2>1, ConstantsOK DEF Row, CallsOK
  <2>4. TablesOK'
    BY <2>2, <2>3 DEF Insert, TablesOK
  <2>5. CallsOK'
    BY <2>1, <2>2, NoneIsNoId DEF Insert, CallsOK
  <2>6. ReaderOK'
    BY <2>2 DEF Insert, ReaderOK
  <2>7. QED  BY <2>4, <2>5, <2>6
<1>3. CASE IdTaken(c)
  <2>1. CallsOK'
    BY <1>3, LeaveOK DEF IdTaken
  <2>2. TablesOK' /\ ReaderOK'
    BY <1>3 DEF IdTaken, TablesOK, ReaderOK
  <2>3. QED  BY <2>1, <2>2
<1>4. CASE SyncFts(c)
  <2>1. req[c] \in MessageRequest /\ pc[c] = "fts"
    BY <1>4 DEF SyncFts, CallsOK
  <2>2. req[c].text \in Text
    BY <2>1, ConstantsOK
  <2>3. TablesOK'
    BY <1>4, <2>2 DEF SyncFts, TablesOK
  <2>4. CallsOK'
    BY <1>4, <2>1 DEF SyncFts, CallsOK
  <2>5. ReaderOK'
    BY <1>4 DEF SyncFts, ReaderOK
  <2>6. QED  BY <2>3, <2>4, <2>5
<1>5. CASE Observe(c)
  <2>1. req[c] \in MessageRequest /\ pc[c] = "observe"
    BY <1>5 DEF Observe, CallsOK
  <2>2. req[c].text \in Text /\ msg_id[c] \in Id /\ reply_to[c] \in Id \cup {None}
    BY <2>1, ConstantsOK DEF CallsOK
  <2>3. TablesOK'
    BY <1>5, <2>2 DEF Observe, TablesOK, MsgRef
  <2>4. CallsOK'
    BY <1>5, LeaveOK DEF Observe
  <2>5. ReaderOK'
    BY <1>5 DEF Observe, ReaderOK
  <2>6. QED  BY <2>3, <2>4, <2>5
<1>6. QED  BY <1>1, <1>2, <1>3, <1>4, <1>5

\* The plugins.
LEMMA PluginCallType ==
  ASSUME TypeOK, NEW c \in Client,
         \/ WriteSummary(c) \/ PatchSummary(c) \/ PatchRead(c) \/ InsertSummary(c)
         \/ WriteGraph(c) \/ InsertTriple(c) \/ GraphDone(c) \/ Abort(c)
  PROVE  TypeOK'
<1> USE TypeParts, TypePartsNext DEF locals
<1>1. CASE WriteSummary(c)
  <2>1. PICK r \in SummaryRequest :
          /\ Begin(c, r, "write_summary") /\ json' = [json EXCEPT ![c] = r.json]
          /\ UNCHANGED <<reply_to, left>>
    BY <1>1 DEF WriteSummary
  <2>2. IsJson(r.json) /\ reply_to' \in [Client -> Id \cup {None}]
    BY <2>1, ConstantsOK DEF CallsOK
  <2>3. CallsOK'
    BY <2>1, <2>2, BeginOK
  <2>4. TablesOK' /\ ReaderOK'
    BY <2>1 DEF Begin, TablesOK, ReaderOK
  <2>5. QED  BY <2>3, <2>4
<1>2. CASE PatchSummary(c)
  <2>1. PICK r \in SummaryRequest :
          Begin(c, r, "patch") /\ UNCHANGED <<reply_to, json, left>>
    BY <1>2 DEF PatchSummary
  <2>2. reply_to' \in [Client -> Id \cup {None}]
    BY <2>1 DEF CallsOK
  <2>3. CallsOK'
    BY <2>1, <2>2, BeginOK
  <2>4. TablesOK' /\ ReaderOK'
    BY <2>1 DEF Begin, TablesOK, ReaderOK
  <2>5. QED  BY <2>3, <2>4
<1>3. CASE PatchRead(c)
  <2> DEFINE l == req[c].layer
             key == req[c].period
             new == IF Matching(l, key) = {} THEN req[c].json
                    ELSE Merge(summaries[ReadSummary(l, key)], req[c].json)
  <2>1. pc[c] = "patch" /\ IsJson(req[c].json)
    BY <1>3, ConstantsOK DEF PatchRead, CallsOK
  <2>2. IsJson(new)
    <3>1. CASE Matching(l, key) = {}
      BY <2>1, <3>1
    <3>2. CASE Matching(l, key) # {}
      <4>1. IsJson(summaries[ReadSummary(l, key)])
        BY <3>2, ReadFinds DEF TablesOK
      <4>2. QED  BY <2>1, <3>2, <4>1, MergeOK
    <3>3. QED  BY <3>1, <3>2
  <2>3. /\ json' = [json EXCEPT ![c] = new] /\ pc' = [pc EXCEPT ![c] = "write_summary"]
        /\ UNCHANGED <<req, reply_to, msg_id, left>>
    BY <1>3 DEF PatchRead
  <2> HIDE DEF new
  <2>4. CallsOK'
    BY <2>1, <2>2, <2>3 DEF CallsOK
  <2>5. TablesOK' /\ ReaderOK'
    BY <1>3 DEF PatchRead, TablesOK, ReaderOK
  <2>6. QED  BY <2>4, <2>5
<1>4. CASE InsertSummary(c)
  <2>1. IsJson(json[c])
    BY <1>4 DEF InsertSummary, CallsOK
  <2>2. Merge(Default, json[c]) \in SummaryRow
    BY <2>1, FilledIn
  <2>3. summaries' \in Seq(SummaryRow)
    BY <1>4, <2>2 DEF InsertSummary, TablesOK
  <2>4. TablesOK' /\ ReaderOK'
    BY <1>4, <2>3 DEF InsertSummary, TablesOK, ReaderOK
  <2>5. CallsOK'
    BY <1>4, LeaveOK DEF InsertSummary
  <2>6. QED  BY <2>4, <2>5
<1>5. CASE WriteGraph(c)
  <2>1. PICK r \in GraphRequest :
          /\ Begin(c, r, "graph") /\ left' = [left EXCEPT ![c] = r]
          /\ UNCHANGED <<reply_to, json>>
    BY <1>5 DEF WriteGraph
  <2>2. reply_to' \in [Client -> Id \cup {None}]
    BY <2>1 DEF CallsOK
  <2>3. CallsOK'
    BY <2>1, <2>2, BeginOK
  <2>4. TablesOK' /\ ReaderOK'
    BY <2>1 DEF Begin, TablesOK, ReaderOK
  <2>5. QED  BY <2>3, <2>4
<1>6. CASE InsertTriple(c)
  <2>1. left[c] \in Seq(Triple) /\ left[c] # << >>
    BY <1>6 DEF InsertTriple, CallsOK
  <2>2. Head(left[c]) \in Triple /\ Tail(left[c]) \in Seq(Triple)
    BY <2>1
  <2>3. TablesOK' /\ ReaderOK'
    BY <1>6, <2>2 DEF InsertTriple, TablesOK, ReaderOK
  <2>4. CallsOK'
    BY <1>6, <2>2 DEF InsertTriple, CallsOK
  <2>5. QED  BY <2>3, <2>4
<1>7. CASE GraphDone(c)
  <2>1. req[c] \in Seq(Triple)
    BY <1>7, ConstantsOK DEF GraphDone, CallsOK
  <2>2. { req[c][k] : k \in DOMAIN req[c] } \subseteq Triple
    BY <2>1
  <2>3. TablesOK' /\ ReaderOK'
    BY <1>7, <2>2 DEF GraphDone, TablesOK, ReaderOK
  <2>4. CallsOK'
    BY <1>7, LeaveOK DEF GraphDone
  <2>5. QED  BY <2>3, <2>4
<1>8. CASE Abort(c)
  <2>1. CallsOK'
    BY <1>8, LeaveOK DEF Abort
  <2>2. TablesOK' /\ ReaderOK'
    BY <1>8 DEF Abort, TablesOK, ReaderOK
  <2>3. QED  BY <2>1, <2>2
<1>9. QED  BY <1>1, <1>2, <1>3, <1>4, <1>5, <1>6, <1>7, <1>8

\* The reader.
LEMMA InRangesFinite ==
  ASSUME TRUE
  PROVE  /\ InRanges \subseteq Id /\ IsFiniteSet(InRanges)
         /\ InRanges \subseteq Nat /\ InRanges \subseteq Int
<1>1. InRanges \in SUBSET Id /\ Id \subseteq Nat
  BY ConstantsOK DEF InRanges, Stored, Id
<1>2. IsFiniteSet(Id)
  BY ConstantsOK, FS_Interval DEF Id
<1>3. IsFiniteSet(InRanges)
  BY <1>1, <1>2, FS_Subset
<1>4. QED  BY <1>1, <1>3

LEMMA ClampedLimit == Clamp(Limit, 1, RANGE_FETCH_MAX_LIMIT) \in Nat \ {0}
BY ConstantsOK DEF Clamp

LEMMA ReaderType ==
  ASSUME TypeOK, StartReading \/ NextPage
  PROVE  TypeOK'
<1> USE TypeParts, TypePartsNext DEF locals
<1>1. TablesOK' /\ CallsOK'
  BY DEF StartReading, NextPage, TablesOK, CallsOK
<1>2. CASE StartReading
  BY <1>1, <1>2, InRangesFinite DEF StartReading, ReaderOK
<1>3. CASE NextPage
  <2> DEFINE page == RangeFetch(Limit, reader.offset)
  <2>1. reader.offset \in Nat
    BY DEF ReaderOK
  <2>2. page \subseteq Id
    BY InRangesFinite DEF RangeFetch, Page
  <2>3. Cardinality(page) \in Nat
    BY <2>1, ClampedLimit, InRangesFinite, PageSize DEF RangeFetch
  <2>4. /\ reader'.at = IF page = {} THEN "done" ELSE reader.at
        /\ reader'.offset = reader.offset + Cardinality(page)
        /\ reader'.got = reader.got \cup page /\ reader'.owed = reader.owed
        /\ reader' = [at |-> reader'.at, offset |-> reader'.offset,
                      got |-> reader'.got, owed |-> reader'.owed]
    BY <1>3 DEF NextPage, ReaderOK
  <2> HIDE DEF page
  <2>5. ReaderOK'
    <3>1. reader'.at \in {"idle", "reading", "done"}
      BY <2>4 DEF ReaderOK
    <3>2. reader'.offset \in Nat
      BY <2>1, <2>3, <2>4
    <3>3. reader'.got \in SUBSET Id /\ reader'.owed \in SUBSET Id
      BY <2>2, <2>4 DEF ReaderOK
    <3>4. QED  BY <2>4, <3>1, <3>2, <3>3 DEF ReaderOK
  <2>6. QED  BY <1>1, <2>5
<1>4. QED  BY <1>2, <1>3

LEMMA TypeStep == TypeOK /\ [Next]_vars => TypeOK'
<1> SUFFICES ASSUME TypeOK, [Next]_vars PROVE TypeOK'
  OBVIOUS
<1>1. ASSUME NEW c \in Client, Step(c) PROVE TypeOK'
  BY <1>1, MessageCallType, PluginCallType DEF Step
<1>2. CASE StartReading \/ NextPage
  BY <1>2, ReaderType
<1>3. CASE UNCHANGED vars
  BY <1>3 DEF vars, locals, TypeOK
<1>4. QED  BY <1>1, <1>2, <1>3 DEF Next

\* The state of the tables, the calls and the reader has its types, and a call
\* has the locals that its point in the code needs.
THEOREM TypeCorrect == Spec => []TypeOK
BY TypeInit, TypeStep, PTL DEF Spec
-------------------------------------------------------------------------------
(* The archive.  The invariant says what a writer has already established   *)
(* at each point: the row is in, then it is indexed; of a graph write, what *)
(* it has not written yet is left.                                          *)

Written(c) == messages[msg_id[c]] = [text |-> req[c].text, reply_to |-> reply_to[c]]
Indexed(c) == messages_fts[msg_id[c]] = req[c].text
Remaining(c) ==
    \A k \in DOMAIN req[c] :
        req[c][k] \in triples \/ \E n \in DOMAIN left[c] : left[c][n] = req[c][k]

WriterInv ==
    \A c \in Client :
        /\ pc[c] \in {"fts", "observe"} => Written(c)
        /\ pc[c] = "observe" => Indexed(c)
        /\ pc[c] = "graph" => Remaining(c)

IndexInv ==
    \A i \in Id : messages_fts[i] # None =>
        messages[i] # None /\ messages[i].text = messages_fts[i]

ArchiveInv == TypeOK /\ WriterInv /\ IndexInv /\ AckedIsComplete

\* Nothing is taken away from the tables.
Grows ==
    /\ \A i \in Id : messages[i] # None => messages'[i] = messages[i]
    /\ \A i \in Id : messages_fts[i] # None => messages_fts'[i] = messages_fts[i]
    /\ observed \subseteq observed' /\ triples \subseteq triples'

LEMMA NoneIsNoRow == None \notin Row /\ None \notin Text
BY ConstantsOK DEF Row

LEMMA WriterFacts ==
  ASSUME TypeOK, WriterInv, NEW c \in Client, pc[c] \in {"fts", "observe"}
  PROVE  /\ msg_id[c] \in Id /\ req[c].text \in Text
         /\ messages[msg_id[c]] # None /\ messages[msg_id[c]].text = req[c].text
         /\ messages[msg_id[c]].reply_to = reply_to[c]
<1>1. msg_id[c] \in Id /\ req[c] \in MessageRequest
  BY DEF TypeOK
<1>2. req[c].text \in Text
  BY <1>1, ConstantsOK
<1>3. reply_to[c] \in Id \cup {None}
  BY DEF TypeOK
<1>4. Written(c)
  BY DEF WriterInv
<1>5. messages[msg_id[c]] \in Row
  BY <1>2, <1>3, <1>4 DEF Written, Row
<1>6. QED  BY <1>1, <1>2, <1>4, <1>5, NoneIsNoRow DEF Written

LEMMA TablesUnchanged ==
  ASSUME UNCHANGED <<messages, messages_fts, observed, triples>>
  PROVE  Grows
BY DEF Grows

LEMMA StepGrows ==
  ASSUME ArchiveInv, [Next]_vars
  PROVE  Grows
<1> USE DEF ArchiveInv
<1>1. ASSUME NEW c \in Client, Step(c) PROVE Grows
  <2>1. CASE InsertMessage(c)
    <3>1. PICK i \in Id : i \notin Stored /\ Insert(c, i)
      <4>1. PICK i \in Id :
              /\ \/ i = req[c].msg_id /\ i \notin Stored
                 \/ req[c].msg_id = None /\ NextId(i)
              /\ Insert(c, i)
        BY <2>1 DEF InsertMessage
      <4>2. ~(i < i)
        BY ConstantsOK DEF Id
      <4>3. QED  BY <4>1, <4>2 DEF NextId
    <3>2. \A j \in Id : messages[j] # None => messages'[j] = messages[j]
      BY <3>1 DEF Insert, Stored, TypeOK
    <3>3. QED  BY <3>1, <3>2 DEF Insert, Grows
  <2>2. CASE SyncFts(c)
    <3>1. msg_id[c] \in Id /\ messages[msg_id[c]].text = req[c].text
      BY <2>2, WriterFacts DEF SyncFts
    <3>2. messages_fts' = [messages_fts EXCEPT ![msg_id[c]] = req[c].text]
      BY <2>2 DEF SyncFts
    <3>3. \A i \in Id : messages_fts[i] # None => messages_fts'[i] = messages_fts[i]
      BY <3>1, <3>2 DEF IndexInv, TypeOK
    <3>4. QED  BY <2>2, <3>3 DEF SyncFts, Grows
  <2>3. CASE Observe(c)
    BY <2>3 DEF Observe, Grows
  <2>4. CASE InsertTriple(c)
    BY <2>4 DEF InsertTriple, Grows
  <2>5. CASE WriteMessage(c) \/ WriteSummary(c) \/ PatchSummary(c) \/ WriteGraph(c)
    BY <2>5, TablesUnchanged DEF WriteMessage, WriteSummary, PatchSummary, WriteGraph, Begin
  <2>6. CASE IdTaken(c) \/ PatchRead(c) \/ InsertSummary(c) \/ GraphDone(c) \/ Abort(c)
    BY <2>6, TablesUnchanged DEF IdTaken, PatchRead, InsertSummary, GraphDone, Abort
  <2>7. QED  BY <1>1, <2>1, <2>2, <2>3, <2>4, <2>5, <2>6 DEF Step
<1>2. CASE StartReading \/ NextPage
  BY <1>2, TablesUnchanged DEF StartReading, NextPage
<1>3. CASE UNCHANGED vars
  BY <1>3, TablesUnchanged DEF vars
<1>4. QED  BY <1>1, <1>2, <1>3 DEF Next

\* What a writer has established stays, whoever else takes steps.
LEMMA WriterStays ==
  ASSUME ArchiveInv, Grows, NEW c \in Client,
         pc'[c] = pc[c], req'[c] = req[c], reply_to'[c] = reply_to[c],
         msg_id'[c] = msg_id[c], left'[c] = left[c]
  PROVE  /\ pc'[c] \in {"fts", "observe"} => Written(c)'
         /\ pc'[c] = "observe" => Indexed(c)'
         /\ pc'[c] = "graph" => Remaining(c)'
<1> USE DEF ArchiveInv
<1>1. ASSUME pc[c] \in {"fts", "observe"}
      PROVE  messages'[msg_id[c]] = messages[msg_id[c]] /\ Written(c)
  BY <1>1, WriterFacts DEF Grows, WriterInv
<1>2. ASSUME pc[c] = "observe"
      PROVE  Indexed(c) /\ messages_fts'[msg_id[c]] = messages_fts[msg_id[c]]
  <2>1. Indexed(c) /\ msg_id[c] \in Id /\ req[c].text \in Text
    BY <1>2, WriterFacts DEF WriterInv
  <2>2. messages_fts[msg_id[c]] # None
    BY <2>1, NoneIsNoRow DEF Indexed
  <2>3. QED  BY <2>1, <2>2 DEF Grows
<1>3. ASSUME pc[c] = "graph" PROVE Remaining(c)'
  <2>1. Remaining(c) /\ triples \subseteq triples'
    BY <1>3 DEF WriterInv, Grows
  <2>2. QED  BY <2>1 DEF Remaining
<1>4. QED  BY <1>1, <1>2, <1>3 DEF Written, Indexed
LEMMA OthersStay ==
  ASSUME ArchiveInv, Grows, NEW c \in Client,
         \A d \in Client \ {c} :
             /\ pc'[d] = pc[d] /\ req'[d] = req[d] /\ reply_to'[d] = reply_to[d]
             /\ msg_id'[d] = msg_id[d] /\ left'[d] = left[d],
         pc'[c] \in {"fts", "observe"} => Written(c)',
         pc'[c] = "observe" => Indexed(c)',
         pc'[c] = "graph" => Remaining(c)'
  PROVE  WriterInv'
<1>1. ASSUME NEW d \in Client
      PROVE  /\ pc'[d] \in {"fts", "observe"} => Written(d)'
             /\ pc'[d] = "observe" => Indexed(d)'
             /\ pc'[d] = "graph" => Remaining(d)'
  <2>1. CASE d = c
    BY <2>1
  <2>2. CASE d # c
    BY <2>2, WriterStays
  <2>3. QED  BY <2>1, <2>2
<1>2. QED  BY <1>1 DEF WriterInv

LEMMA BeginFrame ==
  ASSUME TypeOK, NEW c \in Client, NEW r, NEW l, Begin(c, r, l),
         \/ \E t : reply_to' = [reply_to EXCEPT ![c] = t]
         \/ UNCHANGED reply_to,
         \/ \E t : left' = [left EXCEPT ![c] = t]
         \/ UNCHANGED left
  PROVE  /\ \A d \in Client \ {c} :
             /\ pc'[d] = pc[d] /\ req'[d] = req[d] /\ reply_to'[d] = reply_to[d]
             /\ msg_id'[d] = msg_id[d] /\ left'[d] = left[d]
         /\ pc'[c] = l /\ req'[c] = r
BY DEF TypeOK, Begin

LEMMA LeaveFrame ==
  ASSUME TypeOK, NEW c \in Client, Leave(c)
  PROVE  /\ \A d \in Client \ {c} :
             /\ pc'[d] = pc[d] /\ req'[d] = req[d] /\ reply_to'[d] = reply_to[d]
             /\ msg_id'[d] = msg_id[d] /\ left'[d] = left[d]
         /\ pc'[c] = "idle"
BY DEF TypeOK, Leave

LEMMA WriterStep ==
  ASSUME ArchiveInv, Grows, [Next]_vars
  PROVE  WriterInv'
<1> USE DEF ArchiveInv
<1>1. ASSUME NEW c \in Client, Step(c) PROVE WriterInv'
  <2>1. CASE WriteMessage(c)
    <3>1. PICK r \in MessageRequest : Begin(c, r, "insert") /\ UNCHANGED left
                 /\ \E t : reply_to' = [reply_to EXCEPT ![c] = t]
      BY <2>1 DEF WriteMessage
    <3>2. pc'[c] = "insert"
      BY <3>1 DEF Begin, TypeOK
    <3>3. \A d \in Client \ {c} :
             /\ pc'[d] = pc[d] /\ req'[d] = req[d] /\ reply_to'[d] = reply_to[d]
             /\ msg_id'[d] = msg_id[d] /\ left'[d] = left[d]
      BY <3>1 DEF Begin, TypeOK
    <3>4. QED  BY <3>2, <3>3, OthersStay
  <2>2. CASE InsertMessage(c)
    <3>1. PICK i \in Id : Insert(c, i)
      BY <2>2 DEF InsertMessage
    <3>2. pc'[c] = "fts" /\ Written(c)'
      BY <3>1 DEF Insert, Written, TypeOK
    <3>3. \A d \in Client \ {c} :
             /\ pc'[d] = pc[d] /\ req'[d] = req[d] /\ reply_to'[d] = reply_to[d]
             /\ msg_id'[d] = msg_id[d] /\ left'[d] = left[d]
      BY <3>1 DEF Insert, TypeOK
    <3>4. QED  BY <3>2, <3>3, OthersStay
  <2>3. CASE SyncFts(c)
    <3>1. pc'[c] = "observe" /\ Written(c)' /\ Indexed(c)'
      BY <2>3, WriterFacts DEF SyncFts, locals, Written, Indexed, TypeOK, WriterInv
    <3>2. \A d \in Client \ {c} :
             /\ pc'[d] = pc[d] /\ req'[d] = req[d] /\ reply_to'[d] = reply_to[d]
             /\ msg_id'[d] = msg_id[d] /\ left'[d] = left[d]
      BY <2>3 DEF SyncFts, locals, TypeOK
    <3>3. QED  BY <3>1, <3>2, OthersStay
  <2>4. CASE WriteSummary(c) \/ PatchSummary(c)
    <3>1. PICK r \in SummaryRequest, l \in {"write_summary", "patch"} :
            Begin(c, r, l) /\ UNCHANGED <<reply_to, left>>
      BY <2>4 DEF WriteSummary, PatchSummary
    <3>2. QED  BY <3>1, BeginFrame, OthersStay
  <2>5. CASE PatchRead(c)
    <3>1. pc'[c] = "write_summary"
      BY <2>5 DEF PatchRead, TypeOK
    <3>2. \A d \in Client \ {c} :
             /\ pc'[d] = pc[d] /\ req'[d] = req[d] /\ reply_to'[d] = reply_to[d]
             /\ msg_id'[d] = msg_id[d] /\ left'[d] = left[d]
      BY <2>5 DEF PatchRead, TypeOK
    <3>3. QED  BY <3>1, <3>2, OthersStay
  <2>6. CASE WriteGraph(c)
    <3>1. PICK r \in GraphRequest : Begin(c, r, "graph") /\ UNCHANGED reply_to
                 /\ left' = [left EXCEPT ![c] = r]
      BY <2>6 DEF WriteGraph
    <3>2. left'[c] = r /\ req'[c] = r
      BY <3>1 DEF Begin, TypeOK
    <3>3. Remaining(c)'
      BY <3>2 DEF Remaining
    <3>4. pc'[c] = "graph"
      BY <3>1 DEF Begin, TypeOK
    <3>5. \A d \in Client \ {c} :
             /\ pc'[d] = pc[d] /\ req'[d] = req[d] /\ reply_to'[d] = reply_to[d]
             /\ msg_id'[d] = msg_id[d] /\ left'[d] = left[d]
      BY <3>1 DEF Begin, TypeOK
    <3>6. QED  BY <3>3, <3>4, <3>5, OthersStay
  <2>7. CASE InsertTriple(c)
    <3>1. left[c] \in Seq(Triple) /\ left[c] # << >> /\ Remaining(c)
      BY <2>7 DEF InsertTriple, TypeOK, WriterInv
    <3>2. /\ triples' = triples \cup {Head(left[c])} /\ left'[c] = Tail(left[c])
          /\ req' = req /\ pc' = pc
      BY <2>7 DEF InsertTriple, TypeOK
    <3>3. \A n \in DOMAIN left[c] :
            left[c][n] = Head(left[c]) \/ \E m \in DOMAIN Tail(left[c]) : Tail(left[c])[m] = left[c][n]
      <4>1. SUFFICES ASSUME NEW n \in DOMAIN left[c], n # 1
                     PROVE  \E m \in DOMAIN Tail(left[c]) : Tail(left[c])[m] = left[c][n]
        BY <3>1
      <4>2. n - 1 \in DOMAIN Tail(left[c]) /\ Tail(left[c])[n - 1] = left[c][n]
        BY <3>1, <4>1
      <4>3. QED  BY <4>2
    <3>4. Remaining(c)'
      BY <3>1, <3>2, <3>3 DEF Remaining
    <3>5. pc[c] = "graph"
      BY <2>7 DEF InsertTriple
    <3>6. \A d \in Client \ {c} :
             /\ pc'[d] = pc[d] /\ req'[d] = req[d] /\ reply_to'[d] = reply_to[d]
             /\ msg_id'[d] = msg_id[d] /\ left'[d] = left[d]
      BY <2>7 DEF InsertTriple, TypeOK
    <3>7. QED  BY <3>2, <3>4, <3>5, <3>6, OthersStay
  <2>8. CASE IdTaken(c) \/ Observe(c) \/ InsertSummary(c) \/ GraphDone(c) \/ Abort(c)
    <3>1. Leave(c)
      BY <2>8 DEF IdTaken, Observe, InsertSummary, GraphDone, Abort
    <3>2. QED  BY <3>1, LeaveFrame, OthersStay
  <2>9. QED  BY <1>1, <2>1, <2>2, <2>3, <2>4, <2>5, <2>6, <2>7, <2>8 DEF Step
<1>2. CASE StartReading \/ NextPage \/ UNCHANGED vars
  <2>1. UNCHANGED <<pc, locals>>
    BY <1>2 DEF StartReading, NextPage, vars
  <2>2. QED  BY <2>1, WriterStays DEF locals, WriterInv
<1>3. QED  BY <1>1, <1>2 DEF Next

LEMMA IndexStep ==
  ASSUME ArchiveInv, Grows, [Next]_vars
  PROVE  IndexInv'
<1> USE DEF ArchiveInv
<1>1. CASE \E c \in Client : SyncFts(c)
  <2>1. PICK c \in Client : SyncFts(c)
    BY <1>1
  <2>2. /\ messages' = messages /\ messages[msg_id[c]] # None
        /\ messages[msg_id[c]].text = req[c].text
        /\ messages_fts' = [messages_fts EXCEPT ![msg_id[c]] = req[c].text]
    BY <2>1, WriterFacts DEF SyncFts
  <2>3. QED  BY <2>2 DEF IndexInv, TypeOK
<1>2. CASE ~ \E c \in Client : SyncFts(c)
  <2>1. messages_fts' = messages_fts
    <3>1. ASSUME NEW c \in Client, Step(c) PROVE messages_fts' = messages_fts
      BY <1>2, <3>1 DEF Step, WriteMessage, InsertMessage, Insert, IdTaken, Observe,
         WriteSummary, PatchSummary, PatchRead, InsertSummary, WriteGraph, InsertTriple,
         GraphDone, Abort, Begin
    <3>2. QED  BY <3>1 DEF Next, StartReading, NextPage, vars
  <2>2. QED  BY <2>1 DEF IndexInv, Grows
<1>3. QED  BY <1>1, <1>2
LEMMA AckedStays ==
  ASSUME ArchiveInv, Grows, acked' = acked
  PROVE  AckedIsComplete'
<1> USE DEF ArchiveInv
<1>1. ASSUME NEW i \in acked'.messages
      PROVE  /\ i \in Stored' /\ messages'[i] = messages[i]
             /\ messages_fts'[i] = messages[i].text
             /\ MsgRef(i, messages[i].text, messages[i].reply_to) \in observed'
  <2>1. i \in acked.messages
    BY <1>1
  <2>2. /\ i \in Id /\ messages[i] # None
        /\ messages_fts[i] = messages[i].text
        /\ MsgRef(i, messages[i].text, messages[i].reply_to) \in observed
    BY <2>1 DEF AckedIsComplete, Stored, SearchHits
  <2>3. messages[i].text \in Text
    BY <2>2 DEF TypeOK, Row
  <2>4. messages_fts[i] # None
    BY <2>2, <2>3, NoneIsNoRow
  <2>5. QED  BY <2>2, <2>4 DEF Grows, Stored
<1>2. acked'.triples \subseteq triples'
  BY DEF AckedIsComplete, Grows
<1>3. QED  BY <1>1, <1>2 DEF AckedIsComplete, SearchHits, MsgRef

LEMMA AckedStep ==
  ASSUME ArchiveInv, Grows, [Next]_vars
  PROVE  AckedIsComplete'
<1> USE DEF ArchiveInv
<1>1. ASSUME NEW c \in Client, Observe(c) PROVE AckedIsComplete'
  <2>1. /\ pc[c] = "observe"
        /\ observed' = observed \cup { MsgRef(msg_id[c], req[c].text, reply_to[c]) }
        /\ acked'.messages = acked.messages \cup {msg_id[c]} /\ acked'.triples = acked.triples
        /\ UNCHANGED <<messages, messages_fts, triples>>
    BY <1>1 DEF Observe, TypeOK
  <2>2. /\ msg_id[c] \in Id /\ messages[msg_id[c]] # None
        /\ messages[msg_id[c]].text = req[c].text
        /\ messages[msg_id[c]].reply_to = reply_to[c]
    BY <2>1, WriterFacts
  <2>3. messages_fts[msg_id[c]] = messages[msg_id[c]].text
    BY <2>1, <2>2 DEF WriterInv, Indexed
  <2>4. ASSUME NEW i \in acked'.messages
        PROVE  /\ i \in Id /\ messages[i] # None
               /\ messages_fts[i] = messages[i].text
               /\ MsgRef(i, messages[i].text, messages[i].reply_to) \in observed'
    <3>1. CASE i \in acked.messages
      BY <2>1, <3>1 DEF AckedIsComplete, Stored, SearchHits
    <3>2. CASE i = msg_id[c]
      BY <2>1, <2>2, <2>3, <3>2
    <3>3. QED  BY <2>1, <3>1, <3>2
  <2>5. QED  BY <2>1, <2>4 DEF AckedIsComplete, Stored, SearchHits, MsgRef
<1>2. ASSUME NEW c \in Client, GraphDone(c) PROVE AckedIsComplete'
  <2>1. /\ pc[c] = "graph" /\ left[c] = << >>
        /\ acked'.messages = acked.messages
        /\ acked'.triples = acked.triples \cup { req[c][k] : k \in DOMAIN req[c] }
        /\ UNCHANGED <<messages, messages_fts, observed, triples>>
    BY <1>2 DEF GraphDone, TypeOK
  <2>2. \A k \in DOMAIN req[c] : req[c][k] \in triples
    BY <2>1 DEF WriterInv, Remaining
  <2>3. QED  BY <2>1, <2>2 DEF AckedIsComplete, Stored, SearchHits, MsgRef
<1>3. CASE ~ \E c \in Client : Observe(c) \/ GraphDone(c)
  <2>1. acked' = acked
    <3>1. ASSUME NEW c \in Client, Step(c) PROVE acked' = acked
      BY <1>3, <3>1 DEF Step, WriteMessage, InsertMessage, Insert, IdTaken, SyncFts,
         WriteSummary, PatchSummary, PatchRead, InsertSummary, WriteGraph, InsertTriple,
         Abort, Begin
    <3>2. QED  BY <3>1 DEF Next, StartReading, NextPage, vars
  <2>2. QED  BY <2>1, AckedStays
<1>4. QED  BY <1>1, <1>2, <1>3

LEMMA ArchiveInit == Init => ArchiveInv
<1> SUFFICES ASSUME Init PROVE ArchiveInv
  OBVIOUS
<1>1. WriterInv /\ IndexInv /\ AckedIsComplete
  BY DEF Init, WriterInv, IndexInv, AckedIsComplete
<1>2. QED  BY <1>1, TypeInit DEF ArchiveInv

LEMMA ArchiveStep == ArchiveInv /\ [Next]_vars => ArchiveInv'
<1> SUFFICES ASSUME ArchiveInv, [Next]_vars PROVE ArchiveInv'
  OBVIOUS
<1>1. Grows
  BY StepGrows
<1>2. TypeOK'
  BY TypeStep DEF ArchiveInv
<1>3. QED  BY <1>1, <1>2, WriterStep, IndexStep, AckedStep DEF ArchiveInv

LEMMA Archive == Spec => []ArchiveInv
BY ArchiveInit, ArchiveStep, PTL DEF Spec

\* lib.rs:177-191: what a caller was told is written is stored, found by a
\* search and known to the session store as it is stored, and stays so.
THEOREM AckedStaysComplete == Spec => []AckedIsComplete
<1>1. ArchiveInv => AckedIsComplete
  BY DEF ArchiveInv
<1>2. QED  BY <1>1, Archive, PTL

\* messages.rs:133-137: every hit of a search is a message with that text.
THEOREM SearchIsSound == Spec => []SearchSound
<1>1. ArchiveInv => SearchSound
  BY NoneIsNoRow DEF ArchiveInv, IndexInv, SearchSound, SearchHits, Stored
<1>2. QED  BY <1>1, Archive, PTL

\* messages.rs:16: no write changes or removes a message that is there.
THEOREM MessagesAreAppendOnly == Spec => AppendOnly
<1>1. ArchiveInv /\ [Next]_vars
        => [\A i \in Id : messages[i] # None => messages'[i] = messages[i]]_vars
  BY StepGrows DEF Grows
<1>2. QED  BY <1>1, Archive, PTL DEF Spec, AppendOnly
-------------------------------------------------------------------------------
(* Paging.  What the reader still owes is at or above its offset: the rows  *)
(* it has fetched are counted by the offset, and an insertion among them    *)
(* only moves the others up.                                                *)

PagesInv ==
    /\ reader.at # "idle" => reader.owed \subseteq InRanges
    /\ reader.at = "reading" =>
         \A i \in reader.owed \ reader.got : Rank(i, InRanges) >= reader.offset
    /\ PagesMissNothing

LEMMA InRangesFiniteNext ==
  /\ InRanges' \subseteq Int /\ IsFiniteSet(InRanges')
<1>1. InRanges' \in SUBSET Id /\ Id \subseteq Int
  BY ConstantsOK DEF InRanges, Stored, Id
<1>2. IsFiniteSet(Id)
  BY ConstantsOK, FS_Interval DEF Id
<1>3. QED  BY <1>1, <1>2, FS_Subset

LEMMA PagesInit == Init => PagesInv
BY DEF Init, PagesInv, PagesMissNothing

LEMMA PagesStay ==
  ASSUME TypeOK, PagesInv, Grows, reader' = reader
  PROVE  PagesInv'
<1>1. InRanges \subseteq InRanges'
  BY DEF Grows, InRanges, Stored
<1>2. ASSUME reader.at = "reading", NEW i \in reader.owed \ reader.got
      PROVE  Rank(i, InRanges') >= reader.offset
  <2>1. i \in Int /\ Rank(i, InRanges) >= reader.offset /\ reader.offset \in Nat
    BY <1>2, InRangesFinite DEF PagesInv, TypeOK
  <2>2. Rank(i, InRanges) <= Rank(i, InRanges')
    BY <1>1, <2>1, InRangesFiniteNext, RankGrows
  <2>3. Rank(i, InRanges) \in Nat /\ Rank(i, InRanges') \in Nat
    BY <2>1, InRangesFinite, InRangesFiniteNext, RankNat
  <2>4. QED  BY <2>1, <2>2, <2>3
<1>3. QED  BY <1>1, <1>2 DEF PagesInv, PagesMissNothing, Rank

LEMMA PagesStep ==
  ASSUME TypeOK, PagesInv, Grows, [Next]_vars
  PROVE  PagesInv'
<1>1. CASE StartReading
  <2>1. /\ reader' = [at |-> "reading", offset |-> 0, got |-> {}, owed |-> InRanges]
        /\ InRanges' = InRanges
    BY <1>1 DEF StartReading, InRanges, Stored
  <2>2. \A i \in InRanges : Rank(i, InRanges) >= 0
    <3>1. SUFFICES ASSUME NEW i \in InRanges PROVE Rank(i, InRanges) >= 0
      OBVIOUS
    <3>2. Rank(i, InRanges) \in Nat
      BY InRangesFinite, RankNat
    <3>3. QED  BY <3>2
  <2>3. QED  BY <2>1, <2>2 DEF PagesInv, PagesMissNothing, Rank
<1>2. CASE NextPage
  <2> DEFINE n == Clamp(Limit, 1, RANGE_FETCH_MAX_LIMIT)
             o == reader.offset
             page == Page(InRanges, n, o)
  <2>1. n \in Nat /\ n > 0 /\ o \in Nat
    BY ClampedLimit DEF TypeOK
  <2>2. Cardinality(page) \in Nat /\ Cardinality(page) <= n
    BY <2>1, InRangesFinite, PageSize
  <2>3. /\ reader.at = "reading"
        /\ reader'.at = IF page = {} THEN "done" ELSE "reading"
        /\ reader'.offset = o + Cardinality(page)
        /\ reader'.got = reader.got \cup page /\ reader'.owed = reader.owed
    BY <1>2 DEF NextPage, RangeFetch, TypeOK
  <2>4. InRanges' = InRanges
    BY <1>2 DEF NextPage, InRanges, Stored
  \* What is owed and not on this page lies behind it.
  <2>5. ASSUME NEW i \in reader.owed \ reader.got, i \notin page
        PROVE  i \in InRanges /\ Rank(i, InRanges) >= o + n
    <3>1. i \in InRanges /\ Rank(i, InRanges) >= o
      BY <2>3, <2>5 DEF PagesInv
    <3>2. Rank(i, InRanges) \in Nat
      BY <3>1, InRangesFinite, RankNat
    <3>3. ~(Rank(i, InRanges) < o + n)
      BY <2>5, <3>1 DEF Page
    <3>4. QED  BY <2>1, <3>1, <3>2, <3>3
  <2>6. CASE page = {}
    <3>1. reader.owed \subseteq reader.got
      <4>1. SUFFICES ASSUME NEW i \in reader.owed \ reader.got PROVE FALSE
        OBVIOUS
      <4>2. i \in InRanges /\ Rank(i, InRanges) >= o
        BY <2>3 DEF PagesInv
      <4>3. page # {}
        BY <2>1, <4>2, InRangesFinite, NoGap
      <4>4. QED  BY <2>6, <4>3
    <3>2. reader'.at = "done" /\ reader'.owed \subseteq reader'.got
      BY <2>3, <2>6, <3>1
    <3>3. reader'.owed \subseteq InRanges'
      BY <2>3, <2>4 DEF PagesInv
    <3>4. QED  BY <3>2, <3>3 DEF PagesInv, PagesMissNothing
  <2>7. CASE page # {}
    <3>1. reader'.at = "reading"
      BY <2>3, <2>7
    <3>2. ASSUME NEW i \in reader'.owed \ reader'.got
          PROVE  Rank(i, InRanges) >= reader'.offset
      <4>1. i \in reader.owed \ reader.got /\ i \notin page
        BY <2>3, <3>2
      <4>2. i \in InRanges /\ Rank(i, InRanges) >= o + n
        BY <2>5, <4>1
      <4>3. Rank(i, InRanges) \in Nat
        BY <4>2, InRangesFinite, RankNat
      <4>4. QED  BY <2>1, <2>2, <2>3, <4>2, <4>3
    <3>3. reader'.owed \subseteq InRanges'
      BY <2>3, <2>4 DEF PagesInv
    <3>4. \A i \in reader'.owed \ reader'.got : Rank(i, InRanges') >= reader'.offset
      BY <2>4, <3>2
    <3>5. QED  BY <3>1, <3>3, <3>4 DEF PagesInv, PagesMissNothing, Rank
  <2>8. QED  BY <2>6, <2>7
<1>3. CASE ~(StartReading \/ NextPage)
  <2>1. reader' = reader
    <3>1. ASSUME NEW c \in Client, Step(c) PROVE reader' = reader
      BY <3>1 DEF Step, WriteMessage, InsertMessage, Insert, IdTaken, SyncFts, Observe,
         WriteSummary, PatchSummary, PatchRead, InsertSummary, WriteGraph, InsertTriple,
         GraphDone, Abort, Begin
    <3>2. QED  BY <1>3, <3>1 DEF Next, vars
  <2>2. QED  BY <2>1, PagesStay
<1>4. QED  BY <1>1, <1>2, <1>3

\* messages.rs:155-196: a caller that fetches pages until one is empty has seen
\* every message that was in its ranges when it began, for every page size and
\* whatever is inserted meanwhile.
THEOREM PagedReadsMissNothing == Spec => []PagesMissNothing
<1>1. Init => ArchiveInv /\ PagesInv
  BY ArchiveInit, PagesInit
<1>2. (ArchiveInv /\ PagesInv) /\ [Next]_vars => (ArchiveInv /\ PagesInv)'
  <2>1. SUFFICES ASSUME ArchiveInv, PagesInv, [Next]_vars PROVE ArchiveInv' /\ PagesInv'
    OBVIOUS
  <2>2. TypeOK /\ Grows
    BY <2>1, StepGrows DEF ArchiveInv
  <2>3. QED  BY <2>1, <2>2, ArchiveStep, PagesStep
<1>3. ArchiveInv /\ PagesInv => PagesMissNothing
  BY DEF PagesInv
<1>4. QED  BY <1>1, <1>2, <1>3, PTL DEF Spec

-------------------------------------------------------------------------------
(* Summaries.                                                               *)

LEMMA SummariesGrow ==
  ASSUME TypeOK, [Next]_vars
  PROVE  /\ summaries' \in Seq(SummaryRow)
         /\ DOMAIN summaries \subseteq DOMAIN summaries'
         /\ \A k \in DOMAIN summaries : summaries'[k] = summaries[k]
<1>1. TypeOK'
  BY TypeStep
<1>2. summaries \in Seq(SummaryRow) /\ summaries' \in Seq(SummaryRow)
  BY <1>1 DEF TypeOK
<1>3. CASE \E c \in Client : InsertSummary(c)
  <2>1. PICK c \in Client : summaries' = Append(summaries, Merge(Default, json[c]))
    BY <1>3 DEF InsertSummary
  <2>2. QED  BY <1>2, <2>1
<1>4. CASE ~ \E c \in Client : InsertSummary(c)
  <2>1. summaries' = summaries
    <3>1. ASSUME NEW c \in Client, Step(c) PROVE summaries' = summaries
      BY <1>4, <3>1 DEF Step, WriteMessage, InsertMessage, Insert, IdTaken, SyncFts, Observe,
         WriteSummary, PatchSummary, PatchRead, WriteGraph, InsertTriple, GraphDone, Abort, Begin
    <3>2. QED  BY <3>1 DEF Next, StartReading, NextPage, vars
  <2>2. QED  BY <1>2, <2>1
<1>5. QED  BY <1>3, <1>4

\* Reading "latest" gives a row of the layer with the last period.
LatestIsLast ==
    summaries \in Seq(SummaryRow) =>
        \A l \in Layer : Of(l) # {} =>
            /\ ReadSummary(l, latest) \in Of(l)
            /\ \A j \in Of(l) : summaries[j].period_start
                                 <= summaries[ReadSummary(l, latest)].period_start

LEMMA LatestFound == LatestIsLast
<1>1. SUFFICES ASSUME summaries \in Seq(SummaryRow), NEW l \in Layer, Of(l) # {}
               PROVE  /\ ReadSummary(l, latest) \in Of(l)
                      /\ \A j \in Of(l) : summaries[j].period_start
                                 <= summaries[ReadSummary(l, latest)].period_start
  BY DEF LatestIsLast
<1>2. ReadSummary(l, latest) = Newest(Of(l))
  <2>1. Matching(l, latest) = Of(l)
    BY DEF Matching
  <2>2. QED  BY <2>1 DEF ReadSummary
<1>3. Of(l) \in SUBSET (DOMAIN summaries)
  BY DEF Of
<1>4. QED  BY <1>1, <1>2, <1>3, NewestIsLatest

LEMMA LatestFoundNext == LatestIsLast'
  BY LatestFound, PTL

\* summaries.rs:92-101: whatever is written, and however late, the summary that
\* "latest" reads is never of an earlier period than it was.
THEOREM LatestNeverGoesBack == Spec => LatestMovesForward
<1> DEFINE Forward == \A l \in Layer : Of(l) # {} =>
             summaries[ReadSummary(l, latest)].period_start
               <= summaries'[ReadSummary(l, latest)'].period_start
<1>1. ASSUME TypeOK, [Next]_vars PROVE [Forward]_vars
  <2>1. SUFFICES ASSUME NEW l \in Layer, Of(l) # {}
                 PROVE  summaries[ReadSummary(l, latest)].period_start
                          <= summaries'[ReadSummary(l, latest)'].period_start
    OBVIOUS
  <2> DEFINE k == ReadSummary(l, latest)
  <2>2. k \in Of(l) /\ k \in DOMAIN summaries
    BY <1>1, <2>1, LatestFound DEF LatestIsLast, TypeOK, Of
  <2>3. k \in DOMAIN summaries' /\ summaries'[k] = summaries[k]
    BY <1>1, <2>2, SummariesGrow
  <2>4. k \in Of(l)'
    BY <2>2, <2>3 DEF Of
  <2>5. summaries'[k].period_start <= summaries'[ReadSummary(l, latest)'].period_start
    BY <1>1, <2>4, SummariesGrow, LatestFoundNext DEF LatestIsLast
  <2>6. QED  BY <2>3, <2>5
<1>2. Spec => []TypeOK
  BY TypeCorrect
<1>3. QED  BY <1>1, <1>2, PTL DEF Spec, LatestMovesForward
===============================================================================
