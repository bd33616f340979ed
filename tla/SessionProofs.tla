---------------------------- MODULE SessionProofs ----------------------------
(***************************************************************************)
(* Proofs about Session.tla, for every set of names, definitions and rows  *)
(* and every number of starts: which names are lost and why, and that a    *)
(* table in the map is whole.  First the rows a table is made of: one of   *)
(* any length, with any number of texts anywhere in it, is read back as it *)
(* was stored.                                                             *)
(*                                                                         *)
(* That a lost name has a cause is not inductive: what a death leaves      *)
(* behind depends on the step it interrupts.  IInv ties the files of each  *)
(* table to the step that is next for it (StepsOK) and to the deaths so    *)
(* far (FilesOK), and says of a table the start is done with that it is    *)
(* open or unusable (HandledOK).                                           *)
(***************************************************************************)
EXTENDS Session, Induction

-----------------------------------------------------------------------------
(* Rows: load_row_from_record undoes store_row_to_record                   *)

\* What value i adds to the characters behind the cells.
TextOf(v) == IF IsText(v) THEN v[2] ELSE <<>>

\* What the values of a row are.
LEMMA RowValues ==
    ASSUME NEW row \in Seq(Value)
    PROVE  /\ Len(row) \in Nat /\ DOMAIN row = 1 .. Len(row)
           /\ \A i \in 1 .. Len(row) : /\ row[i] = <<row[i][1], row[i][2]>>
                                       /\ TextOf(row[i]) \in Seq(Nat)
                                       /\ IsText(row[i]) => row[i][2] \in Seq(Nat)
<1>1. Len(row) \in Nat /\ DOMAIN row = 1 .. Len(row)
  OBVIOUS
<1>2. ASSUME NEW v \in Value
      PROVE  /\ v = <<v[1], v[2]>> /\ TextOf(v) \in Seq(Nat) /\ (IsText(v) => v[2] \in Seq(Nat))
  BY DEF Value, TextOf, IsText
<1>3. \A i \in 1 .. Len(row) : row[i] \in Value
  OBVIOUS
<1> QED
  BY <1>1, <1>2, <1>3

\* TextBefore value by value.
LEMMA TextSteps ==
    ASSUME NEW row \in Seq(Value)
    PROVE  \E h \in [0 .. Len(row) -> Seq(Nat)] :
              /\ h[0] = <<>>
              /\ \A n \in 1 .. Len(row) : h[n] = h[n - 1] \o TextOf(row[n])
              /\ \A n \in 0 .. Len(row) : TextBefore(row, n) = h[n]
<1> DEFINE N == Len(row)
           f == [n \in 1 .. N |-> [x \in Seq(Nat) |-> x \o TextOf(row[n])]]
<1>0. N \in Nat /\ \A n \in 1 .. N : TextOf(row[n]) \in Seq(Nat)
  BY RowValues
<1>1. f \in [1 .. N -> [Seq(Nat) -> Seq(Nat)]]
  BY <1>0
<1>2. PICK h \in [0 .. N -> Seq(Nat)] : h[0] = <<>> /\ \A n \in 1 .. N : h[n] = f[n][h[n - 1]]
  <2> DEFINE D == Seq(Nat)
             base == <<>>
  <2>0. N \in Nat
    BY <1>0
  <2>1. base \in D /\ f \in [1 .. N -> [D -> D]]
    BY <1>1
  <2> HIDE DEF N, f, D, base
  <2>2. \E h \in [0 .. N -> D] : h[0] = base /\ \A n \in 1 .. N : h[n] = f[n][h[n - 1]]
    BY <2>0, <2>1, Iteration, SMTT(30)
  <2> QED
    BY <2>2 DEF D, base
<1>3. \A n \in 1 .. N : h[n] = h[n - 1] \o TextOf(row[n])
  <2> TAKE n \in 1 .. N
  <2>1. n - 1 \in 0 .. N
    BY <1>0
  <2>2. h[n - 1] \in Seq(Nat)
    BY <2>1
  <2> QED
    BY <1>2, <2>2
<1> HIDE DEF f
<1>4. ASSUME NEW m \in 0 .. N PROVE TextBefore(row, m) = h[m]
  <2> DEFINE Is(t) == t = [i \in 0 .. m |-> IF i = 0 THEN <<>> ELSE t[i - 1] \o TextOf(row[i])]
             text == CHOOSE t : Is(t)
             g == [i \in 0 .. m |-> h[i]]
  <2>0. m \in Nat /\ m <= N
    BY <1>0
  <2>1. Is(g)
    <3>1. ASSUME NEW i \in 0 .. m
          PROVE  g[i] = IF i = 0 THEN <<>> ELSE g[i - 1] \o TextOf(row[i])
      <4>1. CASE i = 0
        BY <1>2, <4>1
      <4>2. CASE i # 0
        <5>1. i \in 1 .. N /\ i - 1 \in 0 .. m
          BY <1>0, <2>0, <4>2
        <5> QED
          BY <1>3, <4>2, <5>1
      <4> QED
        BY <4>1, <4>2
    <3> QED
      BY <3>1
  <2>2. Is(text)
    <3> HIDE DEF Is
    <3> QED
      BY <2>1
  <2>3. TextBefore(row, m) = text[m]
    BY DEF TextBefore, TextOf
  <2> HIDE DEF text, g
  <2>4. \A i \in 0 .. m : text[i] = IF i = 0 THEN <<>> ELSE text[i - 1] \o TextOf(row[i])
    BY <2>2
  <2> DEFINE S == {i \in 0 .. m : text[i] = h[i]}
  <2>5. 0 \in S
    <3>1. 0 \in 0 .. m
      BY <2>0
    <3>2. text[0] = <<>>
      BY <2>4, <3>1
    <3> QED
      BY <1>2, <3>1, <3>2
  <2>6. ASSUME NEW i \in 0 .. m - 1, i \in S PROVE i + 1 \in S
    <3>1. i + 1 \in 1 .. N /\ i + 1 \in 0 .. m /\ i + 1 # 0 /\ (i + 1) - 1 = i
      BY <1>0, <2>0
    <3> QED
      BY <1>3, <2>4, <2>6, <3>1
  <2>7. \A i \in 0 .. m : i \in S
    <3> HIDE DEF S
    <3> QED
      BY <2>0, <2>5, <2>6, UpTo
  <2>8. m \in S
    BY <2>0, <2>7
  <2> QED
    BY <2>3, <2>8
<1> QED
  BY <1>2, <1>3, <1>4

\* The characters of the first values stay where they are when those of others follow.
LEMMA TextsStay ==
    ASSUME NEW N \in Nat, NEW h \in [0 .. N -> Seq(Nat)], NEW x \in [1 .. N -> Seq(Nat)],
           \A n \in 1 .. N : h[n] = h[n - 1] \o x[n]
    PROVE  \A i \in 1 .. N :
              /\ Len(h[N]) >= Len(h[i - 1]) + Len(x[i])
              /\ SubSeq(h[N], Len(h[i - 1]) + 1, Len(h[i - 1]) + Len(x[i])) = x[i]
<1> TAKE i \in 1 .. N
<1>0. i \in Nat /\ i >= 1 /\ i <= N /\ i - 1 \in 0 .. N
  OBVIOUS
<1>1. h[i - 1] \in Seq(Nat) /\ x[i] \in Seq(Nat) /\ h[i] = h[i - 1] \o x[i] /\ h[N] \in Seq(Nat)
  <2>1. h[i - 1] \in Seq(Nat)
    BY <1>0
  <2>2. x[i] \in Seq(Nat)
    OBVIOUS
  <2>3. h[i] = h[i - 1] \o x[i]
    OBVIOUS
  <2>4. N \in 0 .. N
    BY <1>0
  <2>5. h[N] \in Seq(Nat)
    BY <2>4
  <2> QED
    BY <2>1, <2>2, <2>3, <2>5
<1> DEFINE a == h[i - 1]
           b == x[i]
           S == {d \in 0 .. N - i : /\ Len(h[i + d]) >= Len(a) + Len(b)
                                    /\ \A k \in 1 .. Len(a) + Len(b) : h[i + d][k] = (a \o b)[k]}
<1>2. N - i \in Nat
  BY <1>0
<1>3. 0 \in S
  BY <1>1, <1>2
<1>4. ASSUME NEW d \in 0 .. (N - i) - 1, d \in S PROVE d + 1 \in S
  <2>1. d \in Nat /\ i + (d + 1) \in 1 .. N /\ (i + (d + 1)) - 1 = i + d /\ i + d \in 0 .. N
        /\ d + 1 \in 0 .. N - i
    BY <1>0
  <2> DEFINE p == h[i + d]
             q == x[i + (d + 1)]
  <2>2. p \in Seq(Nat) /\ q \in Seq(Nat) /\ h[i + (d + 1)] = p \o q
    BY <2>1
  <2>3. Len(p) >= Len(a) + Len(b) /\ \A k \in 1 .. Len(a) + Len(b) : p[k] = (a \o b)[k]
    BY <1>4
  <2>4. Len(a) \in Nat /\ Len(b) \in Nat
    BY <1>1
  <2> HIDE DEF a, b, p, q
  <2>5. Len(p \o q) >= Len(a) + Len(b) /\ \A k \in 1 .. Len(a) + Len(b) : (p \o q)[k] = p[k]
    <3> DEFINE u == Len(a) + Len(b)
               lp == Len(p)
               lq == Len(q)
    <3>1. lp \in Nat /\ lq \in Nat /\ Len(p \o q) = lp + lq
      BY <2>2
    <3>2. lp >= u /\ u \in Nat
      BY <2>3, <2>4
    <3>3. ASSUME NEW k \in 1 .. lp PROVE (p \o q)[k] = p[k]
      BY <2>2
    <3> HIDE DEF u, lp, lq
    <3>4. lp + lq >= u
      BY <3>1, <3>2
    <3>5. \A k \in 1 .. u : k \in 1 .. lp
      BY <3>1, <3>2
    <3>6. \A k \in 1 .. u : (p \o q)[k] = p[k]
      BY <3>3, <3>5
    <3> QED
      BY <3>1, <3>4, <3>6 DEF u
  <2> QED
    BY <2>1, <2>2, <2>3, <2>5
<1>5. N - i \in S
  <2> HIDE DEF S
  <2>1. \A d \in 0 .. N - i : d \in S
    BY <1>2, <1>3, <1>4, UpTo
  <2> QED
    BY <1>2, <2>1
<1>6. /\ Len(h[N]) >= Len(a) + Len(b)
      /\ \A k \in 1 .. Len(a) + Len(b) : h[N][k] = (a \o b)[k]
  <2> DEFINE e == N - i
  <2>1. i + e = N
    BY <1>0
  <2> HIDE DEF e
  <2>2. e \in S
    BY <1>5 DEF e
  <2> QED
    BY <2>1, <2>2
<1>7. a \in Seq(Nat) /\ b \in Seq(Nat)
  BY <1>1
<1> DEFINE c == h[N]
<1> HIDE DEF a, b, c
<1>8. c \in Seq(Nat) /\ Len(c) >= Len(a) + Len(b)
      /\ \A k \in 1 .. Len(a) + Len(b) : c[k] = (a \o b)[k]
  BY <1>1, <1>6 DEF c
<1>9. SubSeq(c, Len(a) + 1, Len(a) + Len(b)) = b
  BY <1>7, <1>8
<1> QED
  BY <1>6, <1>9 DEF a, b, c

\* store_row_to_record, then load_row_from_record: the same row.
THEOREM LoadAfterStore ==
    ASSUME NEW row \in Seq(Value), NEW types, Typed(types, row)
    PROVE  Load(types, Store(types, row)) = row
<1> DEFINE N == Len(row)
           x == [n \in 1 .. N |-> TextOf(row[n])]
           record == Store(types, row)
<1>0. /\ N \in Nat /\ DOMAIN row = 1 .. N
      /\ \A i \in 1 .. N : row[i] = <<row[i][1], row[i][2]>> /\ TextOf(row[i]) \in Seq(Nat)
  BY RowValues
<1>1. PICK h \in [0 .. N -> Seq(Nat)] :
             /\ h[0] = <<>>
             /\ \A n \in 1 .. N : h[n] = h[n - 1] \o TextOf(row[n])
             /\ \A n \in 0 .. N : TextBefore(row, n) = h[n]
  BY TextSteps
<1>2. \A i \in 1 .. N : SubSeq(h[N], Len(h[i - 1]) + 1, Len(h[i - 1]) + Len(x[i])) = x[i]
  <2>1. x \in [1 .. N -> Seq(Nat)] /\ \A n \in 1 .. N : h[n] = h[n - 1] \o x[n]
    BY <1>0, <1>1
  <2>2. N \in Nat
    BY <1>0
  <2> HIDE DEF N, x
  <2> QED
    BY <2>1, <2>2, TextsStay
<1>3. /\ record.tail = h[N]
      /\ DOMAIN record.cells = 1 .. N /\ Len(record.cells) = N
      /\ \A i \in 1 .. N :
            record.cells[i] = IF IsText(row[i])
                              THEN [offset |-> CellSize * N + Len(h[i - 1]), size |-> Len(row[i][2])]
                              ELSE [datum |-> row[i][2]]
  <2> DEFINE cells == [i \in DOMAIN row |->
                          IF IsText(row[i])
                          THEN [offset |-> TextOffset(row, i), size |-> Len(row[i][2])]
                          ELSE [datum |-> row[i][2]]]
  <2>1. record = [cells |-> cells, tail |-> TextBefore(row, Len(row))]
    BY DEF Store
  <2>2. TextBefore(row, Len(row)) = h[N]
    BY <1>0, <1>1
  <2>3. \A i \in 1 .. N : TextOffset(row, i) = CellSize * N + Len(h[i - 1])
    <3> TAKE i \in 1 .. N
    <3>1. i - 1 \in 0 .. N
      BY <1>0
    <3>2. TextBefore(row, i - 1) = h[i - 1]
      BY <1>1, <3>1
    <3> QED
      BY <3>2 DEF TextOffset
  <2>4. DOMAIN cells = 1 .. N /\ Len(cells) = N
    BY <1>0
  <2>5. \A i \in 1 .. N :
            cells[i] = IF IsText(row[i])
                       THEN [offset |-> CellSize * N + Len(h[i - 1]), size |-> Len(row[i][2])]
                       ELSE [datum |-> row[i][2]]
    BY <1>0, <2>3
  <2> HIDE DEF cells
  <2> QED
    BY <2>1, <2>2, <2>4, <2>5
<1> HIDE DEF record
<1>4. ASSUME NEW i \in 1 .. N PROVE Load(types, record)[i] = row[i]
  <2>1. types[i] = row[i][1] /\ row[i] = <<row[i][1], row[i][2]>>
    BY <1>0 DEF Typed
  <2>2. CASE IsText(row[i])
    <3> DEFINE l == Len(h[i - 1])
               c == record.cells[i]
               from == c.offset - CellSize * Len(record.cells)
    <3>1. c.offset = CellSize * N + l /\ c.size = Len(row[i][2])
      <4> DEFINE off == CellSize * N + l
                 sz == Len(row[i][2])
      <4>1. c = [offset |-> off, size |-> sz]
        BY <1>3, <2>2
      <4> HIDE DEF off, sz, c
      <4>2. c.offset = off /\ c.size = sz
        BY <4>1
      <4> QED
        BY <4>2 DEF off, sz
    <3>2. x[i] = row[i][2] /\ types[i] = "text" /\ row[i][1] = "text"
      BY <2>1, <2>2 DEF TextOf, IsText
    <3>3. from = l
      <4>1. l \in Nat /\ CellSize * N \in Int
        <5>1. i - 1 \in 0 .. N
          BY <1>0
        <5>2. h[i - 1] \in Seq(Nat)
          BY <5>1
        <5> QED
          BY <1>0, <5>2 DEF CellSize
      <4> HIDE DEF l, N
      <4> QED
        BY <1>3, <3>1, <4>1
    <3>4. SubSeq(record.tail, from + 1, from + c.size) = row[i][2]
      BY <1>2, <1>3, <3>1, <3>2, <3>3, ZenonT(40)
    <3>5. Load(types, record)[i] = <<"text", SubSeq(record.tail, from + 1, from + c.size)>>
      BY <1>3, <3>2 DEF Load
    <3> QED
      BY <2>1, <3>2, <3>4, <3>5
  <2>3. CASE ~IsText(row[i])
    <3>1. types[i] # "text" /\ record.cells[i] = [datum |-> row[i][2]]
      BY <1>3, <2>1, <2>3 DEF IsText
    <3>2. Load(types, record)[i] = <<types[i], record.cells[i].datum>>
      BY <1>3, <3>1 DEF Load
    <3> QED
      BY <2>1, <3>1, <3>2
  <2> QED
    BY <2>2, <2>3
<1>5. Load(types, record) = [i \in 1 .. N |-> Load(types, record)[i]]
  BY <1>3 DEF Load
<1>6. row = [i \in 1 .. N |-> row[i]]
  BY <1>0
<1> HIDE DEF N
<1>7. Load(types, record) = row
  BY <1>4, <1>5, <1>6
<1> QED
  BY <1>7 DEF record

-----------------------------------------------------------------------------
(* Starts, deaths and lost tables                                          *)

\* No definition, an unfinished one, or a journal that stops pager::open.
Unusable(n) ==
    def[n] \in {"none", "empty"} \/ data[n] \in {"jempty", "stuck", "stuckblank"}

\* Where the process is.
ControlOK ==
    /\ pc = "down" => open = {} /\ cur = NoName /\ todo = {}
    /\ pc = "idle" => cur = NoName /\ todo = {}
    /\ pc = "create" => cur # NoName /\ todo = {} /\ cur \notin created /\ want \in Schemas
    /\ pc = "start" /\ cur # NoName => cur \in todo
    /\ cur # NoName => cur \in dir /\ cur \notin open
    /\ todo \cap open = {}
    /\ \A n \in Names \ dir : def[n] = "none" /\ data[n] = "none"

\* What each call finds in the files of the table it is for.
StepsOK ==
    cur # NoName =>
        /\ step = "deffile" => pc = "create" /\ def[cur] = "none" /\ data[cur] = "none"
        /\ step = "defwrite" => pc = "create" /\ def[cur] = "empty" /\ data[cur] = "none"
        /\ step = "header" => data[cur] = "jempty"
        /\ step = "definition" => pc = "start" /\ data[cur] \in {"blank", "tree"}
        /\ step = "format" => def[cur] \in Schemas /\ data[cur] \in {"blank", "tree"}
        /\ pc = "create" /\ step \in {"journal", "header"} => def[cur] \in Schemas

\* What is unfinished in a directory is being made, or a death interrupted it.
FilesOK ==
    \A n \in dir :
        /\ def[n] = "none" => "deffile" \in died[n] \/ (cur = n /\ step = "deffile")
        /\ def[n] = "empty" => "defwrite" \in died[n] \/ (cur = n /\ step = "defwrite")
        /\ data[n] = "jempty" => "header" \in died[n] \/ (cur = n /\ step = "header")
        /\ data[n] \in {"stuck", "stuckblank"} => "commit" \in died[n]

\* The tables that were opened, and those that could not be.
HandledOK ==
    /\ OpenTablesAreWhole
    /\ pc # "down" => \A n \in dir \ (open \cup todo \cup {cur}) : Unusable(n)
    /\ \A n \in created : def[n] \in Schemas /\ data[n] \in {"tree", "stuck"}

\* The records are a function of the names.
RowsOK ==
    /\ rows = [n \in Names |-> rows[n]]
    /\ torn = [n \in Names |-> torn[n]]
    /\ sent = [n \in Names |-> sent[n]]

\* What the invariant of the rows needs besides RowsReadBack: no step empties
\* the tree of a table with an acknowledged row or changes its definition.
SentOK ==
    /\ RowsReadBack
    /\ \A n \in Names \ lucky :
          DOMAIN sent[n] # {} => def[n] \in Schemas /\ data[n] \in {"tree", "stuck"}

IInv == TypeOK /\ RowsOK /\ ControlOK /\ StepsOK /\ FilesOK /\ HandledOK

-----------------------------------------------------------------------------
\* The initial state.
LEMMA InitIInv == Init => IInv
BY SessionAssumption DEF Init, IInv, TypeOK, RowsOK, ControlOK, StepsOK, FilesOK, HandledOK,
   OpenTablesAreWhole, NoName, Steps

\* Types and domains.
LEMMA TypesStep == IInv /\ [Next]_vars => TypeOK' /\ RowsOK'
<1> SUFFICES ASSUME IInv, [Next]_vars PROVE TypeOK' /\ RowsOK'
  OBVIOUS
<1> USE SessionAssumption DEF IInv, TypeOK, RowsOK, ControlOK, fileVars, observers
<1>1. CASE Start
  BY <1>1 DEF Start
<1>2. CASE StartDone
  BY <1>2 DEF StartDone
<1>3. CASE OpenNext
  BY <1>3 DEF OpenNext, Steps
<1>4. CASE CreateJournal
  BY <1>4 DEF CreateJournal, Opening, Steps
<1>5. CASE WriteHeader
  BY <1>5 DEF WriteHeader, Opening, Steps, AfterPager
<1>6. CASE OpenPager
  BY <1>6 DEF OpenPager, Opening, Steps, AfterPager
<1>7. CASE RecoverByLuck
  <2>1. PICK kept \in SUBSET DOMAIN torn[cur] :
           rows' = [rows EXCEPT ![cur] = [k \in kept |-> torn[cur][k]]]
    BY <1>7 DEF RecoverByLuck
  <2> DEFINE back == [k \in kept |-> torn[cur][k]]
  <2>2. cur \in Names /\ torn' = [torn EXCEPT ![cur] = <<>>] /\ sent' = sent
    BY <1>7 DEF RecoverByLuck, Opening
  <2>3. DOMAIN back \subseteq Keys
    BY <2>2
  <2>4. RowsOK' /\ rows' = [rows EXCEPT ![cur] = back]
    BY <2>1, <2>2
  <2> HIDE DEF back
  <2>5. \A n \in Names : DOMAIN rows'[n] \cup DOMAIN torn'[n] \cup DOMAIN sent'[n] \subseteq Keys
    BY <2>2, <2>3, <2>4
  <2> QED
    BY <1>7, <2>4, <2>5 DEF RecoverByLuck, Opening, Steps, AfterPager
<1>8. CASE OpenFails
  BY <1>8 DEF OpenFails, Opening, Leave
<1>9. CASE ReadDefinition
  BY <1>9 DEF ReadDefinition, Steps
<1>10. CASE Register
  BY <1>10 DEF Register, Opening, Leave
<1>11. CASE CreateDefinition
  BY <1>11 DEF CreateDefinition, Steps
<1>12. CASE WriteDefinition
  BY <1>12 DEF WriteDefinition, Steps
<1>13. CASE Crash
  BY <1>13 DEF Crash, Vanish, NoName, Steps
<1>14. CASE CrashInFormat
  <2>1. cur \in Names /\ rows' = [rows EXCEPT ![cur] = <<>>]
        /\ torn' = [torn EXCEPT ![cur] = <<>>] /\ sent' = sent
    BY <1>14 DEF CrashInFormat, Opening, Vanish
  <2>2. RowsOK'
    BY <2>1
  <2>3. \A n \in Names : DOMAIN rows'[n] \cup DOMAIN torn'[n] \cup DOMAIN sent'[n] \subseteq Keys
    BY <2>1
  <2> QED
    BY <1>14, <2>2, <2>3 DEF CrashInFormat, Opening, Vanish, NoName, Steps
<1>15. ASSUME NEW n \in Names, CreateTable(n) PROVE TypeOK' /\ RowsOK'
  BY <1>15 DEF CreateTable, Steps
<1>16. ASSUME NEW n \in Names, DeleteDies(n) \/ SelectDies(n) PROVE TypeOK' /\ RowsOK'
  BY <1>16 DEF DeleteDies, SelectDies, Vanish, NoName, Steps
<1>17. ASSUME NEW n \in Names, NEW c \in ColumnNames, DeleteThrows(n, c) PROVE TypeOK' /\ RowsOK'
  BY <1>17 DEF DeleteThrows
<1>18. ASSUME NEW n \in Names, NEW row \in Rows, InsertDies(n, row) PROVE TypeOK' /\ RowsOK'
  BY <1>18 DEF InsertDies, Vanish, NoName, Steps
<1>19. ASSUME NEW n \in Names, NEW row \in Rows, NEW k \in Keys, Insert(n, row, k)
       PROVE  TypeOK' /\ RowsOK'
  <2> DEFINE after  == Put(rows[n], k, Store(Types(n), row))
             told   == Put(sent[n], k, row)
  <2>1. rows' = [rows EXCEPT ![n] = after] /\ sent' = [sent EXCEPT ![n] = told] /\ torn' = torn
    BY <1>19 DEF Insert
  <2>2. DOMAIN after \subseteq Keys /\ DOMAIN told \subseteq Keys
    <3>1. DOMAIN after = DOMAIN rows[n] \cup {k} /\ DOMAIN told = DOMAIN sent[n] \cup {k}
      BY DEF Put
    <3> HIDE DEF after, told
    <3> QED
      BY <3>1
  <2> HIDE DEF after, told
  <2>3. RowsOK'
    BY <2>1
  <2>4. \A m \in Names : DOMAIN rows'[m] \cup DOMAIN torn'[m] \cup DOMAIN sent'[m] \subseteq Keys
    BY <2>1, <2>2
  <2> QED
    BY <1>19, <2>3, <2>4 DEF Insert
<1>20. ASSUME NEW n \in Names, NEW row \in Rows, NEW k \in Keys, CrashInInsert(n, row, k)
       PROVE  TypeOK' /\ RowsOK'
  <2> DEFINE after == Put(rows[n], k, Store(Types(n), row))
  <2>1. /\ \/ /\ data' = [data EXCEPT ![n] = "stuck"] /\ torn' = [torn EXCEPT ![n] = after]
              /\ rows' = rows
           \/ rows' = [rows EXCEPT ![n] = after] /\ data' = data /\ torn' = torn
        /\ sent' = sent
    BY <1>20 DEF CrashInInsert, Vanish
  <2>2. DOMAIN after \subseteq Keys
    <3>1. DOMAIN after = DOMAIN rows[n] \cup {k}
      BY DEF Put
    <3> HIDE DEF after
    <3> QED
      BY <3>1
  <2> HIDE DEF after
  <2>3. RowsOK'
    BY <2>1
  <2>4. \A m \in Names : DOMAIN rows'[m] \cup DOMAIN torn'[m] \cup DOMAIN sent'[m] \subseteq Keys
    BY <2>1, <2>2
  <2>5. data' \in [Names -> {"none", "jempty", "blank", "tree", "stuck", "stuckblank"}]
    BY <2>1
  <2> QED
    BY <1>20, <2>3, <2>4, <2>5 DEF CrashInInsert, Vanish, NoName, Steps
<1>21. CASE UNCHANGED vars
  BY <1>21 DEF vars
<1> QED
  BY <1>1, <1>2, <1>3, <1>4, <1>5, <1>6, <1>7, <1>8, <1>9, <1>10, <1>11, <1>12, <1>13, <1>14,
     <1>15, <1>16, <1>17, <1>18, <1>19, <1>20, <1>21 DEF Next, Open

\* The other parts of the invariant, one action each.
LEMMA OthersStep ==
    ASSUME IInv, Next, TypeOK'
    PROVE  ControlOK' /\ StepsOK' /\ FilesOK' /\ HandledOK'
<1> DEFINE Goal == ControlOK' /\ StepsOK' /\ FilesOK' /\ HandledOK'
<1> USE SessionAssumption DEF IInv, TypeOK, ControlOK, StepsOK, FilesOK, HandledOK,
        OpenTablesAreWhole, Unusable, fileVars, observers, Opening
<1>1. CASE Start
  BY <1>1 DEF Start
<1>2. CASE StartDone
  BY <1>2 DEF StartDone
<1>3. CASE OpenNext
  <2>1. /\ pc = "start" /\ pc' = pc /\ cur = NoName /\ cur' \in todo /\ step' = "journal"
        /\ UNCHANGED <<dir, def, data, open, want, todo, created, died>>
    BY <1>3 DEF OpenNext
  <2>2. cur' \in dir /\ cur' \notin open
    BY <2>1
  <2>3. ControlOK' /\ StepsOK'
    BY <2>1, <2>2
  <2>4. FilesOK'
    BY <2>1, <2>2 DEF NoName
  <2>5. HandledOK'
    BY <2>1, <2>2 DEF NoName
  <2> QED
    BY <2>3, <2>4, <2>5
<1>4. CASE CreateJournal
  BY <1>4 DEF CreateJournal
<1>5. CASE WriteHeader
  BY <1>5 DEF WriteHeader, AfterPager
<1>6. CASE OpenPager
  BY <1>6 DEF OpenPager, AfterPager
<1>7. CASE RecoverByLuck
  BY <1>7 DEF RecoverByLuck, AfterPager
<1>8. CASE OpenFails
  BY <1>8 DEF OpenFails, Leave, NoName
<1>9. CASE ReadDefinition
  BY <1>9 DEF ReadDefinition
<1>10. CASE Register
  BY <1>10 DEF Register, Leave, NoName
<1>11. CASE CreateDefinition
  BY <1>11 DEF CreateDefinition
<1>12. CASE WriteDefinition
  BY <1>12 DEF WriteDefinition
<1>13. CASE Crash
  BY <1>13 DEF Crash, Vanish, NoName
<1>14. CASE CrashInFormat
  BY <1>14 DEF CrashInFormat, Vanish, NoName
<1>15. ASSUME NEW n \in Names, CreateTable(n) PROVE Goal
  BY <1>15 DEF CreateTable, NoName
<1>16. ASSUME NEW n \in Names, DeleteDies(n) \/ SelectDies(n) PROVE Goal
  BY <1>16 DEF DeleteDies, SelectDies, Vanish, NoName
<1>17. ASSUME NEW n \in Names, NEW c \in ColumnNames, DeleteThrows(n, c) PROVE Goal
  BY <1>17 DEF DeleteThrows
<1>18. ASSUME NEW n \in Names, NEW row \in Rows, InsertDies(n, row) PROVE Goal
  BY <1>18 DEF InsertDies, Vanish, NoName
<1>19. ASSUME NEW n \in Names, NEW row \in Rows, NEW k \in Keys, Insert(n, row, k) PROVE Goal
  BY <1>19 DEF Insert
<1>20. ASSUME NEW n \in Names, NEW row \in Rows, NEW k \in Keys, CrashInInsert(n, row, k) PROVE Goal
  <2>1. /\ n \in open
        /\ data' = data \/ data' = [data EXCEPT ![n] = "stuck"]
        /\ Vanish(n, "commit") /\ UNCHANGED <<dir, def, lucky>>
    BY <1>20 DEF CrashInInsert, Insertable
  <2>2. /\ pc' = "down" /\ open' = {} /\ cur' = NoName /\ todo' = {}
        /\ died' = [died EXCEPT ![n] = @ \cup {"commit"}]
        /\ UNCHANGED <<dir, def, created>> /\ n # NoName
    BY <2>1 DEF Vanish, NoName
  <2>3. /\ \A m \in Names : died[m] \subseteq died'[m]
        /\ "commit" \in died'[n]
        /\ \A m \in Names \ {n} : data'[m] = data[m]
        /\ data[n] = "tree" /\ data'[n] \in {"tree", "stuck"}
    BY <2>1, <2>2
  <2>4. ControlOK' /\ StepsOK'
    BY <2>2, <2>3
  <2>5. FilesOK'
    <3>1. \A m \in dir : cur # m
      BY <1>20 DEF CrashInInsert, Insertable, NoName
    <3> QED
      BY <2>2, <2>3, <3>1
  <2>6. HandledOK'
    BY <2>2, <2>3
  <2> QED
    BY <2>4, <2>5, <2>6
<1> QED
  BY <1>1, <1>2, <1>3, <1>4, <1>5, <1>6, <1>7, <1>8, <1>9, <1>10, <1>11, <1>12, <1>13, <1>14,
     <1>15, <1>16, <1>17, <1>18, <1>19, <1>20 DEF Next, Open

\* Every step keeps the invariant.
LEMMA NextIInv == IInv /\ [Next]_vars => IInv'
<1> SUFFICES ASSUME IInv, [Next]_vars PROVE IInv'
  OBVIOUS
<1>1. TypeOK' /\ RowsOK'
  BY TypesStep
<1>2. CASE Next
  BY <1>1, <1>2, OthersStep DEF IInv
<1>3. CASE UNCHANGED vars
  BY <1>1, <1>3 DEF IInv, vars, fileVars, observers, ControlOK, StepsOK, FilesOK, HandledOK,
     OpenTablesAreWhole, Unusable
<1> QED
  BY <1>2, <1>3

-----------------------------------------------------------------------------
(* The rows that were acknowledged                                         *)

LEMMA InitSentOK == Init => SentOK
BY DEF Init, SentOK, RowsReadBack

\* A step that tells nobody of a row of n.
Quiet(n) ==
    /\ sent'[n] = sent[n] /\ died[n] \subseteq died'[n]
    /\ rows'[n] = rows[n] \/ rows'[n] = <<>>
    /\ DOMAIN sent[n] # {} =>
          rows'[n] = rows[n] /\ def'[n] = def[n] /\ data'[n] \in {"tree", "stuck"}

SentOf(n) ==
    /\ \A k \in DOMAIN sent[n] :
          k \in DOMAIN rows[n] /\ Load(Types(n), rows[n][k]) = sent[n][k]
    /\ DOMAIN rows[n] # DOMAIN sent[n] => "commit" \in died[n]
    /\ DOMAIN sent[n] # {} => def[n] \in Schemas /\ data[n] \in {"tree", "stuck"}

LEMMA SentOKPerTable == (\A n \in Names \ lucky : SentOf(n)) <=> SentOK
BY DEF SentOK, SentOf, RowsReadBack

LEMMA QuietKeeps ==
    ASSUME NEW n, SentOf(n), Quiet(n)
    PROVE  SentOf(n)'
<1>1. CASE DOMAIN sent[n] = {}
  <2>1. DOMAIN <<>> = {}
    OBVIOUS
  <2>2. rows'[n] = rows[n] \/ DOMAIN rows'[n] = DOMAIN sent'[n]
    BY <1>1, <2>1 DEF Quiet
  <2> QED
    BY <1>1, <2>2 DEF Quiet, SentOf
<1>2. CASE DOMAIN sent[n] # {}
  <2>1. Types(n)' = Types(n)
    BY <1>2 DEF Quiet, Types
  <2> QED
    BY <1>2, <2>1 DEF Quiet, SentOf
<1> QED
  BY <1>1, <1>2

\* An acknowledged row is encoded with the types that it is decoded with.
LEMMA InsertKeepsSent ==
    ASSUME IInv, NEW n \in Names, NEW row \in Rows, NEW k \in Keys, Insert(n, row, k), SentOf(n)
    PROVE  SentOf(n)'
<1> DEFINE r == Store(Types(n), row)
<1>1. /\ rows'[n] = Put(rows[n], k, r) /\ sent'[n] = Put(sent[n], k, row)
      /\ k \notin DOMAIN rows[n] /\ n \in open
      /\ def' = def /\ data' = data /\ died' = died /\ Typed(Types(n), row)
  BY DEF Insert, Insertable, IInv, RowsOK
<1>2. Types(n)' = Types(n)
  BY <1>1 DEF Types
<1>3. Load(Types(n), r) = row
  BY <1>1, SessionAssumption, LoadAfterStore
<1>4. def[n] \in Schemas /\ data[n] = "tree"
  BY <1>1 DEF IInv, HandledOK, OpenTablesAreWhole
<1> HIDE DEF r
<1>5. /\ DOMAIN rows'[n] = DOMAIN rows[n] \cup {k}
      /\ DOMAIN sent'[n] = DOMAIN sent[n] \cup {k}
      /\ rows'[n][k] = r /\ sent'[n][k] = row
      /\ \A j \in DOMAIN sent[n] : j # k /\ rows'[n][j] = rows[n][j] /\ sent'[n][j] = sent[n][j]
  BY <1>1 DEF Put, SentOf
<1>6. \A j \in DOMAIN sent'[n] :
         j \in DOMAIN rows'[n] /\ Load(Types(n), rows'[n][j]) = sent'[n][j]
  BY <1>3, <1>5 DEF SentOf
<1> QED
  BY <1>1, <1>2, <1>4, <1>5, <1>6 DEF SentOf

\* A row that a death left behind is nobody's.
LEMMA CrashKeepsSent ==
    ASSUME IInv, NEW n \in Names, NEW row \in Rows, NEW k \in Keys,
           CrashInInsert(n, row, k), SentOf(n)
    PROVE  SentOf(n)'
<1> DEFINE r == Store(Types(n), row)
<1>1. /\ rows'[n] = rows[n] \/ rows'[n] = Put(rows[n], k, r)
      /\ k \notin DOMAIN rows[n] /\ n \in open /\ def' = def /\ sent' = sent
      /\ data'[n] \in {data[n], "stuck"} /\ "commit" \in died'[n]
  <2>1. n # NoName
    BY SessionAssumption DEF NoName
  <2> QED
    BY <2>1 DEF CrashInInsert, Insertable, Vanish, IInv, RowsOK, TypeOK
<1>2. Types(n)' = Types(n)
  BY <1>1 DEF Types
<1>3. def[n] \in Schemas /\ data[n] = "tree"
  BY <1>1 DEF IInv, HandledOK, OpenTablesAreWhole
<1> HIDE DEF r
<1>4. \A j \in DOMAIN sent[n] : j \in DOMAIN rows'[n] /\ rows'[n][j] = rows[n][j]
  BY <1>1 DEF Put, SentOf
<1> QED
  BY <1>1, <1>2, <1>3, <1>4 DEF SentOf

\* Every other step is quiet for a table that luck has not touched.
LEMMA OthersQuiet ==
    ASSUME IInv, [Next]_vars, NEW n \in Names \ lucky', SentOf(n),
           \A row \in Rows, k \in Keys : ~Insert(n, row, k) /\ ~CrashInInsert(n, row, k)
    PROVE  Quiet(n)
<1> USE SessionAssumption DEF IInv, TypeOK, RowsOK, ControlOK, StepsOK, SentOf, Quiet, Opening,
        fileVars, observers
<1>1. CASE Start \/ StartDone \/ OpenNext \/ OpenPager \/ OpenFails \/ ReadDefinition
  BY <1>1 DEF Start, StartDone, OpenNext, OpenPager, OpenFails, ReadDefinition
<1>2. CASE CreateJournal
  BY <1>2 DEF CreateJournal
<1>3. CASE WriteHeader
  BY <1>3 DEF WriteHeader
<1>4. CASE RecoverByLuck
  <2>1. n # cur
    BY <1>4 DEF RecoverByLuck
  <2> QED
    BY <1>4, <2>1 DEF RecoverByLuck
<1>5. CASE Register
  BY <1>5 DEF Register
<1>6. CASE CreateDefinition
  BY <1>6 DEF CreateDefinition
<1>7. CASE WriteDefinition
  BY <1>7 DEF WriteDefinition
<1>8. CASE Crash
  BY <1>8 DEF Crash, Vanish
<1>9. CASE CrashInFormat
  BY <1>9, ZenonT(40) DEF CrashInFormat, Vanish
<1>10. ASSUME NEW m \in Names, CreateTable(m) PROVE Quiet(n)
  BY <1>10 DEF CreateTable
<1>11. ASSUME NEW m \in Names, DeleteDies(m) \/ SelectDies(m) PROVE Quiet(n)
  BY <1>11 DEF DeleteDies, SelectDies, Vanish
<1>12. ASSUME NEW m \in Names, NEW c \in ColumnNames, DeleteThrows(m, c) PROVE Quiet(n)
  BY <1>12 DEF DeleteThrows
<1>13. ASSUME NEW m \in Names, NEW row \in Rows, InsertDies(m, row) PROVE Quiet(n)
  BY <1>13 DEF InsertDies, Vanish
<1>14. ASSUME NEW m \in Names \ {n}, NEW row \in Rows, NEW k \in Keys, Insert(m, row, k)
       PROVE  Quiet(n)
  BY <1>14 DEF Insert
<1>15. ASSUME NEW m \in Names \ {n}, NEW row \in Rows, NEW k \in Keys, CrashInInsert(m, row, k)
       PROVE  Quiet(n)
  BY <1>15 DEF CrashInInsert, Vanish
<1>16. CASE UNCHANGED vars
  BY <1>16 DEF vars
<1> QED
  BY <1>1, <1>2, <1>3, <1>4, <1>5, <1>6, <1>7, <1>8, <1>9, <1>10, <1>11, <1>12, <1>13, <1>14,
     <1>15, <1>16 DEF Next, Open

LEMMA NextSentOK == IInv /\ SentOK /\ [Next]_vars => SentOK'
<1> SUFFICES ASSUME IInv, SentOK, [Next]_vars, NEW n \in Names \ lucky' PROVE SentOf(n)'
  BY DEF SentOK, SentOf, RowsReadBack
<1>1. lucky \subseteq lucky'
  BY DEF Next, Open, Start, StartDone, OpenNext, CreateJournal, WriteHeader, OpenPager,
     RecoverByLuck, OpenFails, ReadDefinition, Register, CreateDefinition, WriteDefinition,
     Crash, CrashInFormat, CreateTable, DeleteDies, SelectDies, DeleteThrows, InsertDies,
     Insert, CrashInInsert, Vanish, vars, observers
<1>2. SentOf(n)
  BY <1>1, SentOKPerTable
<1>3. CASE \E row \in Rows, k \in Keys : Insert(n, row, k)
  BY <1>2, <1>3, InsertKeepsSent
<1>4. CASE \E row \in Rows, k \in Keys : CrashInInsert(n, row, k)
  BY <1>2, <1>4, CrashKeepsSent
<1>5. CASE \A row \in Rows, k \in Keys : ~Insert(n, row, k) /\ ~CrashInInsert(n, row, k)
  BY <1>2, <1>5, OthersQuiet, QuietKeeps
<1> QED
  BY <1>3, <1>4, <1>5

-----------------------------------------------------------------------------
(* The theorems                                                              *)

\* The inductive invariant, about dbManager.cpp and the process that uses it.
THEOREM SessionInvariant == Spec => []IInv
<1> QED
  BY InitIInv, NextIInv, PTL DEF Spec

\* Type correctness.
THEOREM SessionTypeOK == Spec => []TypeOK
<1>1. IInv => TypeOK
  BY DEF IInv
<1> QED
  BY <1>1, SessionInvariant, PTL

\* A table in dbManager::map has a directory, a definition and a formatted tree.
THEOREM OpenTablesAlwaysWhole == Spec => []OpenTablesAreWhole
<1>1. IInv => OpenTablesAreWhole
  BY DEF IInv, HandledOK
<1> QED
  BY <1>1, SessionInvariant, PTL

\* A name that dbManager can neither open nor create was left so by a death in
\* create_table, in pager::open or in a commit.
THEOREM LostNamesHaveCauses == Spec => []LostNameHasACause
<1>1. IInv => LostNameHasACause
  <2> SUFFICES ASSUME IInv, pc = "idle", NEW n \in dir \ open
               PROVE  \/ def[n] = "none" /\ "deffile" \in died[n]
                      \/ def[n] = "empty" /\ "defwrite" \in died[n]
                      \/ data[n] = "jempty" /\ "header" \in died[n]
                      \/ data[n] \in {"stuck", "stuckblank"} /\ "commit" \in died[n]
    BY DEF LostNameHasACause
  <2>1. cur = NoName /\ todo = {} /\ n # NoName
    BY SessionAssumption DEF IInv, ControlOK, TypeOK, NoName
  <2>2. Unusable(n)
    BY <2>1 DEF IInv, HandledOK
  <2> QED
    BY <2>1, <2>2 DEF IInv, FilesOK, Unusable
<1> QED
  BY <1>1, SessionInvariant, PTL

\* A table whose CREATE was acknowledged can be used after every start, unless
\* a death in the commit of an INSERT left its journal with pages.
THEOREM CreatedTablesStayOpen == Spec => []CreatedStaysOpen
<1>1. IInv => CreatedStaysOpen
  <2> SUFFICES ASSUME IInv, pc = "idle", NEW n \in created \ open
               PROVE  data[n] = "stuck" /\ "commit" \in died[n]
    BY DEF CreatedStaysOpen
  <2>1. cur = NoName /\ todo = {} /\ n \in dir /\ n # NoName
    BY SessionAssumption DEF IInv, ControlOK, TypeOK, NoName
  <2>2. Unusable(n) /\ def[n] \in Schemas /\ data[n] \in {"tree", "stuck"}
    BY <2>1 DEF IInv, HandledOK
  <2>3. data[n] = "stuck"
    BY <2>2, SessionAssumption DEF Unusable
  <2> QED
    BY <2>1, <2>3 DEF IInv, FilesOK
<1> QED
  BY <1>1, SessionInvariant, PTL

\* A row whose INSERT was acknowledged is there and is decoded as it was given,
\* in every table whose journal was not replayed by luck; a row that nobody was
\* told of was being committed when the process died.
THEOREM RowsAlwaysReadBack == Spec => []RowsReadBack
<1>1. SentOK => RowsReadBack
  BY DEF SentOK
<1> QED
  BY <1>1, InitSentOK, NextSentOK, SessionInvariant, PTL DEF Spec

\* A table that a DELETE left in its write state takes no change until the end
\* of the process: newDB.cpp begins to write before it looks at the names.
THEOREM WriteStateAlwaysBlocks == Spec => WriteStateBlocks
<1>1. IInv /\ [Next]_vars
      => [\A n \in write : pc' = "down" \/ (n \in write' /\ rows'[n] = rows[n])]_vars
  <2> SUFFICES ASSUME IInv, Next, NEW n \in write, pc' # "down"
               PROVE  n \in write' /\ rows'[n] = rows[n]
    OBVIOUS
  <2>1. n \in open /\ n \in Names /\ n # cur
    BY SessionAssumption DEF IInv, TypeOK, ControlOK, NoName
  <2>2. n \in write'
    BY <2>1 DEF Next, Open, Start, StartDone, OpenNext, CreateJournal, WriteHeader, OpenPager,
       RecoverByLuck, OpenFails, ReadDefinition, Register, CreateDefinition, WriteDefinition,
       Crash, CrashInFormat, CreateTable, DeleteDies, SelectDies, DeleteThrows, InsertDies,
       Insert, CrashInInsert, Vanish
  <2>3. rows' = rows \/ (\E m \in Names \ {n} : \E v : rows' = [rows EXCEPT ![m] = v])
    <3>1. CASE RecoverByLuck
      BY <2>1, <3>1 DEF RecoverByLuck, Opening, IInv, TypeOK, NoName
    <3>2. CASE Register
      BY <2>1, <3>2 DEF Register, Opening, IInv, TypeOK, NoName
    <3>3. ASSUME NEW m \in Names, NEW row \in Rows, NEW k \in Keys, Insert(m, row, k)
          PROVE  \E o \in Names \ {n} : \E v : rows' = [rows EXCEPT ![o] = v]
      BY <3>3 DEF Insert, Insertable
    <3> QED
      BY <3>1, <3>2, <3>3, ZenonT(40) DEF Next, Open, Start, StartDone, OpenNext, CreateJournal,
         WriteHeader, OpenPager, OpenFails, ReadDefinition, CreateDefinition, WriteDefinition,
         Crash, CrashInFormat, CreateTable, DeleteDies, SelectDies, DeleteThrows, InsertDies,
         CrashInInsert, Vanish, fileVars
  <2>4. rows'[n] = rows[n]
    BY <2>1, <2>3 DEF IInv, RowsOK
  <2> QED
    BY <2>2, <2>4
<1> QED
  BY <1>1, SessionInvariant, PTL DEF Spec, WriteStateBlocks

\* No start and no statement repairs a name whose definition or journal was
\* left unfinished.
THEOREM LostNamesAlwaysStayLost == Spec => LostNamesStayLost
<1>1. IInv /\ [Next]_vars => [\A n \in Names : Lost(n) => Lost(n)']_vars
  <2> SUFFICES ASSUME IInv, Next, NEW n \in Names, Lost(n) PROVE Lost(n)'
    OBVIOUS
  <2> USE SessionAssumption DEF IInv, TypeOK, ControlOK, StepsOK, HandledOK,
          OpenTablesAreWhole, Lost, Opening, NoName, fileVars
  <2>1. CASE Start \/ StartDone \/ OpenNext
    BY <2>1 DEF Start, StartDone, OpenNext
  <2>2. CASE CreateJournal
    BY <2>2 DEF CreateJournal
  <2>3. CASE WriteHeader
    BY <2>3 DEF WriteHeader, AfterPager
  <2>4. CASE OpenPager
    BY <2>4 DEF OpenPager, AfterPager
  <2>5. CASE RecoverByLuck
    BY <2>5 DEF RecoverByLuck, AfterPager
  <2>6. CASE OpenFails
    BY <2>6 DEF OpenFails, Leave
  <2>7. CASE ReadDefinition
    BY <2>7 DEF ReadDefinition
  <2>8. CASE Register
    BY <2>8 DEF Register, Leave
  <2>9. CASE CreateDefinition \/ WriteDefinition
    BY <2>9 DEF CreateDefinition, WriteDefinition
  <2>10. CASE Crash \/ CrashInFormat
    BY <2>10 DEF Crash, CrashInFormat, Vanish
  <2>11. ASSUME NEW m \in Names, CreateTable(m) PROVE Lost(n)'
    BY <2>11 DEF CreateTable
  <2>12. ASSUME NEW m \in Names, DeleteDies(m) \/ SelectDies(m) PROVE Lost(n)'
    BY <2>12 DEF DeleteDies, SelectDies, Vanish
  <2>13. ASSUME NEW m \in Names, NEW c \in ColumnNames, DeleteThrows(m, c) PROVE Lost(n)'
    BY <2>13 DEF DeleteThrows
  <2>14. ASSUME NEW m \in Names, NEW row \in Rows, InsertDies(m, row) PROVE Lost(n)'
    BY <2>14 DEF InsertDies, Vanish
  <2>15. ASSUME NEW m \in Names, NEW row \in Rows, NEW k \in Keys, Insert(m, row, k)
         PROVE  Lost(n)'
    BY <2>15 DEF Insert
  <2>16. ASSUME NEW m \in Names, NEW row \in Rows, NEW k \in Keys, CrashInInsert(m, row, k)
         PROVE  Lost(n)'
    BY <2>16 DEF CrashInInsert, Insertable, Vanish
  <2> QED
    BY <2>1, <2>2, <2>3, <2>4, <2>5, <2>6, <2>7, <2>8, <2>9, <2>10, <2>11, <2>12, <2>13, <2>14,
       <2>15, <2>16 DEF Next, Open
<1> QED
  BY <1>1, SessionInvariant, PTL DEF Spec, LostNamesStayLost
=============================================================================
