-------------------------------- MODULE Query --------------------------------
(***************************************************************************)
(* A SELECT (src/newDB-query.cpp) and the reader of its result             *)
(* (src/DBreader.cpp): the scan with its conditions, the grouping by hash, *)
(* the sorting, and the rows shown by next and prev.  The query's where,   *)
(* group, order and master are sequences of expressions; master is empty   *)
(* for SELECT *.  A row is its key with its values, and the table is in    *)
(* the order of keys.                                                      *)
(*                                                                         *)
(* XXH64 is taken to give equal hashes to equal byte strings only; the     *)
(* code feeds it the values one after the other without their lengths.     *)
(***************************************************************************)
EXTENDS Expression, FiniteSets

CONSTANTS
    Tables,     \* contents of the table: sequences of rows' values
    Queries,    \* queries: records of where, group, order and master
    MaxCalls    \* bound: calls of next and prev

VARIABLES
    table,      \* the table's rows
    query,      \* the statement
    pc,         \* the phase, or how it ended
    at,         \* position of the cursor, and of the loop over rows
    rows,       \* rows of execute_query, later of the reader
    map1, map2, \* hash -> position in rows of the group's first row
    clean,      \* the stack of each expression of the reader is empty
    it,         \* DBreader::it, as a position in rows
    haveRead,   \* DBreader::have_read
    values,     \* DBreader::values
    calls       \* observer: calls of next and prev

readerVars == <<clean, it, haveRead, values, calls>>
vars == <<table, query, pc, at, rows, map1, map2, readerVars>>

Row(k, v) == [key |-> k, values |-> v]

\* generate throws when an expression has a name that is no column's.
RECURSIVE Unknown(_)
Unknown(t) == IF t.op \in Leaves THEN t.op = "name" /\ t.arg = 0 ELSE Unknown(t.left) \/ Unknown(t.right)
Generates(ts) == \A i \in DOMAIN ts : ~Unknown(ts[i])

Init ==
    /\ \E t \in Tables : table = [k \in DOMAIN t |-> Row(k, t[k])]
    /\ query \in Queries
    /\ pc = "start"
    /\ at = 1               \* begin_read puts the cursor on the first record
    /\ rows = <<>>
    /\ map1 = <<>> /\ map2 = <<>>
    /\ clean = <<>>
    /\ it = 0 /\ haveRead = FALSE /\ values = <<>>
    /\ calls = 0

\* The value of an expression run for the first time or again after it ended
\* with an empty stack.
Value(t, r) == Run(TRUE, t, r.values).value
ValuesOf(ts, r) == [i \in DOMAIN ts |-> Value(ts[i], r)]

FailsAt(vs, i) == Fails(vs[i]) /\ \A j \in 1 .. i - 1 : ~Fails(vs[j])
End(v) == IF v[1] = "throw" THEN "threw" ELSE "died"

-----------------------------------------------------------------------------
(* The scan                                                                *)

\* Conditions are run in turn up to the first that is zero, or fails.
Condition(vs) ==
    LET stops == {i \in DOMAIN vs : Fails(vs[i]) \/ IsZero(vs[i])}
    IN  IF stops = {} THEN "met"
        ELSE LET v == vs[CHOOSE i \in stops : \A j \in stops : i <= j]
             IN  IF Fails(v) THEN End(v) ELSE "unmet"

Start ==
    /\ pc = "start"
    /\ pc' = IF Generates(query.where) THEN "scan" ELSE "threw"
    /\ UNCHANGED <<table, query, at, rows, map1, map2, readerVars>>

\* next leaves the record that the cursor is on and gives the one after it.
ScanNext ==
    /\ pc = "scan" /\ at < Len(table)
    /\ LET c == Condition(ValuesOf(query.where, table[at + 1]))
       IN  /\ rows' = IF c = "met" THEN Append(rows, table[at + 1]) ELSE rows
           /\ pc' = IF c \in {"met", "unmet"} THEN "scan" ELSE c
    /\ at' = at + 1
    /\ UNCHANGED <<table, query, map1, map2, readerVars>>

ScanEnd ==
    /\ pc = "scan" /\ at >= Len(table)
    /\ pc' = IF query.group = <<>> THEN "order"
             ELSE IF Generates(query.group) THEN "group" ELSE "threw"
    /\ at' = 0
    /\ UNCHANGED <<table, query, rows, map1, map2, readerVars>>

-----------------------------------------------------------------------------
(* The groups                                                              *)

\* What update_hash feeds of a value: a text's characters, or eight bytes.
Bytes(v) == IF v[1] = "text" THEN [i \in DOMAIN v[2] |-> <<"char", v[2][i]>>] ELSE <<v>>
Hash(vs) == FoldLeft(LAMBDA h, v : h \o Bytes(v), <<>>, vs)

\* Variant: rows with the same hash are taken for the same group.
SameHash(vs, ws) == Len(vs) = Len(ws)
Same(vs, ws) == vs = ws

\* Where the row at i goes: to a map, nowhere, or the second map is taken.
\* Only the row in the first map is compared with.
Grouped(i, h) ==
    IF h \notin DOMAIN map1 THEN "map1"
    ELSE IF Same(ValuesOf(query.group, rows[map1[h]]), ValuesOf(query.group, rows[i])) THEN "none"
    ELSE IF h \in DOMAIN map2 THEN "threw" ELSE "map2"

Add(m, h, i) == [x \in DOMAIN m \cup {h} |-> IF x = h THEN i ELSE m[x]]

GroupRow ==
    /\ pc = "group" /\ at < Len(rows)
    /\ LET i  == at + 1
           vs == ValuesOf(query.group, rows[i])
           h  == Hash(vs)
       IN  IF \E j \in DOMAIN vs : Fails(vs[j])
           THEN /\ pc' = End(vs[CHOOSE j \in DOMAIN vs : FailsAt(vs, j)])
                /\ UNCHANGED <<map1, map2>>
           ELSE /\ map1' = IF Grouped(i, h) = "map1" THEN Add(map1, h, i) ELSE map1
                /\ map2' = IF Grouped(i, h) = "map2" THEN Add(map2, h, i) ELSE map2
                /\ pc' = IF Grouped(i, h) = "threw" THEN "collision" ELSE "group"
    /\ at' = at + 1
    /\ UNCHANGED <<table, query, rows, readerVars>>

\* The rows in the maps, sorted by key.
GroupEnd ==
    /\ pc = "group" /\ at = Len(rows)
    /\ LET first == {map1[h] : h \in DOMAIN map1} \cup {map2[h] : h \in DOMAIN map2}
           order == SetToSortSeq(first, LAMBDA i, j : rows[i].key < rows[j].key)
       IN  rows' = [i \in DOMAIN order |-> rows[order[i]]]
    /\ pc' = "order" /\ at' = 0
    /\ UNCHANGED <<table, query, map1, map2, readerVars>>

-----------------------------------------------------------------------------
(* The order, and the reader                                               *)

\* operator< of two values of one type; texts by their characters.
LessText(s, u) ==
    \E n \in 0 .. Len(s) :
        /\ n < Len(u)
        /\ \A i \in 1 .. n : s[i] = u[i]
        /\ n < Len(s) => s[n + 1] < u[n + 1]
Less(v, w) == IF v[1] = "text" THEN LessText(v[2], w[2]) ELSE v[2] < w[2]

\* Variant: positions do not break ties of the last expression.
SortsBeforeUntied(vs, i, ws, j) ==
    LET differ == {k \in DOMAIN vs : vs[k] # ws[k]}
    IN  IF differ = {} THEN i > j
        ELSE LET k == CHOOSE k \in differ : \A l \in differ : k <= l IN Less(vs[k], ws[k])

\* order_sort: the first expression that differs decides, else the position.
SortsBefore(vs, i, ws, j) ==
    LET differ == {k \in DOMAIN vs : vs[k] # ws[k]}
    IN  IF differ = {} THEN i < j
        ELSE LET k == CHOOSE k \in differ : \A l \in differ : k <= l IN Less(vs[k], ws[k])

Order ==
    /\ pc = "order" /\ Generates(query.order)
    /\ LET computed == [i \in DOMAIN rows |-> ValuesOf(query.order, rows[i])]
           failing  == {i \in DOMAIN rows : \E k \in DOMAIN query.order : Fails(computed[i][k])}
           sorted   == SetToSortSeq(DOMAIN rows, LAMBDA i, j :
                                        SortsBefore(computed[i], i, computed[j], j))
       IN  IF failing = {}
           THEN /\ rows' = [i \in DOMAIN sorted |-> rows[sorted[i]]]
                /\ pc' = "ready"
           ELSE LET vs == computed[CHOOSE i \in failing : \A j \in failing : i <= j]
                IN  /\ pc' = End(vs[CHOOSE k \in DOMAIN vs : FailsAt(vs, k)])
                    /\ UNCHANGED rows
    /\ at' = 0
    /\ UNCHANGED <<table, query, map1, map2, readerVars>>

\* The expressions of the result: none when master is * or a product, whose
\* root is the same token.
Exprs(q) == IF q.master = <<>> \/ q.master[1].op = "*" THEN <<>> ELSE q.master

Deliver ==
    /\ pc = "ready" /\ Generates(Exprs(query))
    /\ pc' = "reader"
    /\ clean' = [i \in DOMAIN Exprs(query) |-> TRUE]
    /\ haveRead' = FALSE
    /\ UNCHANGED <<table, query, at, rows, map1, map2, it, values, calls>>

UnknownColumn ==
    /\ \/ pc = "order" /\ ~Generates(query.order)
       \/ pc = "ready" /\ ~Generates(Exprs(query))
    /\ pc' = "threw"
    /\ UNCHANGED <<table, query, at, rows, map1, map2, readerVars>>

\* next and prev show the row at i: each expression is run on the stack it
\* left behind, the ones after a failure are not run.
Show(i) ==
    LET es  == Exprs(query)
        res == [k \in DOMAIN es |-> Run(clean[k], es[k], rows[i].values)]
        bad == {k \in DOMAIN es : Fails(res[k].value)}
        ran == IF bad = {} THEN DOMAIN es ELSE 1 .. CHOOSE k \in bad : \A l \in bad : k <= l
    IN  /\ it' = i
        /\ values' = IF es = <<>> THEN rows[i].values
                     ELSE [k \in {l \in ran : l \notin bad} |-> res[k].value]
        /\ clean' = [k \in DOMAIN es |-> IF k \in ran THEN res[k].clean ELSE clean[k]]
        /\ pc' = IF \E k \in ran \cap bad : End(res[k].value) = "died" THEN "died" ELSE "reader"

Call == pc = "reader" /\ calls < MaxCalls /\ calls' = calls + 1

\* The iterator goes beyond the end when next is called there again.
ReaderNext ==
    /\ Call
    /\ haveRead' = TRUE
    /\ LET i == IF haveRead THEN it + 1 ELSE 1
       IN  \/ /\ i <= Len(rows) /\ Show(i)
           \/ /\ i = Len(rows) + 1 /\ it' = i
              /\ UNCHANGED <<pc, clean, values>>
           \/ /\ i > Len(rows) + 1 /\ it' = i /\ pc' = "wild"
              /\ UNCHANGED <<clean, values>>
    /\ UNCHANGED <<table, query, at, rows, map1, map2>>

\* Variant: the assertion is on the position, too.
ReaderPrevAsserts ==
    /\ Call
    /\ IF ~haveRead \/ it <= 1 THEN pc' = "died" /\ UNCHANGED <<it, clean, values>>
       ELSE Show(it - 1)
    /\ UNCHANGED <<table, query, at, rows, map1, map2, haveRead>>

ReaderPrev ==
    /\ Call
    /\ IF ~haveRead THEN pc' = "died" /\ UNCHANGED <<it, clean, values>>
       ELSE \/ it > 1 /\ Show(it - 1)
            \/ it = 1 /\ UNCHANGED <<pc, it, clean, values>>
    /\ UNCHANGED <<table, query, at, rows, map1, map2, haveRead>>

Next ==
    \/ Start \/ ScanNext \/ ScanEnd \/ GroupRow \/ GroupEnd
    \/ Order \/ UnknownColumn \/ Deliver \/ ReaderNext \/ ReaderPrev

Spec == Init /\ [][Next]_vars

-----------------------------------------------------------------------------
Meanings(ts, r) == [i \in DOMAIN ts |-> Meaning(ts[i], r.values)]
Inexact(ts, r)  == \E i \in DOMAIN ts : Overflows(ts[i], r.values)
Met(r) == \A v \in {Meanings(query.where, r)[i] : i \in DOMAIN query.where} : ~Fails(v) /\ ~IsZero(v)

\* The rows that the loop looks at and that meet the conditions by the meaning of
\* their trees.  Which rows it looks at is a matter of its own: SelectsEveryMatch.
Selected == SelectSeq(SubSeq(table, 2, Len(table)), Met)

\* Of the rows that were looked at, GROUP BY keeps the one with the smallest key of
\* each group, and no other, also where groups share a hash, unless the difference
\* of two compared integers overflows.
FirstOf(s) ==
    {s[i] : i \in {j \in DOMAIN s :
        \A k \in 1 .. j - 1 : Meanings(query.group, s[k]) # Meanings(query.group, s[j])}}
GroupsExact ==
    pc = "order" /\ query.group # <<>>
    /\ (\A i \in DOMAIN table : ~Inexact(query.where \o query.group, table[i])) =>
        /\ {rows[i] : i \in DOMAIN rows} = FirstOf(Selected)
        /\ \A i, j \in DOMAIN rows : i < j => rows[i].key < rows[j].key

\* ORDER BY permutes the rows that were kept, of those that were looked at: no
\* row comes before one that its expressions put first, nor, among equals, before
\* one with a smaller key, unless the difference of two integers overflows.
OrderExact ==
    pc = "reader" /\ (\A i \in DOMAIN table : \A part \in {"where", "group", "order"} :
                        ~Inexact(query[part], table[i])) =>
        LET os   == [i \in DOMAIN rows |-> Meanings(query.order, rows[i])]
        IN  /\ {rows[i] : i \in DOMAIN rows} =
                   IF query.group = <<>> THEN {Selected[i] : i \in DOMAIN Selected}
                   ELSE FirstOf(Selected)
            /\ \A i, j \in DOMAIN rows : i < j =>
                  /\ rows[i] # rows[j]
                  /\ os[i] = os[j] => rows[i].key < rows[j].key
                  /\ \A k \in DOMAIN query.order :
                        Less(os[j][k], os[i][k]) => \E l \in 1 .. k - 1 : os[i][l] # os[j][l]

\* The values shown are those of the expressions the reader was given, on the row
\* the iterator is at, in either direction; after an expression threw, those
\* before it.  Which expressions it is given, and that minus adds, are the code's.
ShownIsCurrent ==
    pc = "reader" /\ it \in DOMAIN rows /\ ~Inexact(query.master, rows[it]) =>
        IF Exprs(query) = <<>> THEN values = rows[it].values
        ELSE LET vs == Meanings(query.master, rows[it])
             IN  /\ \A k \in DOMAIN values : values[k] = vs[k]
                 /\ Len(values) < Len(vs) => vs[Len(values) + 1] = Throws

\* The process dies by a division, by a run on a stack that an earlier throw
\* has left values on, or by prev before any next; never by sorting.  The
\* iterator leaves the rows only after a next that reported the end.
DeathHasACause ==
    /\ pc = "wild" => it = Len(rows) + 2 /\ calls >= Len(rows) + 2
    /\ pc = "died" =>
        \/ \E r \in {table[i] : i \in DOMAIN table}, part \in DOMAIN query :
              \E k \in DOMAIN query[part] : Meaning(query[part][k], r.values) = Dies
        \/ \E k \in DOMAIN clean : ~clean[k]
        \/ ~haveRead /\ calls > 0

-----------------------------------------------------------------------------
(* A property stated by the sources that the code does not have            *)

\* newDB-query.cpp:57 goes through the data to filter them, and test::QueryVerfy
\* compares the result with SQLite's row by row: without a GROUP BY every row that
\* meets the conditions is kept, where no difference of integers overflows.
SelectsEveryMatch ==
    pc = "order" /\ query.group = <<>> /\ (\A i \in DOMAIN table : ~Inexact(query.where, table[i])) =>
        rows = SelectSeq(table, Met)
=============================================================================
