------------------------------- MODULE Session -------------------------------
(***************************************************************************)
(* A process that runs statements on tables: the catalog of directories    *)
(* (src/dbManager.cpp) with its start and CREATE step by step, and INSERT, *)
(* DELETE and SELECT (src/newDB.cpp, src/vdbe_cursor.cpp) on the trees.    *)
(* The process can die between any two steps that change a file.           *)
(*                                                                         *)
(* Of a table's data file and journal this module knows what opening them  *)
(* depends on; Pager.tla and BTree.tla say what becomes of the rows.  An   *)
(* INSERT is one step, or the end of the process with or without effect.   *)
(***************************************************************************)
EXTENDS RowCodec, FiniteSets

CONSTANTS
    Names,      \* names of tables
    Schemas,    \* definitions of tables
    Columns,    \* the columns of each definition, as pairs of name and type
    Rows,       \* rows that statements insert
    Keys,       \* bound: keys, readings of the clock in microseconds
    MaxStarts   \* bound: starts of the process

ASSUME SessionAssumption ==
    /\ "none" \notin Names \cup Schemas /\ "empty" \notin Schemas
    /\ Keys \subseteq Nat /\ MaxStarts \in Nat
    /\ Rows \subseteq Seq(Value)

VARIABLES
    \* files
    dir,        \* the names that have a directory
    def,        \* the table file: "none", "empty" or a definition
    data,       \* data and journal: "none"; "jempty", an empty journal; "blank",
                \* no formatted page; "tree"; "stuck" and "stuckblank", a journal
                \* with pages, over a tree and over a blank file
    rows,       \* committed records by key
    torn,       \* the records that a commit cut short was about to leave
    \* memory
    open,       \* dbManager::map
    known,      \* tables whose name_to_col has their columns
    write,      \* tables whose tree is in its write state
    pc,         \* "down", "start", "create" or "idle"
    cur,        \* the table being opened or created
    step,       \* the next call of create_table, pager::open or open_table
    want,       \* the definition of the table being created
    todo,       \* directories initialize_file_system has not come to
    \* observers
    starts,     \* starts so far
    sent,       \* rows by key whose INSERT was acknowledged
    created,    \* tables whose CREATE was acknowledged
    died,       \* the steps of each table at which the process died
    lucky       \* tables whose journal was replayed by luck, see Pager.tla

fileVars == <<dir, def, data, rows, torn>>
observers == <<starts, sent, created, died, lucky>>
vars == <<fileVars, open, known, write, pc, cur, step, want, todo, observers>>

NoName == "none"
Steps  == {"deffile", "defwrite", "journal", "header", "definition", "format"}

Types(n)    == [i \in DOMAIN Columns[def[n]] |-> Columns[def[n]][i][2]]
ColumnNames == UNION {{Columns[d][i][1] : i \in DOMAIN Columns[d]} : d \in Schemas}
HasColumn(n, c) == n \in known /\ \E i \in DOMAIN Columns[def[n]] : Columns[def[n]][i][1] = c
Put(f, k, v) == [x \in DOMAIN f \cup {k} |-> IF x = k THEN v ELSE f[x]]

Init ==
    /\ dir = {}
    /\ def = [n \in Names |-> "none"] /\ data = [n \in Names |-> "none"]
    /\ rows = [n \in Names |-> <<>>] /\ torn = [n \in Names |-> <<>>]
    /\ open = {} /\ known = {} /\ write = {}
    /\ pc = "down" /\ cur = NoName /\ step = "journal" /\ want = "none" /\ todo = {}
    /\ starts = 0
    /\ sent = [n \in Names |-> <<>>] /\ created = {}
    /\ died = [n \in Names |-> {}] /\ lucky = {}

-----------------------------------------------------------------------------
(* The start: each directory is opened as a table, in any order            *)

Start ==
    /\ pc = "down" /\ starts < MaxStarts
    /\ pc' = "start" /\ todo' = dir /\ starts' = starts + 1
    /\ UNCHANGED <<fileVars, open, known, write, cur, step, want, sent, created, died, lucky>>

OpenNext ==
    /\ pc = "start" /\ cur = NoName
    /\ \E n \in todo : cur' = n
    /\ step' = "journal"
    /\ UNCHANGED <<fileVars, open, known, write, pc, want, todo, observers>>

StartDone ==
    /\ pc = "start" /\ cur = NoName /\ todo = {}
    /\ pc' = "idle"
    /\ UNCHANGED <<fileVars, open, known, write, cur, step, want, todo, observers>>

-----------------------------------------------------------------------------
(* pager::open and btree::open, for the start and for CREATE               *)

Opening == cur # NoName /\ pc \in {"start", "create"}
\* Variant: the directory stays to be opened.
LeaveKeeps == cur' = NoName /\ pc' = (IF pc = "create" THEN "idle" ELSE pc) /\ todo' = todo
AfterPager == IF pc = "start" THEN "definition" ELSE "format"
Leave == cur' = NoName /\ todo' = todo \ {cur} /\ pc' = IF pc = "create" THEN "idle" ELSE pc

\* journal::open creates an empty file when there is none.
CreateJournal ==
    /\ Opening /\ step = "journal" /\ data[cur] = "none"
    /\ data' = [data EXCEPT ![cur] = "jempty"]
    /\ step' = "header"
    /\ UNCHANGED <<dir, def, rows, torn, open, known, write, pc, cur, want, todo, observers>>

\* The journal's header, and the data file with a page of zeros.
WriteHeader ==
    /\ Opening /\ step = "header"
    /\ data' = [data EXCEPT ![cur] = "blank"]
    /\ step' = AfterPager
    /\ UNCHANGED <<dir, def, rows, torn, open, known, write, pc, cur, want, todo, observers>>

OpenPager ==
    /\ Opening /\ step = "journal" /\ data[cur] \in {"blank", "tree"}
    /\ step' = AfterPager
    /\ UNCHANGED <<fileVars, open, known, write, pc, cur, want, todo, observers>>

\* The checksum of a journal with pages matches: page 0 is put back, of the
\* other pages those stay that were written.
RecoverByLuck ==
    /\ Opening /\ step = "journal" /\ data[cur] \in {"stuck", "stuckblank"}
    /\ data' = [data EXCEPT ![cur] = IF @ = "stuck" THEN "tree" ELSE "blank"]
    /\ \E kept \in SUBSET DOMAIN torn[cur] :
          rows' = [rows EXCEPT ![cur] = [k \in kept |-> torn[cur][k]]]
    /\ torn' = [torn EXCEPT ![cur] = <<>>]
    /\ lucky' = lucky \cup {cur}
    /\ step' = AfterPager
    /\ UNCHANGED <<dir, def, open, known, write, pc, cur, want, todo, starts, sent,
                   created, died>>

\* Variants: a journal over a file without a formatted page is refused, too; a
\* table that failed to open is entered in the map.
OpenFailsBlank ==
    /\ Opening
    /\ \/ step = "journal" /\ data[cur] \in {"jempty", "blank", "stuck", "stuckblank"}
       \/ step = "definition" /\ def[cur] \in {"none", "empty"}
    /\ Leave
    /\ UNCHANGED <<fileVars, open, known, write, step, want, observers>>
OpenFailsEnters ==
    /\ Opening
    /\ \/ step = "journal" /\ data[cur] \in {"jempty", "stuck", "stuckblank"}
       \/ step = "definition" /\ def[cur] \in {"none", "empty"}
    /\ Leave
    /\ open' = open \cup {cur}
    /\ UNCHANGED <<fileVars, known, write, step, want, observers>>

\* An empty journal, or one whose checksum does not match; no definition, or
\* an empty one.  The start goes on with the next directory.
OpenFails ==
    /\ Opening
    /\ \/ step = "journal" /\ data[cur] \in {"jempty", "stuck", "stuckblank"}
       \/ step = "definition" /\ def[cur] \in {"none", "empty"}
    /\ Leave
    /\ UNCHANGED <<fileVars, open, known, write, step, want, observers>>

ReadDefinition ==
    /\ Opening /\ step = "definition" /\ def[cur] \in Schemas
    /\ step' = "format"
    /\ UNCHANGED <<fileVars, open, known, write, pc, cur, want, todo, observers>>

\* btree::open formats a blank file; the table is entered in the map.  Only
\* table::get fills name_to_col, add_column does not.
Register ==
    /\ Opening /\ step = "format"
    /\ data' = [data EXCEPT ![cur] = "tree"]
    /\ rows' = IF data[cur] = "blank" THEN [rows EXCEPT ![cur] = <<>>] ELSE rows
    /\ open' = open \cup {cur}
    /\ known' = IF pc = "start" THEN known \cup {cur} ELSE known
    /\ created' = IF pc = "create" THEN created \cup {cur} ELSE created
    /\ Leave
    /\ UNCHANGED <<dir, def, torn, write, step, want, starts, sent, died, lucky>>

-----------------------------------------------------------------------------
(* Statements                                                              *)

\* Variant: a directory that is there is used.
CreateTableAgain(n) ==
    /\ pc = "idle" /\ n \notin open
    /\ dir' = dir \cup {n}
    /\ pc' = "create" /\ cur' = n /\ step' = "deffile"
    /\ want' \in Schemas
    /\ UNCHANGED <<def, data, rows, torn, open, known, write, todo, observers>>

\* mkdir refuses a name that has a directory, and with it the statement.
CreateTable(n) ==
    /\ pc = "idle" /\ n \notin dir
    /\ dir' = dir \cup {n}
    /\ pc' = "create" /\ cur' = n /\ step' = "deffile"
    /\ want' \in Schemas
    /\ UNCHANGED <<def, data, rows, torn, open, known, write, todo, observers>>

CreateDefinition ==
    /\ pc = "create" /\ step = "deffile"
    /\ def' = [def EXCEPT ![cur] = "empty"]
    /\ step' = "defwrite"
    /\ UNCHANGED <<dir, data, rows, torn, open, known, write, pc, cur, want, todo, observers>>

\* Variant: the statement is acknowledged before the data file is made.
WriteDefinitionAcks ==
    /\ pc = "create" /\ step = "defwrite"
    /\ def' = [def EXCEPT ![cur] = want] /\ created' = created \cup {cur}
    /\ step' = "journal"
    /\ UNCHANGED <<dir, data, rows, torn, open, known, write, pc, cur, want, todo, starts, sent,
                   died, lucky>>

WriteDefinition ==
    /\ pc = "create" /\ step = "defwrite"
    /\ def' = [def EXCEPT ![cur] = want]
    /\ step' = "journal"
    /\ UNCHANGED <<dir, data, rows, torn, open, known, write, pc, cur, want, todo, observers>>

\* Variant: the state of the tree is not asserted.
InsertableAlways(n, row, k) ==
    pc = "idle" /\ n \in open /\ Len(row) <= Len(Columns[def[n]]) /\ k \notin DOMAIN rows[n]

\* The clock may be set back; two inserts in one microsecond are BTree.tla's.
Insertable(n, row, k) ==
    /\ pc = "idle" /\ n \in open /\ n \notin write
    /\ Len(row) <= Len(Columns[def[n]])
    /\ k \notin DOMAIN rows[n]

\* A row that cannot be encoded leaves an empty record, which the leaf page
\* refuses by an assertion.
Insert(n, row, k) ==
    /\ Insertable(n, row, k) /\ Typed(Types(n), row)
    /\ rows' = [rows EXCEPT ![n] = Put(@, k, Store(Types(n), row))]
    /\ sent' = [sent EXCEPT ![n] = Put(@, k, row)]
    /\ UNCHANGED <<dir, def, data, torn, open, known, write, pc, cur, step, want, todo, starts,
                   created, died, lucky>>

\* begin_write comes before the names of the condition are looked up: an
\* unknown one throws with the tree in its write state.
DeleteThrows(n, c) ==
    /\ pc = "idle" /\ n \in open /\ n \notin write
    /\ ~HasColumn(n, c)
    /\ write' = write \cup {n}
    /\ UNCHANGED <<fileVars, open, known, pc, cur, step, want, todo, observers>>

-----------------------------------------------------------------------------
(* The end of the process                                                  *)

Vanish(n, at) ==
    /\ pc' = "down" /\ open' = {} /\ known' = {} /\ write' = {}
    /\ cur' = NoName /\ step' = "journal" /\ want' = "none" /\ todo' = {}
    /\ died' = IF n = NoName THEN died ELSE [died EXCEPT ![n] = @ \cup {at}]
    /\ UNCHANGED <<starts, sent, created>>

\* Between two calls.
Crash ==
    /\ pc # "down"
    /\ Vanish(cur, step)
    /\ UNCHANGED <<fileVars, lucky>>

\* While btree::open formats the file: the journal has page 0.
CrashInFormat ==
    /\ Opening /\ step = "format" /\ data[cur] = "blank"
    /\ data' = [data EXCEPT ![cur] = "stuckblank"]
    /\ rows' = [rows EXCEPT ![cur] = <<>>] /\ torn' = [torn EXCEPT ![cur] = <<>>]
    /\ Vanish(cur, "commit")
    /\ UNCHANGED <<dir, def, lucky>>

\* While INSERT commits: the journal has page 0, or the commit is complete.
CrashInInsert(n, row, k) ==
    /\ Insertable(n, row, k) /\ Typed(Types(n), row)
    /\ LET after == Put(rows[n], k, Store(Types(n), row))
       IN  \/ /\ data' = [data EXCEPT ![n] = "stuck"] /\ torn' = [torn EXCEPT ![n] = after]
              /\ UNCHANGED rows
           \/ rows' = [rows EXCEPT ![n] = after] /\ UNCHANGED <<data, torn>>
    /\ Vanish(n, "commit")
    /\ UNCHANGED <<dir, def, lucky>>

\* Assertions: a tree in its write state, or a row that cannot be encoded.
InsertDies(n, row) ==
    /\ pc = "idle" /\ n \in open
    /\ Len(row) <= Len(Columns[def[n]])
    /\ n \in write \/ ~Typed(Types(n), row)
    /\ Vanish(NoName, step)
    /\ UNCHANGED <<fileVars, lucky>>

\* An assertion, or, as begin_read is never called, the cursor that is null.
DeleteDies(n) ==
    /\ pc = "idle" /\ n \in open
    /\ Vanish(NoName, step)
    /\ UNCHANGED <<fileVars, lucky>>

\* A row without its text is read at whatever offset is behind its record.
SelectDies(n) ==
    /\ pc = "idle" /\ n \in open
    /\ \E k \in DOMAIN rows[n] : ReadsWild(Types(n), rows[n][k])
    /\ Vanish(NoName, step)
    /\ UNCHANGED <<fileVars, lucky>>

-----------------------------------------------------------------------------
Open ==
    \/ OpenNext \/ CreateJournal \/ WriteHeader \/ OpenPager \/ RecoverByLuck
    \/ OpenFails \/ ReadDefinition \/ Register

Next ==
    \/ Start \/ StartDone \/ Open
    \/ CreateDefinition \/ WriteDefinition \/ Crash \/ CrashInFormat
    \/ \E n \in Names :
          \/ CreateTable(n) \/ DeleteDies(n) \/ SelectDies(n)
          \/ \E c \in ColumnNames : DeleteThrows(n, c)
          \/ \E row \in Rows :
                \/ InsertDies(n, row)
                \/ \E k \in Keys : Insert(n, row, k) \/ CrashInInsert(n, row, k)

Spec == Init /\ [][Next]_vars

\* A start runs on without waiting for anything.
FairSpec == Spec /\ WF_vars(pc = "start" /\ (Open \/ StartDone))

-----------------------------------------------------------------------------
\* Type invariant.
TypeOK ==
    /\ dir \subseteq Names
    /\ def \in [Names -> {"none", "empty"} \cup Schemas]
    /\ data \in [Names -> {"none", "jempty", "blank", "tree", "stuck", "stuckblank"}]
    /\ \A n \in Names : DOMAIN rows[n] \cup DOMAIN torn[n] \cup DOMAIN sent[n] \subseteq Keys
    /\ open \subseteq Names /\ known \subseteq open /\ write \subseteq open
    /\ pc \in {"down", "start", "create", "idle"}
    /\ cur \in Names \cup {NoName} /\ step \in Steps
    /\ want \in {"none"} \cup Schemas
    /\ todo \subseteq dir
    /\ starts \in 0 .. MaxStarts
    /\ created \subseteq dir /\ lucky \subseteq dir
    /\ died \in [Names -> SUBSET (Steps \cup {"commit"})]

\* A table that statements can name has everything the code assumes of one.
OpenTablesAreWhole ==
    \A n \in open : n \in dir /\ def[n] \in Schemas /\ data[n] = "tree"

\* Between statements a directory without a usable table, whose name CREATE
\* refuses, comes from a death at one of four points, and from nothing else.
LostNameHasACause ==
    pc = "idle" =>
        \A n \in dir \ open :
            \/ def[n] = "none" /\ "deffile" \in died[n]
            \/ def[n] = "empty" /\ "defwrite" \in died[n]
            \/ data[n] = "jempty" /\ "header" \in died[n]
            \/ data[n] \in {"stuck", "stuckblank"} /\ "commit" \in died[n]

\* A table whose CREATE was acknowledged is there after every start, unless the
\* process died while it committed an INSERT.
CreatedStaysOpen ==
    pc = "idle" => \A n \in created \ open : data[n] = "stuck" /\ "commit" \in died[n]

\* A row whose INSERT was acknowledged reads back as it was given, with every
\* text in place, and a row nobody was told of comes from a death in a commit.
RowsReadBack ==
    \A n \in Names \ lucky :
        /\ \A k \in DOMAIN sent[n] :
              k \in DOMAIN rows[n] /\ Load(Types(n), rows[n][k]) = sent[n][k]
        /\ DOMAIN rows[n] # DOMAIN sent[n] => "commit" \in died[n]

\* After a DELETE that threw, a table takes no statement that changes it until
\* the process has ended.
WriteStateBlocks ==
    [][\A n \in write : pc' = "down" \/ (n \in write' /\ rows'[n] = rows[n])]_vars

\* A name whose definition or journal was left unfinished stays lost: no start
\* and no statement repairs it.
Lost(n) ==
    /\ n \in dir
    /\ def[n] \in {"none", "empty"} \/ data[n] = "jempty"
    /\ cur = n => pc = "start" /\ (step = "header" => def[n] \in {"none", "empty"})
LostNamesStayLost == [][\A n \in Names : Lost(n) => Lost(n)']_vars

\* A start comes to an end, whatever it finds in the directories.
StartEnds == pc = "start" ~> pc # "start"
=============================================================================
