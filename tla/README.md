# newDB in TLA+

A verification project for newDB, a small embedded database in C++: SQL text is parsed into a
tree, executed on tables kept as B-trees, which live in pages of one data file per table,
protected by a rollback journal. The modules here model the program from its files up to its
statements; TLC checks them on small instances, and TLAPS proves for all of them the central invariants of
pager, page cache, leaves, B-tree, rows and catalog. Source paths below are relative to `src/`.

## 1. The system

| Component | Source | State it keeps | Operations | Talks to |
|---|---|---|---|---|
| Operating system layer | `src/os.cpp` | none (file descriptors) | read, write, truncate, fallocate, fdatasync, mkdir | kernel |
| Journal | `src/journal.cpp` | journal file, `status`, `meta` (origin size, page count), a buffer of page records | open, begin/commit_transaction, add_page, read_next_page, clear | os |
| Pager | `src/pager.cpp` | data file, `status`, `page_count`, `writable_pages` | open with recovery, begin_write_transaction, get_page, get_new_page, enable_write, two commit phases | journal, os |
| Page cache | `src/pager.cpp` | list of slots, map from page number to slot | GetNewDbPage: new slot, eviction, early write-out | pager; callers keep references to slots |
| Leaf page | `src/btree_leaf_page.cpp`, `src/btree_page-btree_cursor.cpp` | a page: metas growing up, data growing down, list of free fragments, counters | insert, update, delete, vacuum, merge, balance | B-tree |
| Internal page | `src/btree_internal_page.cpp` | a page: array of keys, array of page numbers | insert, search, update, remove, split, merge, balance | B-tree |
| B-tree | `src/btree.cpp`, `src/btree-cursor.cpp` | header (root, page count, free list), the pages, a stack of page numbers during a call | insert, remove, cursors, allocate and release of pages, commit | pager, both kinds of pages |
| vdbe_cursor | `src/vdbe_cursor.cpp` | a cursor, keys to delete, `writable` | begin_read/write, insert, delete_record, commit | B-tree, table, catalog |
| Table and rows | `src/table.cpp` | columns of a table, `name_to_col` | encoding and decoding of rows and of the definition | vdbe_cursor |
| Catalog | `src/dbManager.cpp` | map of open tables; a directory per table | start, open, create, get | pager, B-tree, table |
| Statements | `src/newDB.cpp` | none | create, insert, delete | catalog, vdbe_cursor |
| Query | `src/newDB-query.cpp` | rows, hash maps of groups | select with where, group by, order by | vdbe_cursor, expressions |
| Expressions | `src/vdbe_expr.cpp` | postfix program, value stack | generate, run, update_hash | query, reader |
| Result reader | `src/DBreader.cpp` | rows, iterator, values shown | next, prev, getters | expressions |
| Syntax | `src/AST.cpp`, generated `src/lexer.cpp`, `docs/parse.c` | a tree per statement | parse | statements |

Everything runs in one thread by calls; what makes the code hard is

* the process or the machine stopping between any two writes of a commit, of a recovery, or of the
  creation of a table;
* references into cached pages kept across calls that can move or release the page;
* trees of pages passing through many intermediate shapes inside one insert or remove, with the
  separators, the sibling links and the parents changed one after the other;
* state that outlives a statement that failed: the write state of a tree, the value stack of an
  expression, the directory of a table;
* assertions, which are never compiled out: each is a point where the process ends and the next
  start has to recover.

What makes each part correct: the data file is at every commit the image the B-tree wrote, and after any
crash the previous one or this one (pager); a page asked for is the page as it was last modified, whatever
slot or file it comes from (cache); no two areas of a leaf share a byte and the counters say so (leaf page);
keys ascend and the children stay with their keys (internal page); every record is where a search looks and
where a scan passes, in memory and in the committed file (B-tree); a table that was acknowledged is there
after every start, and a name that is lost has a known cause (catalog); a row reads back as it was given
(rows); evaluating a compiled expression is evaluating the expression (expressions); filtering, grouping and
ordering keep the rows that the statement means, in its order (query); what is shown belongs to the row the
iterator is at (reader).

## 2. Modules

```
 statements          Session -- RowCodec           Query -- Expression
                        |                            |
                     MCSession                    MCQuery

 B-tree              KeyStore                     RecordList
                        ^ implemented by             ^ implemented by
 InternalPage <-     BTreeProperties -> BTree     LeafPage
                        |                            |
                     MCBTree                      MCLeafPage

 pages               PageStore
                        ^ implemented by
                     PageCache -- MCPageCache     Pager

 proofs (TLAPS)      PagerProofs         <- Pager
                     PageCacheProofs     <- PageCache
                     LeafPageProofs      <- LeafPage, Induction
                     InternalPageProofs  <- InternalPage, Induction
                     BTreeProofs         <- BTreeProperties, InternalPageProofs
                     BTreeInsertProofs   <- BTreeProofs
                     SessionProofs       <- Session, RowCodec, Induction
```

Each layer takes the promise of the layer below in the form the layer below is shown to keep: BTree's `disk`
is the file of Pager at a commit; its `page` is what PageCache serves; a leaf in BTree is the list of
records LeafPage implements; of a table's files Session knows the five states that opening them in Pager
depends on; its rows are the map KeyStore describes; Query's table is what a scan (`ScanComplete`) passes.

**Pager** has one action for each system call that changes a file: opening (`JournalOpen`,
`JournalHeader`, `OpenData`), recovery (`RecoverTruncate`, `ReplayMatch`, `ReplayMismatch`,
`RecoverSync`, `RecoverClear`, `NothingToRecover`), a write transaction, and the commit (`Commit`
journals page 0, `JournalPages`, `JournalMeta`, one `WritePages` step per page in any order, `Sync`,
`CommitTwo`). The content of a page is the number of the transaction that wrote it. `Crash` ends the
process between any two calls and leaves the kernel's files; in `PowerSpec`, which runs and theorems
are about, `Flush` writes single blocks back in any order and `PowerLoss` loses the rest. The checksum that
`journal::read_next_page` computes over an uninitialised buffer either matches or not. A cache full
of dirty pages ends the journal transaction early (`steal_...`). `stable` and `breach` are observers:
the image as of the last finished commit, and the events after which the code promises less
(`"lucky"`: a checksum matched by luck; `"steal"`: a full cache wrote early; `"power"`: the power
went while the journal had pages; `"rest"`: it went while the journal had none). Neither the journal's
records nor its truncation are ever synchronised, so that after `"rest"` the journal of a finished commit
can be back; the next open refuses it or, by luck, replays its page 0.

**PageCache** has the cache slot by slot: the list `pages`, the `map`, the list `writable` in the
order of marking, and `refs`, the references that the B-tree's functions keep to slots while they
ask for further pages. `UseSlot` is `GetNewDbPage` as `get_page` and `get_new_page` use it: a new
slot, or the last clean one, or any after the journal was committed and the pages were written
early; the map's entry for the number the slot carried is erased, which for a new slot is page 0. A
new page has the content its slot had before. `btree::open` and `btree::commit` are modelled whole,
since they alone touch page 0 (`Open`, `FormatNewPage`, `FormatMark`, `FormatInit`, `CommitFetch`,
`CommitMark`, `CommitHeader`, `Flush`); any other caller is `Fetch`, `NewPage`, `Mark`, `Modify`, in
any order, with the one rule that it modifies what it has marked. `truth` is what callers meant to
write; `breach` is `"stale"` after a caller marked a slot that had been given to another page.
**PageStore** is the promise: pages that only modifications change, a file that only commits change.

**InternalPage** is the page of separators as operators on a record `keys, count, kids`. `keys` is
the whole array, so what `remove` and `split` leave behind the used part stays visible, as it is to
`insert`, which compares a new key with the word behind the last one. What the array of a new page holds
there is the constant `Leftovers`, a set of arrays: `get_new_page` clears nothing, so it is zeros until
the cache reuses a slot and any words of an earlier page after that; a page from the free list keeps its own
array (`OldKeys`). `BalancePages` performs the
copy through the two buffers as the code does, including the one in the wrong direction.

**BTree** has one action per iteration of the loops in `search_page`, `insert` and `adjust_tree`, so
every intermediate tree is a state. A leaf is the sequence of its records with their aligned sizes
(LeafPage shows that the room in a page depends on those alone). `page` is what the process sees,
`disk` what the last commit wrote, which is exactly the pages that `enable_write` was called for.
`Evict` reads a clean page again, `Reopen` ends the process anywhere. `upper` is the pointer that
`adjust_tree` takes once before its loop. `Aborts` ends the process in the function whose assertion
fails. **BTreeProperties** has the properties; **MCBTree** the plans of the runs: the calls that
bring a tree to the shape a run is about, made by the model's own actions, the keys it may then use, and
how many calls more.

**LeafPage** is two neighbouring leaves with every offset and counter: fragments are reused only at
their exact size, `allocate_space` may vacuum in the middle of an insertion, `balance` ignores that
an insertion was refused. A record is its key, the size the caller gave (the aligned one is computed,
as in the code) and its offset.

**KeyStore** is the abstract map: an insert or a removal is one step, a commit saves the contents, a
restart brings the saved ones back. `ImplementsKeyStore` maps `content` to what a scan from the root
passes, at every intermediate step, and `saved` to the same scan of the committed pages.
**RecordList** is a sorted list of records that one call changes in one place and that merges,
balances and vacuums leave alone.

**RowCodec** is `store_row_to_record` and `load_row_from_record`: a cell per value, the characters of
the texts behind them, with the running offset. **Session** is a process that runs statements on
tables. Its start opens the directories one by one (`Start`, `OpenNext`, then the calls of
`pager::open` and `open_table`, `StartDone`); CREATE is `CreateTable`, `CreateDefinition`,
`WriteDefinition` and the same calls; `Register` enters a table. `Insert`, `DeleteThrows`,
`DeleteDies`, `InsertDies` and `SelectDies` are the statements, `Crash`, `CrashInFormat` and
`CrashInInsert` the deaths. `data` sums up a table's data file and journal: `"jempty"` an empty
journal, `"blank"` no formatted page, `"tree"`, and `"stuck"` or `"stuckblank"` a journal with pages,
which a start replays by luck (`RecoverByLuck`) or refuses (`OpenFails`). `known` is the set of
tables whose `name_to_col` is filled, which `table::get` does and `add_column` does not.

**Expression** compiles a tree to postfix (`Suffix`) and executes it on a stack (`Execute`, `Run`)
with integers of `Width` bits; `Meaning` evaluates the tree. **Query** is a SELECT: the scan, the
groups by hash with the spare map, the order, and the reader's `next` and `prev`, each loop iteration
a step, with every way a statement ends by a throw or an assertion. A hash is taken to be the bytes
that are fed to it, so that a collision is exactly the one the code provokes, values joined without
their lengths.

## 3. Runs

| Run | Question | Bounds | Result |
|---|---|---|---|
| `pager_crash` | Is what an opened pager serves the last commit, whatever crashes happened, and whatever power losses while the journal had no pages? Is a torn file always announced by the journal? Does a commit end, and exactly? | 3 pages, 2 transactions, 2 cache slots | holds; also checks `IInv` of the proof |
| `page_cache` | Do map and list of modified pages say what is in the slots? Is a page read back as last modified? When does a reference lose its page? Is the file of a commit the pages? | 3 slots, 4 pages, 2 references besides the header's, 3 modifications | holds |
| `btree_insert` | Do inserts, commits and crashes implement the map, also when an assertion on a word left in a slot ends the process? Is every committed image a search tree? Does a walk back descend to the first leaf? | 6 keys of the largest size, 6 calls, slots of zeros or full of one of the keys | holds |
| `btree_remove` | Scans complete at every step, no empty leaf, no failed search but on a starved page? Records where a search looks, each page in use with exactly one parent, keys in order, also in a tree of three levels about to merge and balance internal pages? | 6 keys and 6 calls; 24 keys and any 2 calls after 28 fixed ones; slots of zeros | holds |
| `leaf_page` | Counters, areas, fragments and the list of records of two leaves; would a vacuum find room at any time? | 8 keys, 2 sizes, any 4 calls after 6 fixed ones | holds |
| `session` | Which names are lost, and why? Are acknowledged tables and rows there after every start? Does a start end? What does a failed DELETE leave? | 2 names, 2 definitions, 3 rows, 1 key, 3 starts | holds |
| `query` | Of the rows the loop looks at, which are all but the first, do conditions, groups and order give what the trees of the expressions mean, with minus taken as the plus that is executed for it? Does the reader show the row it is at? How can the process end? | tables of up to 4 of 4 rows, 15 queries, integers of 3 bits, 4 calls of the reader | holds |
| `pager_torn_recovery` | Does recovery undo a torn commit? | 3 pages, 2 transactions | violated |
| `btree_torn_merge` | Is a committed merge a search tree? | 4 fixed calls, 2 more | violated |
| `leaf_balance_loss` | Do balanced leaves keep their records? | 19 fixed calls, 1 more | violated |
| `page_cache_large` | Does a transaction commit that modifies more pages than the cache has slots? | 3 slots, 6 pages | violated |
| `query_first_row` | Does a SELECT find every row that meets its conditions? | as `query` | violated |

Why the bounds are enough. *Pager*: two transactions give a torn commit of a first or of a second
transaction, its recovery, and a commit on top of the recovered file; three pages give page 0, an old one
and a new one; the cache of two slots lets the third dirty page steal. The proofs cover every other size.
*Cache*: four pages do not fit in three slots, so that a slot is taken from a page, also while one of two
callers refers to it; two references and the header's fill the cache with modified pages; the proofs cover
every other size. *B-tree*: payloads are 16376 bytes, the largest aligned payload below a quarter of the
page the code accepts, so three records fill a leaf and the fourth splits it; six keys make three leaves,
with all cases of the choice of a neighbour. In `btree_insert` a new root stands in a slot that is zero or
full of key 4, which may or may not be the separator the next split hands up; the other runs are about
shapes and take zeros. `KeyCapacity` 8 instead of the 5459 of a 64 KiB page lets 24 keys make three levels;
splits, merges and balances of internal pages and the release of a root depend on the capacity only through
"full" and "less than a quarter". Crashes, evictions and commits are possible between any two steps after
the fixed calls. *Leaf*: 1024-byte pages with payloads of 104 and 167 bytes keep the ratios of page, payload
and meta of a real page with large records; 167 is one less than a multiple of 8, which is where aligned and
unaligned sizes differ. Four calls reach fragments taken exactly, vacuum inside an insertion, a merge, a
balance and the failing update. `leaf_balance_loss` uses 512-byte pages with 8-byte records, as the loss
needs metas larger than payloads. *Session*: with three starts a table is created, cut short, refused and
refused again, or filled, cut short in a commit and replayed by luck; the rows are complete with two texts,
short, and of the wrong type. *Query*: four rows, of which three can pass the scan, are what a collision of
three needs; the rows bring different texts that join to the same bytes, differences that overflow, a
divisor of zero and empty texts; four calls of the reader go over two rows, beyond the end and back.

CHECK_DEADLOCK FALSE is set where the system really stops: in the two leaf configurations, whose
calls are bounded and where an assertion ends the process for good; in `page_cache` and
`page_cache_large`, where the assertion in `add_page` or the bound on modifications ends the run; in
`session`, after the last start; and in `query` and `query_first_row`, after the last call of the reader
or the end of the statement. In the other
runs the process can always be started again.

Restrictions on callers, stated as CONSTANTS or guards: `Repeats = FALSE` (a key that is present is
not inserted again, see section 5), `Removals`, a row is not longer than the columns of its table,
and `breach`, `lucky` or `broken` in the antecedent of those properties that the code promises only
while nothing in section 4 or 5 has happened.

**Fairness.** `FairPowerSpec` of Pager has weak fairness on the steps of a commit and of an opening, for
`CommitEnds` only; `FairSpec` of Session on the steps of a start, for `StartEnds` only. All are
straight-line code or loops over a list read once, without a wait: a call that was entered runs until it
returns or the process ends, and `Crash` and `PowerLoss` stay possible throughout, in which case the commit
or the start is over. No fairness is assumed of callers.

## 4. Findings

Each is a run whose property quotes the repository and that TLC violates; PROJECT.json has the lines.

1. *Only page 0 is ever journalled* (`journal.cpp:142`): after a crash during `WritePages`, recovery
   cannot put the other pages back and serves a mixture (`pager_torn_recovery`).
2. *A merge does not mark the parent writable* (`btree.cpp:395`): the commit leaves it out and the
   file has lost the moved records (`btree_torn_merge`).
3. *`balance` of leaves drops a record the other page refuses* (`btree_leaf_page.cpp:361`,
   `leaf_balance_loss`).
4. *A transaction larger than the cache cannot commit* (`pager.cpp:250`, `page_cache_large`):
   `GetNewDbPage` commits the journal half-way, and the next page that is marked fails the assertion in
   `add_page` (`journal.cpp:139`). `test_pager.cpp:24` writes more pages in one transaction than there are
   slots.
5. *SELECT never returns the row with the smallest key* (`newDB-query.cpp:58`, `query_first_row`):
   `begin_read` is on it when `next` is called first. `Selected`, which the other properties of Query build
   on, therefore starts at the second row.

## 5. Met while modelling, not in a run

All of these are in the models (they are how the actions are written) unless marked otherwise.

*Files and cache*

* Recovery sums the wrong buffer (`journal.cpp:113`): whether a journal with pages is accepted is
  left to memory contents, and normally it stops every later start. `ReplayMismatch` in Pager and
  `OpenFails` in Session.
* The journal is never synchronised (`journal.cpp:157`). Power lost in the middle of a commit can leave any
  mixture of old and new pages, with or without a journal that says so. Power lost after a commit loses
  nothing of the data file (`ServesCommitted` with `"rest"`), but the truncation may be undone: the old
  journal stops every later start or, by luck, is replayed.
* Slots start with page number 0, so using one unmaps page 0 (`pager.cpp:98`): page 0 can be in two
  slots. Harmless, for a reason nobody wrote down: it is modified only between the last `get_page`
  of a transaction and its commit (section 6).
* A slot is given away while a caller still holds a reference to it, once the cache is full
  (`pager.cpp:259`); `ReferenceKeepsItsPage` bounds this, and `"stale"` marks a caller that then
  marks the slot.
* An empty journal file, left by a death right after its creation, makes every later open fail
  (`journal.cpp:28-45`); `JournalOpen` has it, and `LostNameHasACause` says what it costs.

*B-tree*

* `release_page` writes the link of the free list as `next_page` of a leaf, `allocate_page` reads it as
  `free_pager_header::next_page`, another offset (`btree.cpp:122`, `btree.h:49`): the second page taken from
  the list is not a free page. The pages behind the first are lost to the list; that no page is used twice
  is part of `NoSharing`. `Released` and `Allocate` have both fields; `Aborts` in `allocate_page` is the
  result.
* `upper_page` is stale after the first level of `adjust_tree` (`btree.cpp:420`): an internal page, the root
  among them, can stay without keys above other internal pages, where `search_page` asserts that there are
  some. Such pages are `Starved`; `Findable` and `SearchNeverAborts` say that nothing else keeps a search
  from its record.
* `balance` of internal pages copies keys over page numbers (`btree_internal_page.cpp:86-88`); what it loses
  is `broken`, and the properties of `btree_remove` speak of the rest.
* `insert` takes `status_key_exists` for a full leaf (`btree.cpp:231-236`): the leaf is split, and either
  the assertion at :172 fails or, from a leaf of one record, the key is there twice. With `Repeats = TRUE`
  BTree shows it. Keys of rows come from a clock in microseconds (`newDB.cpp:68`).
* `insert` into an internal page compares with the word behind the last key (`btree_internal_page.cpp:123`),
  where a removed separator may still stand, or, in a new page, whatever the page had that was in the cache
  slot before (`pager.cpp:105`, `btree_internal_page.cpp:8`). If it equals the key, the assertion there ends
  the process. The behaviours of `btree_insert` include this; the proofs say that no other assertion can
  fail, and none if no word of a slot is a key (`LeftoversHarmless`, section 6).
* A split leaves `prev_page` of the page behind the new one as it was (`btree.cpp:161`): a walk back skips
  the new leaf, and `BackwardDescends` says that it at least descends and arrives. A merge leaves it naming
  the released page (`btree_leaf_page.cpp:336`), for which that property fails; its run makes no removals.
* A merge of leaves is decided by payload alone and asserted to succeed (`btree.cpp:305-309`), while `merge`
  counts metas too; with many small records it fails (`Merge` in LeafPage, `"merge"`).
* `update_payload` compares unaligned sizes and then asserts (`btree_page-btree_cursor.cpp:124-129`),
  although a comment says that this cannot fail; the behaviours of `leaf_page` include it.
* Not modelled: `get_last_cursor` opens internal pages as leaves (`btree.cpp:467-489`); it has no caller.

*Statements*

* A DELETE whose names are known always ends the process: it calls `next` on the cursor that only
  `begin_read` makes (`newDB.cpp:81-92`). One with an unknown name throws after `begin_write` and
  leaves the tree in its write state, so that the next INSERT fails its assertion.
* `add_column` never enters a name in `name_to_col` (`table.cpp:134`): it accepts a column twice, and
  a table knows its columns only after the next start.
* The status of `row_to_record` is ignored (`newDB.cpp:74`): a value of the wrong type gives an empty
  record, which the leaf page refuses by an assertion; a row too short is stored, and its missing
  texts are read at whatever offset stands behind it.
* A death while a table is created, or before its journal is whole, leaves a name for good that CREATE
  refuses and a start cannot open (`dbManager.cpp:70-97`).
* Minus is executed as plus (`vdbe_expr.cpp:161-168`), two integers are compared by a difference that
  can overflow (`vdbe_expr.cpp:58`), and an instruction that throws leaves its expression unusable
  (`vdbe_expr.cpp:294`). `Meaning` has the plus; the properties exclude the overflow by name.
* The exception for colliding groups speaks of three different results with one hash; two suffice, when
  the second comes twice (`newDB-query.cpp:106`). `GroupsExact` is about queries that end without it.
* `SELECT a*b` is taken for `SELECT *` (`newDB-query.cpp:138`).
* Not modelled: `IEDB_execute_query_sql` tests its tree with `&&` where `||` is needed
  (`newDB-query.cpp:149`); names of 32 characters and more are stored without a terminator
  (`table.cpp:33`); 0.0 and -0.0, which are equal, get different hashes, and a NaN breaks the order
  that `std::sort` needs.

## 6. Proofs

Eight modules hold theorems or lemmas; each theorem is proved for every value of the constants, from
the named assumptions of the module it is about and, for the B-tree, the hypotheses on callers that
its statement names. No theorem rests on a bound of section 3.

**`PagerProofs`** (from `PagerAssumption`: at least one page and one slot). All theorems are about
`PowerSpec`, in which the process can die and the machine can lose its power between any two calls.
`TypeCorrect`, `ServesCommittedAlways`, `HeaderRestoredAlways` and `TornIsMarkedAlways` are not inductive.
That a pager serves the last commit depends on what a crash left, which depends on how far the commit had
come. `IInv` (`PagerInvariant`) says it while the power stays on: `TypeOK`; `JournalOK`, which ties the
state of the journal file to the control flow; and, as long as no full cache has written pages early,
`MarkOK` (a journal with pages holds exactly one, page 0 as of the last commit, and the length of the file
then), `FileOK` (a journal without pages means that the file has the header and length of the last commit,
and all its pages unless a checksum matched by luck), and `PhaseOK` (what holds at each call site, among it
that all pages between the old end of the file and `page_count` are still to be written).
`CommitIsExactAlways` needs more, that the pages not yet written are those a commit has still to write
(`Progressed`), and is proved from a second invariant, `CommitOK`, on top of `IInv`. With power losses it
does not say enough, as a loss can undo what the kernel had. `PowerInv`, proved together with it
(`PowerInvariant`), has what the device itself must have: `LengthsOK` and `PagesOK`, whatever was lost, and
`RestOK`, that while the journal has no pages the data file as the kernel has it and as the device has it
both are the last commit. It survives losses at rest, because pages are written under a journal with pages
only and the journal is emptied after the `fdatasync`; `ServesCommittedAlways` and `TornIsMarkedAlways`
follow from it, `HeaderRestoredAlways`, which is about lucky checksums, from `IInv`.

**`PageCacheProofs`** (from `CacheAssumption`: at least two slots and two pages). `CacheInvariant` is
`Spec => []IInv`; from it `CacheTypeOK`, `MapAlwaysExact`, `WritableAlwaysExact`, `CacheCoherent`,
`ReferencesKeepPages` and the refinement `CacheImplementsPageStore`. `Coherent`
is not inductive, because a slot of page 0 may have lost its entry in the map. `SlotsOK` says that the
list has each slot once, `RefsOK` what a reference may rely on, `PagesOK` that every page but page 0 is
found where it is and agrees with the file unless it is marked, `ControlOK` what a transaction is, and
`HeaderOK` that page 0 is modified in one slot only, the header's, from the moment no further
`get_page` comes until the commit. The lemmas on `UseSlot` state what `GetNewDbPage` does to each
part; each operation then has one lemma for the cache (`...Core`) and one per action.

**`SessionProofs`** (from `SessionAssumption`: the names of states are no names of tables).
`SessionInvariant` is `Spec => []IInv`; from it `SessionTypeOK`, `OpenTablesAlwaysWhole`,
`LostNamesHaveCauses`, `CreatedTablesStayOpen`, `WriteStateAlwaysBlocks` and
`LostNamesAlwaysStayLost`. What a death leaves depends on the step it interrupts: `StepsOK` ties the
files of the table being opened or created to the next step, `FilesOK` every unfinished file to a
death or to that step, and `HandledOK` says of each table the start is done with that it is open or
unusable.

`RowsAlwaysReadBack` needs `SentOK`, that no step empties the tree of a table with an acknowledged row
or changes its definition, and `LoadAfterStore`: reading undoes storing for
every row with values of its columns' types. The offset of a text is a sum over the texts before it;
`LoadAfterStore` follows that sum step by step. `SessionAssumption` says for this that rows are
sequences of values.

**`Induction`** has what proofs about recursive functions need, stated over sets and functions because
the provers cannot instantiate an induction theorem with a predicate: the least element of a set of
numbers, a set that is closed under the next number, the function that repeats steps, and what putting
in or taking out one element does to a sequence.

**`LeafPageProofs`** (from `LeafAssumption`). `LeafInvariant` is `Spec => []LeafInv`; from it
`AccountingAlways`, `NoOverlapAlways` and `VacuumNeverFails` (`VacuumAlwaysFits`). None is inductive without the
others, since an insertion trusts the counters to choose a free area and a deletion subtracts from them
what the area held. `Sound` joins them: the counters are the sums of the aligned sizes, records and
fragments lie between `dataZone` and the end, apart from each other, and, as the sizes then add up to
the whole data zone, no byte of it belongs to nothing. A page is `Good` when it also has a byte to
spare, which is what `vacuum`, in the middle of an insertion, needs. Each operation on one page keeps
`Good`; merge, balance and vacuum repeat operations, and keep it by induction over the records moved.

**`InternalPageProofs`** has, for every capacity and content, what the operations do to the range of
keys a page divides among its children (`Divides`): a child's share lies between the keys on its two
sides, and `insert`, `remove`, `update`, `split` and `merge` change shares only as their caller means
them to (`InsertKeyDivides`, `RemoveKidDivides`, `UpdateKeyDivides`, `SplitPageDivides`,
`MergePagesDivides`). `ChildHolds` says that the child a search takes is the one whose share has the
key. `Keyed` says more of a page's keys: they ascend strictly, lie in the page's range with some of the
range before the first, and what the array still holds behind the last is a word of `Leftovers` or outside
the range. So the word `insert` compares the new key with (section 5) can equal it only if the key is among
the `LeftKeys`. `TakesIn`, `SplitKeyed` and `NewPageKeyed` show that otherwise `insert` never reports a key as
present, and that it, `split` and the making of a new root keep pages keyed.

**`BTreeProofs`** (from `BTreeAssumption` and `InternalPageAssumption`, an internal page has room for
at least eight keys). `BTreeInvariant` is `Spec => []IInv`. Which range of keys a
page is responsible for is nowhere in the state, so `IInv` says that ranges and levels exist that fit:
the root has all keys, the children of a page divide its range one level further down, pages of one
level have no key in common, a leaf has the records of its range in order, and every page in use but
the root has a parent (`Tree`). In the middle of a call the tree is one change short of that, and
`Calling` says which: during an insert the page that was split and its new neighbour stand for one
child of the page above (`Whole`); during a removal the page the loop is at may have lost all its keys
and `upper_page` points somewhere below (`PointerOK`). The same is said of the committed file unless a
commit left out a page (`DiskOK`). From it follow
`NoSharingAlways`, `SearchNeverAbortsAlways` and `FindableAlways`, for inserts and removals with merges
and balances of leaves, merges of internal pages, evictions, commits and restarts. `TypesAlways` is the
type invariant: it holds for every sequence of calls until `balance` has lost children or a page has been
read back that a commit left out.

**`BTreeInsertProofs`** has what holds on top of that as long as callers only insert:
* `InsertsInvariant`: every page that is not marked as written is as it is in the file, so that no commit
  leaves one out and no page is read back older than it was. No separator is 0, so that every internal page
  has a child for 0 and the first leaf alone has it;
* `DurableFindableAlways` and `BackwardDescendsAlways`: with removals both fail, for the reasons of section
  4 (2) and section 5;
* `RoomInvariant`: every leaf has a byte to spare, so that a split puts every record of a leaf into one of
  the halves; `balance` drops none;
* `ScanShowsAlways`: a scan shows the records of all leaves. `Linked`, a part of `IInv`, says that the
  `next_page` of a leaf names the leaf of the range that begins where its own ends, so that a scan passes
  leaf after leaf, and the measure that it comes to the end is the number of leaves whose ranges are still
  ahead. `ScanInOrderAlways` is the part of `ScanComplete` about keys and order;
* `ScanCompleteAlways`: no leaf but a root is without records between calls, so that `next`, which asserts
  that the leaf it moves to has some, never fails (`HoldInvariant` says it of the file, too). It depends on
  how a full leaf is split: `SplitWorks` shows that both halves get records and either has room for the
  record that did not fit, from what `balance` stops at (`BalanceSteps`: the loop moves one record after the
  other until the sides are level, so the sizes of the halves differ by no more than a record);
* `KeyInvariant`, for any `Leftovers`: no page is free, so that every page a split takes is a new one; every
  internal page is `Keyed`, in memory and in the file; in the middle of an insert the key that is handed up
  parts the share of the child that was split in two (`Parts`), so that the page above takes it in or is
  full, and a full page has enough keys to be split; and the only assertion that can have failed is that of
  `insert`, on a key that is among the `LeftKeys`. `FailsOnLeftover` goes through the assertions, `KeysStep`
  through the steps;
* `InsertNeverAbortsAlways`: if the slots of new pages hold no key of a caller (`LeftoversHarmless`),
  inserting a key that is not there never ends in an assertion. The code gives this only until the cache
  reuses a slot, and without it the statement is false: with slots full of one key TLC finds the assertion
  fail;
* `KeysOrderedAlways`: the keys of an internal page ascend strictly, and those of the root lie strictly
  between the keys of its children (`KeysBetween`);
* `ImplementsKeyStoreAlways`, the refinement of KeyStore: `LeafSteps` says of every step of the model that
  it adds one record to the leaves, changes none, or brings those of the last commit back, and
  `ScanShowsAlways` turns that into steps of the map.

Hypotheses: `SizesSplit`, for `SplitWorks` and what uses it (`HoldInvariant`, `ScanCompleteAlways`, and,
since a record must fit into its half of a split leaf, `KeyInvariant`, `InsertNeverAbortsAlways` and
`KeysOrderedAlways`): all records have one size, or none takes more than a thirteenth of what a page holds
(5032 bytes of the 64 KiB of the code). It is needed: a full leaf that begins with one large record and goes
on with many small ones is split into an empty leaf and a full one. `LeftoversHarmless`, for
`InsertNeverAbortsAlways` alone. `~Repeats`, a key that is present is not inserted again, since with
repeated keys a leaf can hold one twice (section 5); `OnlyInserts`, no removals in the run or its first
calls. After a balance of internal pages, which loses children, or after a page was read back that a commit
had left out (`broken`), the theorems promise nothing, nor do the properties. `MaxPages >= 2` in
`BTreeAssumption` is what `btree::open` needs: a header page and a root.

The type invariants of `PagerProofs`, `PageCacheProofs`, `SessionProofs` and `LeafPageProofs` are
conjuncts of their invariants. `pager_crash` checks `IInv` of the pager as it stands; the other runs
check the properties the invariants were made for; `IInv` of the B-tree quantifies over functions on
pages and is out of TLC's reach.

Only model-checked:
* `CommitEnds` and `StartEnds`: liveness.
* `ScanComplete` with removals: it needs that `balance` of leaves loses no record, which for pages of
  small records is false (section 4 (3)).
* `ImplementsRecordList`: it depends on the sizes of the run, for the same reason.
* `KeysOrdered` with removals: it holds also after internal pages were balanced, when the invariant of
  the proofs is gone.
* `Query`: its expressions are trees and its operators on them are declared `RECURSIVE`, which the
  provers cannot use, and what an evaluation gives needs an induction over trees.

## 7. What is not modelled

* Where the words come from that a reused slot of the cache still holds. Keys of internal pages and payloads of
  leaves overlay each other there in ways the models do not follow byte by byte; BTree takes any array of the
  constant `Leftovers`. `btree_insert` has arrays of zeros and of one key, the proofs any.
* Payload bytes in the B-tree's pages and checksums other than the journal's; the retry loops of
  `os::read` and `os::write`; positions of B-tree cursors other than through scans and searches.
* The lexer and the parser, which are generated, and the syntax tree, which has no state beyond one
  statement: `Query` and `Session` take the statement as given.
* The conditions of a DELETE and `vdbe_cursor::commit` with keys to delete, which no statement
  reaches; a row longer than its table, which writes behind a vector.
* Division and remainder of doubles, and doubles that are not whole.
* The bytes of a table's definition; the file that holds it is unwritten, empty or complete.
* `backup/`, an earlier version that is not built, and `third-part/` and the generated files: CRoaring,
  SQLite and xxHash with lexer and parser make up most of the lines in the repository. The models are
  of newDB's own code, about 4700 lines of sources and headers without the lexer; a large share of the
  repository as a whole is out of reach for that reason alone.

## 8. Plan

1. Done: Pager, PageCache, InternalPage, BTree with KeyStore, LeafPage with RecordList, Session with
   RowCodec, Query with Expression; proofs of all of them but Query,
   the refinement of KeyStore for callers that only insert among them.
2. Proofs: the control flow of Query (`DeathHasACause`, `ShownIsCurrent`), once its operators on
   expressions are recursive functions.
3. A run of BTree with repeated keys, and the free list with more than one page; both end in
   assertions today (section 5) and are worth a run once the code is changed.
4. DELETE as a statement over BTree once it reaches its rows.
