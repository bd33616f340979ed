----------------------------- MODULE PageCache -----------------------------
(***************************************************************************)
(* The pager's page cache (src/pager.cpp: get_page, get_new_page,          *)
(* GetNewDbPage, enable_write, WritePages) slot by slot, with the          *)
(* references that the B-tree's functions keep to slots while they ask for *)
(* further pages.  btree::open and btree::commit are modelled whole, as    *)
(* they are the only callers that touch page 0; every other caller gets a  *)
(* page, marks it, modifies it, and may ask for more pages in between.     *)
(*                                                                         *)
(* The files are Pager.tla's subject: here the process does not die in a   *)
(* transaction, and the journal is only open or not.  A page's content is  *)
(* the number of the modification that made it, 0 for a page of zeros.     *)
(***************************************************************************)
EXTENDS Integers, Sequences, FiniteSets

CONSTANTS
    Refs,       \* references a caller holds at a time, besides the one to page 0
    MaxCache,   \* max_cache_page
    MaxPages,   \* bound: pages of the data file
    MaxWrites   \* bound: modifications of pages

ASSUME CacheAssumption ==
    /\ "header" \notin Refs
    /\ MaxCache \in Nat /\ MaxCache >= 2
    /\ MaxPages \in Nat /\ MaxPages >= 2
    /\ MaxWrites \in Nat

VARIABLES
    file,       \* content of each page of the data file
    pageCount,  \* pager::page_count
    pages,      \* pager::pages, the list of slots, front first
    slot,       \* the slots: page_no, writable and data of each dbPage
    map,        \* pager::map, 0 for a page that is not in it
    writable,   \* pager::writable_pages
    status,     \* pager::status
    journal,    \* journal::status: open between begin and commit_transaction
    refs,       \* dbPage_ref of callers: the slot, the page it was asked for,
                \* and whether the caller has called enable_write on it
    pc,         \* where btree::open and btree::commit are
    \* observers
    clock,      \* modifications so far
    truth,      \* content of each page by the modifications callers made
    breach      \* "stale": a caller marked a slot that was given to another page;
                \* "steal": pages were written before the commit

cacheVars == <<pages, slot, map, writable>>
vars == <<file, pageCount, cacheVars, status, journal, refs, pc, clock, truth, breach>>

PageNo  == 0 .. MaxPages - 1
Slot    == 1 .. MaxCache
Content == 0 .. MaxWrites
NoSlot  == 0
Holders == Refs \cup {"header"}

Empty   == [no |-> 0, writable |-> FALSE, data |-> 0]
NoRef   == [slot |-> NoSlot, no |-> 0, marked |-> FALSE]
Ref(s, p, m) == [slot |-> s, no |-> p, marked |-> m]

InUse  == {pages[i] : i \in DOMAIN pages}
Dirty  == {s \in InUse : slot[s].writable}
Cached(p) == map[p] # NoSlot

Last(S) == CHOOSE i \in S : \A j \in S : j <= i

Init ==
    /\ file = [p \in PageNo |-> 0]
    /\ pageCount = 1
    /\ pages = <<>>
    /\ slot = [s \in Slot |-> Empty]
    /\ map = [p \in PageNo |-> NoSlot]
    /\ writable = <<>>
    /\ status = "normal"
    /\ journal = "normal"
    /\ refs = [r \in Holders |-> NoRef]
    /\ pc = "opening"
    /\ clock = 0
    /\ truth = [p \in PageNo |-> 0]
    /\ breach = {}

-----------------------------------------------------------------------------
(* GetNewDbPage                                                            *)

\* All slots hold modified pages: the journal is committed, they are written.
MustSteal == Len(pages) = MaxCache /\ Len(writable) = Len(pages)

\* Variant: the loop starts at the second page.
CopiesButFirst(p) == {i \in DOMAIN writable : i > 1 /\ slot[writable[i]].no = p}

\* WritePages, by page number, and for the same number in the order of marking.
Copies(p) == {i \in DOMAIN writable : slot[writable[i]].no = p}
WrittenFile ==
    [p \in PageNo |-> IF Copies(p) = {} THEN file[p] ELSE slot[writable[Last(Copies(p))]].data]
CleanSlots ==
    [s \in Slot |-> IF \E i \in DOMAIN writable : writable[i] = s
                    THEN [slot[s] EXCEPT !.writable = FALSE] ELSE slot[s]]

\* Variants: the mark is not looked at; one slot fewer is used.
CleanAny    == DOMAIN pages
HasNewEarly == Len(pages) + 1 < MaxCache

\* Position in the list of the slot that is taken when there is no new one:
\* the last that is not writable, any being so after WritePages.
Clean     == {i \in DOMAIN pages : MustSteal \/ ~slot[pages[i]].writable}
HasNew    == Len(pages) < MaxCache
Taken     == IF HasNew THEN Len(pages) + 1 ELSE pages[Last(Clean)]
ToFront(s, i) == [j \in DOMAIN s |-> IF j = 1 THEN s[i] ELSE IF j <= i THEN s[j - 1] ELSE s[j]]

\* Variant: the entry of the slot's old page stays in the map.
UnmappedNone(s, p) == [map EXCEPT ![p] = s]

\* The map after slot s was taken for page p, and the journal after the early
\* commit.
Unmapped(s, p) == [map EXCEPT ![slot[s].no] = NoSlot, ![p] = s]
EarlyJournal   == IF MustSteal THEN "normal" ELSE journal

\* The slot is used for page p with the given content and mark.
UseSlot(p, content, mark) ==
    LET s     == Taken
        clean == IF MustSteal THEN CleanSlots ELSE slot
    IN  /\ HasNew \/ Clean # {}
        /\ pages' = IF HasNew THEN <<s>> \o pages ELSE ToFront(pages, Last(Clean))
        /\ slot' = [clean EXCEPT ![s] = [no |-> p, writable |-> mark, data |-> content]]
        /\ map' = Unmapped(s, p)
        /\ writable' = (IF MustSteal THEN <<>> ELSE writable) \o (IF mark THEN <<s>> ELSE <<>>)
        /\ file' = IF MustSteal THEN WrittenFile ELSE file
        /\ journal' = EarlyJournal
        /\ breach' = IF MustSteal THEN breach \cup {"steal"} ELSE breach

-----------------------------------------------------------------------------
(* get_page, get_new_page, enable_write, and a caller's modification       *)

GetPage(r, p) ==
    /\ p < pageCount
    /\ \/ /\ Cached(p)
          /\ refs' = [refs EXCEPT ![r] = Ref(map[p], p, FALSE)]
          /\ UNCHANGED <<cacheVars, file, journal, breach>>
       \/ /\ ~Cached(p)
          /\ UseSlot(p, file[p], FALSE)
          /\ refs' = [refs EXCEPT ![r] = Ref(Taken, p, FALSE)]

\* A new page's content is what the slot held before.  Its enable_write fails
\* an assertion when the journal is no longer open.
Leftover == slot[Taken].data
GetNewPage(r) ==
    /\ status = "write" /\ pageCount < MaxPages
    /\ journal = "write" /\ ~MustSteal
    /\ UseSlot(pageCount, Leftover, TRUE)
    /\ truth' = [truth EXCEPT ![pageCount] = Leftover]
    /\ refs' = [refs EXCEPT ![r] = Ref(Taken, pageCount, TRUE)]
    /\ pageCount' = pageCount + 1

Stale(r) == slot[refs[r].slot].no # refs[r].no

\* Variant: the mark of a page is not looked at.
EnableWriteTwice(r) ==
    LET s == refs[r].slot
    IN  /\ s # NoSlot
        /\ refs' = [refs EXCEPT ![r].marked = TRUE]
        /\ breach' = IF Stale(r) THEN breach \cup {"stale"} ELSE breach
        /\ status = "write" /\ journal = "write"
        /\ slot' = [slot EXCEPT ![s].writable = TRUE]
        /\ writable' = Append(writable, s)

\* dbPage::enable_write with mark_page_writable.
EnableWrite(r) ==
    LET s == refs[r].slot
    IN  /\ s # NoSlot
        /\ refs' = [refs EXCEPT ![r].marked = TRUE]
        /\ breach' = IF Stale(r) THEN breach \cup {"stale"} ELSE breach
        /\ \/ /\ slot[s].writable
              /\ UNCHANGED <<slot, writable>>
           \/ /\ ~slot[s].writable
              /\ status = "write" /\ journal = "write"
              /\ slot' = [slot EXCEPT ![s].writable = TRUE]
              /\ writable' = Append(writable, s)

-----------------------------------------------------------------------------
(* btree::open, on a file whose page 0 has no magic string or has one      *)

Open ==
    /\ pc = "opening"
    /\ GetPage("header", 0)
    /\ pc' = IF file[0] = 0 THEN "format" ELSE "ready"
    /\ UNCHANGED <<pageCount, status, clock, truth>>

\* begin_write_transaction, for btree::open and for btree::enable_write.
Begin ==
    /\ pc \in {"format", "ready"} /\ status = "normal"
    /\ status' = "write" /\ journal' = "write"
    /\ UNCHANGED <<file, pageCount, cacheVars, refs, pc, clock, truth, breach>>

\* The new root page is asked for while the reference to page 0 is held.
FormatNewPage ==
    /\ pc = "format"
    /\ \E r \in Refs : GetNewPage(r)
    /\ pc' = "formatted"
    /\ UNCHANGED <<status, clock>>

FormatMark ==
    /\ pc = "formatted"
    /\ EnableWrite("header")
    /\ pc' = "marked"
    /\ UNCHANGED <<file, pageCount, pages, map, status, journal, clock, truth>>

Modified(rs) == [s \in Slot |-> IF \E r \in rs : refs[r].slot = s
                                THEN [slot[s] EXCEPT !.data = clock + 1] ELSE slot[s]]
Intended(rs) == [p \in PageNo |-> IF \E r \in rs : refs[r].no = p THEN clock + 1 ELSE truth[p]]

\* btree_header::init and btree_leaf_page::init.
FormatInit ==
    /\ pc = "marked" /\ clock < MaxWrites
    /\ slot' = Modified({r \in Holders : refs[r].marked})
    /\ truth' = Intended({r \in Holders : refs[r].marked})
    /\ clock' = clock + 1
    /\ pc' = "flush"
    /\ UNCHANGED <<file, pageCount, pages, map, writable, status, journal, refs, breach>>

\* Both phases of the commit.
Flush ==
    /\ pc = "flush" /\ journal = "write"
    /\ file' = WrittenFile /\ slot' = CleanSlots /\ writable' = <<>>
    /\ journal' = "normal" /\ status' = "normal"
    /\ refs' = [r \in Holders |-> NoRef]
    /\ pc' = "ready"
    /\ UNCHANGED <<pageCount, pages, map, clock, truth, breach>>

-----------------------------------------------------------------------------
(* The B-tree's functions, in a transaction or, for a cursor, outside      *)

Fetch(r) ==
    /\ pc = "ready"
    /\ \E p \in 1 .. pageCount - 1 : GetPage(r, p)
    /\ UNCHANGED <<pageCount, status, pc, clock, truth>>

NewPage(r) ==
    /\ pc = "ready"
    /\ GetNewPage(r)
    /\ UNCHANGED <<status, pc, clock>>

Mark(r) ==
    /\ pc = "ready" /\ status = "write"
    /\ EnableWrite(r)
    /\ UNCHANGED <<file, pageCount, pages, map, status, journal, pc, clock, truth>>

\* A caller changes a page that it has called enable_write on.
Modify(r) ==
    /\ pc = "ready" /\ refs[r].marked /\ clock < MaxWrites
    /\ slot' = Modified({r}) /\ truth' = Intended({r}) /\ clock' = clock + 1
    /\ UNCHANGED <<file, pageCount, pages, map, writable, status, journal, refs, pc, breach>>

\* btree::commit: page 0 is fetched, marked and overwritten with the header.
CommitFetch ==
    /\ pc = "ready" /\ status = "write"
    /\ GetPage("header", 0)
    /\ pc' = "commit"
    /\ UNCHANGED <<pageCount, status, clock, truth>>

CommitMark ==
    /\ pc = "commit"
    /\ EnableWrite("header")
    /\ pc' = "header"
    /\ UNCHANGED <<file, pageCount, pages, map, status, journal, clock, truth>>

CommitHeader ==
    /\ pc = "header" /\ clock < MaxWrites
    /\ slot' = Modified({"header"}) /\ truth' = Intended({"header"}) /\ clock' = clock + 1
    /\ pc' = "flush"
    /\ UNCHANGED <<file, pageCount, pages, map, writable, status, journal, refs, breach>>

\* The pager is closed and opened again between two transactions.
Reopen ==
    /\ pc = "ready" /\ status = "normal"
    /\ pages' = <<>> /\ slot' = [s \in Slot |-> Empty] /\ map' = [p \in PageNo |-> NoSlot]
    /\ writable' = <<>>
    /\ refs' = [r \in Holders |-> NoRef]
    /\ pc' = "opening"
    /\ UNCHANGED <<file, pageCount, status, journal, clock, truth, breach>>

\* The assertion in journal::add_page, reached after pages were written early:
\* by enable_write on another page, or by a new page that made it happen.
AssertionFails ==
    /\ pc \in {"ready", "commit"} /\ status = "write"
    /\ \/ /\ journal = "normal"
          /\ \E r \in Holders : refs[r].slot # NoSlot /\ ~slot[refs[r].slot].writable
          /\ UNCHANGED <<file, breach>>
       \/ /\ pc = "ready" /\ pageCount < MaxPages /\ MustSteal
          /\ file' = WrittenFile /\ breach' = breach \cup {"steal"}
    /\ pc' = "aborted"
    /\ UNCHANGED <<pageCount, cacheVars, status, journal, refs, clock, truth>>

Next ==
    \/ Open \/ FormatNewPage \/ FormatMark \/ FormatInit \/ Flush
    \/ Begin \/ CommitFetch \/ CommitMark \/ CommitHeader \/ Reopen \/ AssertionFails
    \/ \E r \in Refs : Fetch(r) \/ NewPage(r) \/ Mark(r) \/ Modify(r)

Spec == Init /\ [][Next]_vars

-----------------------------------------------------------------------------
\* Type invariant.
TypeOK ==
    /\ file \in [PageNo -> Content] /\ truth \in [PageNo -> Content]
    /\ pageCount \in 1 .. MaxPages
    /\ slot \in [Slot -> [no : PageNo, writable : BOOLEAN, data : Content]]
    /\ map \in [PageNo -> Slot \cup {NoSlot}]
    /\ pages \in Seq(Slot) /\ Len(pages) <= MaxCache
    /\ writable \in Seq(Slot)
    /\ status \in {"normal", "write"} /\ journal \in {"normal", "write"}
    /\ refs \in [Holders -> [slot : Slot \cup {NoSlot}, no : PageNo, marked : BOOLEAN]]
    /\ pc \in {"opening", "format", "formatted", "marked", "flush", "ready", "commit",
               "header", "aborted"}
    /\ clock \in Content
    /\ breach \subseteq {"stale", "steal"}

\* A slot found through the map is in the list and holds the page that was
\* asked for, although taking a slot erases the entry of whatever number the
\* slot carries, which is 0 for a new one.
MapIsExact == \A p \in PageNo : Cached(p) => map[p] \in InUse /\ slot[map[p]].no = p

\* writable_pages lists each modified slot once, so GetNewDbPage sees a full
\* cache exactly when it is and finds a slot in every other case.
WritableIsExact ==
    /\ \A i, j \in DOMAIN writable : writable[i] = writable[j] => i = j
    /\ {writable[i] : i \in DOMAIN writable} = Dirty
    /\ Len(writable) <= Len(pages)

\* What get_page gives is the last modification of the page, wherever it is,
\* as long as no caller has used a reference to a slot taken from it.
Served(p) == IF Cached(p) THEN slot[map[p]].data ELSE file[p]
Coherent ==
    pc \in {"ready", "commit", "header", "aborted"} /\ breach = {} =>
        \A p \in 0 .. pageCount - 1 : Served(p) = truth[p]

\* A reference loses its page only in a full cache, and one whose holder has
\* called enable_write only after another has marked a lost slot, or after the
\* pages were written early.
ReferenceKeepsItsPage ==
    \A r \in Holders : refs[r].slot # NoSlot /\ Stale(r) =>
        Len(pages) = MaxCache /\ (refs[r].marked => breach # {})

\* The cache implements pages that change by modifications only, with a file
\* that a commit makes equal to them.
Store == INSTANCE PageStore WITH
    Lost  <- <<>>,
    mem   <- IF breach = {} THEN truth ELSE <<>>,
    saved <- IF breach = {} THEN file ELSE <<>>
ImplementsPageStore == Store!Spec

-----------------------------------------------------------------------------
(* A property stated by the sources that the code does not have            *)

\* test_pager.cpp writes 16384 new pages in one transaction and reads them all
\* back, with 4096 slots: a transaction commits however many pages it modifies,
\* as long as its callers use no reference whose slot was taken.
LargeTransactionsCommit == breach \subseteq {"steal"} => pc # "aborted"
=============================================================================
