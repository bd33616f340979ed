------------------------------- MODULE Pager -------------------------------
(***************************************************************************)
(* The pager and its rollback journal (src/pager.cpp, src/journal.cpp), as *)
(* the B-tree drives them: begin_write_transaction, any number of page     *)
(* modifications and new pages, btree::commit.  One action per system call *)
(* that changes a file, so that the process or the machine can stop        *)
(* between any two of them.                                                *)
(*                                                                         *)
(* A page's content is the number of the transaction that wrote it, 0 for  *)
(* a page of zeros.  Clean cached pages equal the file and are not         *)
(* represented, nor which slot of the cache holds a page.                  *)
(***************************************************************************)
EXTENDS Integers, Sequences, FiniteSets

CONSTANTS
    MaxPages,   \* bound: the data file never has more pages than this
    MaxTxn,     \* bound: number of write transactions begun
    MaxCache    \* max_cache_page

ASSUME PagerAssumption ==
    /\ MaxPages \in Nat \ {0}
    /\ MaxTxn \in Nat
    /\ MaxCache \in Nat \ {0}

VARIABLES
    \* what the kernel holds of the two files
    data,       \* data file: content of each page, 0 beyond its end
    size,       \* data file: length in pages
    jrn,        \* journal file: state, header (origin, count) and pages
    platter,    \* what survives a power loss, same shape: data, size, jrn
    \* the process
    pc,         \* the system call it is about to issue
    pstatus,    \* pager::status
    jstatus,    \* journal::status
    pageCount,  \* pager::page_count
    dirty,      \* page numbers in pager::writable_pages
    buffer,     \* journal::page_buffer, first page_buffer_count entries
    jcount,     \* journal::meta.page_count
    todo,       \* pages WritePages has still to write
    replayed,   \* journal entries rollback_back has written back
    \* observers, read by no action
    txn,        \* number of the latest transaction
    stable,     \* data file as of the last finished commit
    breach      \* events after which the code no longer guarantees atomicity

fileVars    == <<data, size, jrn>>
procVars    == <<pc, pstatus, jstatus, pageCount, dirty, buffer, jcount, todo, replayed>>
historyVars == <<txn, stable, breach>>
vars        == <<fileVars, platter, procVars, historyVars>>

PageNo   == 0 .. MaxPages - 1
Content  == 0 .. MaxTxn
Entry    == [no : PageNo, content : Content]
JFile    == [state : {"absent", "empty", "valid"}, origin : 0 .. MaxPages,
             count : Nat, entries : Seq(Entry)]
Image    == [data : [PageNo -> Content], size : 0 .. MaxPages]

CallSites == {"down", "jheader", "fallocate", "recover", "replay", "rclear",
              "idle", "jpages", "jmeta", "pages", "sync",
              "steal_jpages", "steal_jmeta", "steal_pages",
              "failed", "aborted"}

Zeros == [p \in PageNo |-> 0]

Init ==
    /\ data = Zeros
    /\ size = 0
    /\ jrn = [state |-> "absent", origin |-> 0, count |-> 0, entries |-> <<>>]
    /\ platter = [data |-> data, size |-> size, jrn |-> jrn]
    /\ pc = "down"
    /\ pstatus = "error"
    /\ jstatus = "normal"
    /\ pageCount = 0
    /\ dirty = {}
    /\ buffer = <<>>
    /\ jcount = 0
    /\ todo = {}
    /\ replayed = 0
    /\ txn = 0
    /\ stable = [data |-> Zeros, size |-> 1]
    /\ breach = {}

-----------------------------------------------------------------------------
(* Opening: journal::open, pager::open, pager::rollback_back               *)

\* journal::open up to its first write.  An existing file must already have
\* a header: reading one from an empty file returns status_file_read_complete.
JournalOpen ==
    /\ pc = "down"
    /\ \/ /\ jrn.state = "absent"
          /\ jrn' = [jrn EXCEPT !.state = "empty"]
          /\ pc' = "jheader"
       \/ /\ jrn.state = "empty"
          /\ pc' = "failed"
          /\ UNCHANGED jrn
       \/ /\ jrn.state = "valid"
          /\ pc' = "fallocate"
          /\ UNCHANGED jrn
    /\ UNCHANGED <<data, size, platter, pstatus, jstatus, pageCount, dirty,
                   buffer, jcount, todo, replayed, historyVars>>

\* journal::open writes the header of the file it has created.
JournalHeader ==
    /\ pc = "jheader"
    /\ jrn' = [jrn EXCEPT !.state = "valid", !.origin = 0, !.count = 0]
    /\ pc' = "fallocate"
    /\ UNCHANGED <<data, size, platter, pstatus, jstatus, pageCount, dirty,
                   buffer, jcount, todo, replayed, historyVars>>

\* pager::open: the data file gets at least page 0, the pager its page count.
OpenData ==
    /\ pc = "fallocate"
    /\ size' = IF size = 0 THEN 1 ELSE size
    /\ pageCount' = size'
    /\ pstatus' = "error"
    /\ pc' = "recover"
    /\ UNCHANGED <<data, jrn, platter, jstatus, dirty, buffer, jcount, todo,
                   replayed, historyVars>>

\* rollback_back finds a journal without pages: nothing to undo.
NothingToRecover ==
    /\ pc = "recover"
    /\ jrn.count = 0
    /\ pstatus' = "normal"
    /\ jstatus' = "normal"
    /\ jcount' = 0
    /\ pc' = "idle"
    /\ UNCHANGED <<fileVars, platter, pageCount, dirty, buffer, todo,
                   replayed, historyVars>>

\* Variant: the journal is cleared before its pages are written back.
RecoverClearsFirst ==
    /\ pc = "recover"
    /\ jrn.count > 0
    /\ jstatus' = "read"
    /\ jcount' = jrn.count
    /\ data' = [p \in PageNo |-> IF p < jrn.origin THEN data[p] ELSE 0]
    /\ size' = jrn.origin
    /\ jrn' = [jrn EXCEPT !.count = 0]
    /\ replayed' = 0
    /\ pc' = "replay"
    /\ UNCHANGED <<platter, pstatus, pageCount, dirty, buffer, todo,
                   historyVars>>

\* rollback_back cuts the data file back to its length before the transaction.
RecoverTruncate ==
    /\ pc = "recover"
    /\ jrn.count > 0
    /\ jstatus' = "read"
    /\ jcount' = jrn.count
    /\ data' = [p \in PageNo |-> IF p < jrn.origin THEN data[p] ELSE 0]
    /\ size' = jrn.origin
    /\ replayed' = 0
    /\ pc' = "replay"
    /\ UNCHANGED <<jrn, platter, pstatus, pageCount, dirty, buffer, todo,
                   historyVars>>

\* read_next_page sums the caller's uninitialised buffer instead of the page
\* it has just read, so whether the stored checksum matches is arbitrary.
ReplayMatch ==
    /\ pc = "replay"
    /\ replayed < jcount
    /\ replayed < Len(jrn.entries)
    /\ LET e == jrn.entries[replayed + 1]
       IN data' = [data EXCEPT ![e.no] = e.content]
    /\ replayed' = replayed + 1
    /\ breach' = breach \cup {"lucky"}
    /\ UNCHANGED <<size, jrn, platter, pc, pstatus, jstatus, pageCount, dirty,
                   buffer, jcount, todo, txn, stable>>

\* The other outcome, or a page the journal file does not hold (after a power
\* loss): pager::open returns null.
ReplayMismatch ==
    /\ pc = "replay"
    /\ replayed < jcount
    /\ pc' = "failed"
    /\ UNCHANGED <<fileVars, platter, pstatus, jstatus, pageCount, dirty,
                   buffer, jcount, todo, replayed, historyVars>>

\* rollback_back synchronises the data file once every entry is back.
RecoverSync ==
    /\ pc = "replay"
    /\ replayed = jcount
    /\ platter' = [platter EXCEPT !.data = data, !.size = size]
    /\ jstatus' = "normal"
    /\ pc' = "rclear"
    /\ UNCHANGED <<fileVars, pstatus, pageCount, dirty, buffer, jcount, todo,
                   replayed, historyVars>>

\* journal::clear at the end of rollback_back.
RecoverClear ==
    /\ pc = "rclear"
    /\ pageCount' = jrn.origin
    /\ jrn' = [jrn EXCEPT !.origin = 0, !.count = 0]
    /\ jcount' = 0
    /\ pstatus' = "normal"
    /\ pc' = "idle"
    /\ UNCHANGED <<data, size, platter, jstatus, dirty, buffer, todo,
                   replayed, historyVars>>

-----------------------------------------------------------------------------
(* A write transaction                                                     *)

InTxn == pc = "idle" /\ pstatus = "write_transaction" /\ jstatus = "write"

\* The cache can give out another slot without stealing dirty pages.
SlotFor(p) == p \in dirty \/ Cardinality(dirty) < MaxCache

\* pager::begin_write_transaction over journal::begin_write_transaction.
Begin ==
    /\ pc = "idle"
    /\ pstatus = "normal"
    /\ txn < MaxTxn
    /\ jrn' = [jrn EXCEPT !.origin = pageCount, !.count = 0]
    /\ jcount' = 0
    /\ jstatus' = "write"
    /\ buffer' = <<>>
    /\ dirty' = {}
    /\ pstatus' = "write_transaction"
    /\ txn' = txn + 1
    /\ UNCHANGED <<data, size, platter, pc, pageCount, todo, replayed, stable,
                   breach>>

\* Variant: page 0 is skipped as well.
AddPageSkipsAll(p) == buffer' = IF p >= 0 THEN buffer ELSE Append(buffer, [no |-> p, content |-> data[p]])

\* journal::add_page: every page from number 1 on is skipped, page 0 is
\* copied once per transaction.
AddPage(p) ==
    buffer' = IF p >= 1 \/ \E i \in DOMAIN buffer : buffer[i].no = p
              THEN buffer
              ELSE Append(buffer, [no |-> p, content |-> data[p]])

\* dbPage::enable_write and the modification it announces.
Modify(p) ==
    /\ InTxn
    /\ p \in 1 .. pageCount - 1
    /\ p \notin dirty
    /\ SlotFor(p)
    /\ AddPage(p)
    /\ dirty' = dirty \cup {p}
    /\ UNCHANGED <<fileVars, platter, pc, pstatus, jstatus, pageCount, jcount,
                   todo, replayed, historyVars>>

\* pager::get_new_page.
NewPage ==
    /\ InTxn
    /\ pageCount < MaxPages
    /\ SlotFor(pageCount)
    /\ AddPage(pageCount)
    /\ dirty' = dirty \cup {pageCount}
    /\ pageCount' = pageCount + 1
    /\ UNCHANGED <<fileVars, platter, pc, pstatus, jstatus, jcount, todo,
                   replayed, historyVars>>

\* GetNewDbPage when every cached page is dirty: the journal transaction is
\* committed and the dirty pages are written in the middle of the transaction.
Steal ==
    /\ InTxn
    /\ Cardinality(dirty) = MaxCache
    /\ (0 .. pageCount - 1) \ dirty # {} \/ pageCount < MaxPages
    /\ pc' = "steal_jpages"
    /\ UNCHANGED <<fileVars, platter, pstatus, jstatus, pageCount, dirty,
                   buffer, jcount, todo, replayed, historyVars>>

\* Variant: page 0 is changed without enable_write.
CommitUnmarked ==
    /\ InTxn
    /\ SlotFor(0)
    /\ AddPage(0)
    /\ dirty' = dirty
    /\ pc' = "jpages"
    /\ UNCHANGED <<fileVars, platter, pstatus, jstatus, pageCount, jcount,
                   todo, replayed, historyVars>>

\* btree::commit writes its header to page 0, then commit_phase_one.
Commit ==
    /\ InTxn
    /\ SlotFor(0)
    /\ AddPage(0)
    /\ dirty' = dirty \cup {0}
    /\ pc' = "jpages"
    /\ UNCHANGED <<fileVars, platter, pstatus, jstatus, pageCount, jcount,
                   todo, replayed, historyVars>>

\* journal::commit_buffer, first write: the buffered pages.
JournalPages ==
    /\ pc \in {"jpages", "steal_jpages"}
    /\ jrn' = [jrn EXCEPT !.entries = SubSeq(@, 1, jcount) \o buffer]
    /\ pc' = IF pc = "jpages" THEN "jmeta" ELSE "steal_jmeta"
    /\ UNCHANGED <<data, size, platter, pstatus, jstatus, pageCount, dirty,
                   buffer, jcount, todo, replayed, historyVars>>

\* Variant: the journal does not return to its normal state.
JournalMetaKeepsState ==
    /\ pc \in {"jmeta", "steal_jmeta"}
    /\ jcount' = jcount + Len(buffer)
    /\ jrn' = [jrn EXCEPT !.count = jcount']
    /\ jstatus' = jstatus
    /\ buffer' = <<>>
    /\ todo' = dirty
    /\ pc' = IF pc = "jmeta" THEN "pages" ELSE "steal_pages"
    /\ breach' = IF pc = "jmeta" THEN breach ELSE breach \cup {"steal"}
    /\ UNCHANGED <<data, size, platter, pstatus, pageCount, dirty, replayed,
                   txn, stable>>

\* journal::commit_buffer, second write: the header, which makes the pages
\* count.  commit_transaction writes the same header once more.
JournalMeta ==
    /\ pc \in {"jmeta", "steal_jmeta"}
    /\ jcount' = jcount + Len(buffer)
    /\ jrn' = [jrn EXCEPT !.count = jcount']
    /\ jstatus' = "normal"
    /\ buffer' = <<>>
    /\ todo' = dirty
    /\ pc' = IF pc = "jmeta" THEN "pages" ELSE "steal_pages"
    /\ breach' = IF pc = "jmeta" THEN breach ELSE breach \cup {"steal"}
    /\ UNCHANGED <<data, size, platter, pstatus, pageCount, dirty, replayed,
                   txn, stable>>

\* WritePages: one page, in the order of page numbers.
WritePage ==
    /\ pc \in {"pages", "steal_pages"}
    /\ \E p \in todo :
          /\ \A q \in todo : p <= q
          /\ data' = [data EXCEPT ![p] = txn]
          /\ size' = IF p < size THEN size ELSE p + 1
          /\ todo' = todo \ {p}
    /\ UNCHANGED <<jrn, platter, pc, pstatus, jstatus, pageCount, dirty,
                   buffer, jcount, replayed, historyVars>>

\* The end of WritePages: writable_pages is empty again.
WritePagesDone ==
    /\ pc \in {"pages", "steal_pages"}
    /\ todo = {}
    /\ dirty' = {}
    /\ pc' = IF pc = "pages" THEN "sync" ELSE "idle"
    /\ UNCHANGED <<fileVars, platter, pstatus, jstatus, pageCount, buffer,
                   jcount, todo, replayed, historyVars>>

\* Variant: no fdatasync.
SyncSkipped ==
    /\ pc = "sync"
    /\ pstatus' = "commit"
    /\ pc' = "idle"
    /\ UNCHANGED <<fileVars, platter, jstatus, pageCount, dirty, buffer, jcount, todo,
                   replayed, historyVars>>

\* commit_phase_one ends with fdatasync on the data file.
Sync ==
    /\ pc = "sync"
    /\ platter' = [platter EXCEPT !.data = data, !.size = size]
    /\ pstatus' = "commit"
    /\ pc' = "idle"
    /\ UNCHANGED <<fileVars, jstatus, pageCount, dirty, buffer, jcount, todo,
                   replayed, historyVars>>

\* commit_phase_two: journal::clear.  From here on the transaction stands.
CommitTwo ==
    /\ pc = "idle"
    /\ pstatus = "commit"
    /\ jstatus = "normal"
    /\ jrn' = [jrn EXCEPT !.origin = 0, !.count = 0]
    /\ jcount' = 0
    /\ pstatus' = "normal"
    /\ stable' = [data |-> data, size |-> size]
    /\ UNCHANGED <<data, size, platter, pc, jstatus, pageCount, dirty, buffer,
                   todo, replayed, txn, breach>>

\* After a steal the transaction goes on with the journal no longer in its
\* write state: the next add_page or commit_transaction fails its assertion.
AssertAbort ==
    /\ pc = "idle"
    /\ pstatus = "write_transaction"
    /\ jstatus # "write"
    /\ pc' = "aborted"
    /\ UNCHANGED <<fileVars, platter, pstatus, jstatus, pageCount, dirty,
                   buffer, jcount, todo, replayed, historyVars>>

-----------------------------------------------------------------------------
(* The environment                                                         *)

\* Everything the process held is gone.
LoseMemory ==
    /\ pc' = "down"
    /\ pstatus' = "error"
    /\ jstatus' = "normal"
    /\ pageCount' = 0
    /\ dirty' = {}
    /\ buffer' = <<>>
    /\ jcount' = 0
    /\ todo' = {}
    /\ replayed' = 0

\* The process ends at any point: killed, an assertion, an I/O error (every
\* status but status_ok reaches an assertion), or a normal exit.
Crash ==
    /\ pc # "down"
    /\ LoseMemory
    /\ UNCHANGED <<fileVars, platter, historyVars>>

\* The kernel writes one cached block of either file back to the device.
Flush ==
    /\ \/ \E p \in PageNo : platter' = [platter EXCEPT !.data[p] = data[p]]
       \/ platter' = [platter EXCEPT !.size = size]
       \/ platter' = [platter EXCEPT !.jrn.entries = jrn.entries]
       \/ platter' = [platter EXCEPT !.jrn.state = jrn.state,
                                     !.jrn.origin = jrn.origin,
                                     !.jrn.count = jrn.count]
    /\ UNCHANGED <<fileVars, procVars, historyVars>>

\* A power loss: only what reached the device is left.  Pages beyond the end
\* of the file that survived read as zeros.  journal::commit_buffer and
\* journal::clear synchronise nothing, so with pages in the journal ("power")
\* the device may hold any mixture, and without ("rest") an old journal.
PowerLoss ==
    /\ LoseMemory
    /\ data' = [p \in PageNo |-> IF p < platter.size THEN platter.data[p] ELSE 0]
    /\ size' = platter.size
    /\ jrn' = platter.jrn
    /\ platter' = [platter EXCEPT !.data = data']
    /\ breach' = breach \cup {IF jrn.count > 0 THEN "power" ELSE "rest"}
    /\ UNCHANGED <<txn, stable>>

Open ==
    \/ JournalOpen \/ JournalHeader \/ OpenData \/ NothingToRecover
    \/ RecoverTruncate \/ ReplayMatch \/ ReplayMismatch \/ RecoverSync \/ RecoverClear

CommitStep ==
    \/ JournalPages \/ JournalMeta \/ WritePage \/ WritePagesDone \/ Sync
    \/ CommitTwo \/ AssertAbort

Next ==
    \/ Open
    \/ Begin \/ NewPage \/ Steal \/ Commit
    \/ \E p \in PageNo : Modify(p)
    \/ CommitStep
    \/ Crash

Spec == Init /\ [][Next]_vars

\* The same machine, able to lose power as well.
PowerSpec == Init /\ [][Next \/ Flush \/ PowerLoss]_vars

\* A call that has been entered runs to its end unless the process dies:
\* its system calls return, and btree::commit calls phase two after phase one.
FairPowerSpec == PowerSpec /\ WF_vars(CommitStep) /\ WF_vars(Open)

-----------------------------------------------------------------------------
(* Properties                                                              *)

\* Type invariant.
TypeOK ==
    /\ data \in [PageNo -> Content]
    /\ size \in 0 .. MaxPages
    /\ jrn \in JFile
    /\ platter \in [data : [PageNo -> Content], size : 0 .. MaxPages, jrn : JFile]
    /\ pc \in CallSites
    /\ pstatus \in {"normal", "write_transaction", "commit", "error"}
    /\ jstatus \in {"normal", "read", "write"}
    /\ pageCount \in 0 .. MaxPages
    /\ dirty \subseteq PageNo
    /\ buffer \in Seq(Entry)
    /\ jcount \in Nat
    /\ todo \subseteq PageNo
    /\ replayed \in Nat
    /\ txn \in Content
    /\ stable \in Image
    /\ breach \subseteq {"lucky", "steal", "power", "rest"}

\* The pager answers reads outside a transaction.
Serving == pc = "idle" /\ pstatus = "normal"

\* The data file as a reader sees it: pager::open makes an empty one one page long.
CurrentImage == [data |-> data, size |-> IF size = 0 THEN 1 ELSE size]

\* A pager that serves reads serves exactly the last committed transaction,
\* however many times the process died in the middle of a commit and however
\* often the machine lost its power while no journal had pages, unless recovery
\* passed a checksum by luck or a full cache wrote pages early.
ServesCommitted == Serving /\ breach \subseteq {"rest"} => CurrentImage = stable

\* Even where a lucky checksum lets recovery finish, page 0 (the B-tree's
\* header) and the length of the file are those of the last commit.
HeaderRestored ==
    Serving /\ breach \subseteq {"lucky"} =>
        CurrentImage.data[0] = stable.data[0] /\ CurrentImage.size = stable.size

\* At every instant, also while the process is down: a data file that is not
\* the last commit is announced by pages in the journal, so that no later open
\* takes it for good.
TornIsMarked ==
    breach \subseteq {"rest"} /\ CurrentImage # stable =>
        jrn.state = "valid" /\ jrn.count > 0

\* When a transaction becomes the committed one, every page is either as the
\* previous commit left it or as this transaction wrote it, page 0 is this
\* transaction's, and no page is lost from the end of the file.
CommitIsExact ==
    [][stable' # stable /\ breach = {} =>
        /\ \A p \in PageNo : stable'.data[p] \in {stable.data[p], txn}
        /\ stable'.data[0] = txn
        /\ stable'.size >= stable.size
        /\ stable'.size = pageCount]_vars

\* A commit that has been started ends in phase two or with the process.
CommitEnds ==
    pc = "jpages" ~> (Serving \/ pc \in {"down", "aborted"})

-----------------------------------------------------------------------------
(* A property stated by the sources that the code does not have            *)

\* pager.h: the pager guarantees the atomicity of writes to the data file.
\* Recovery undoes a torn commit (process crashes only).
RecoveryIsExact == Serving /\ "steal" \notin breach => CurrentImage = stable
=============================================================================
