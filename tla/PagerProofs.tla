---------------------------- MODULE PagerProofs ----------------------------
(***************************************************************************)
(* Proofs about Pager.tla, for every number of pages, transactions and     *)
(* cache slots: its type invariant, and that an opened pager serves the    *)
(* last committed transaction although the process can die between any two *)
(* system calls and the machine can lose its power.                        *)
(*                                                                         *)
(* ServesCommitted is not inductive: whether a crash is harmless depends   *)
(* on what the journal holds and on how far the commit has come.  IInv     *)
(* says so while the power stays on, in three parts: MarkOK (what a        *)
(* journal with pages records), FileOK (what the data file holds when the  *)
(* journal has none) and PhaseOK (what is known at each point of the       *)
(* control flow).  DeviceOK adds what the device holds, for the losses of  *)
(* power that happen while the journal has no pages.                       *)
(***************************************************************************)
EXTENDS Pager, TLAPS

\* No page was written early and the machine kept its power.
Undisturbed == breach \subseteq {"lucky"}

FileSize == IF size = 0 THEN 1 ELSE size

OpenedStates == {"fallocate", "recover", "replay", "rclear", "idle", "jpages", "jmeta",
                 "pages", "sync", "steal_jpages", "steal_jmeta", "steal_pages"}

\* A journal that is not a valid file has no pages; one being replayed has some.
JournalOK ==
    /\ jrn.state # "valid" => jrn.count = 0
    /\ pc \in OpenedStates => jrn.state = "valid"
    /\ pc = "jheader" => jrn.state = "empty"
    /\ pc \in {"replay", "rclear"} => jrn.count > 0
    /\ pc \in {"jpages", "steal_jpages"} => jcount = 0
    /\ InTxn => jcount = 0
    /\ pc = "steal_pages" => jstatus = "normal"

\* The one page of a committed journal is page 0 of the last commit.
MarkOK ==
    jrn.count > 0 =>
        /\ jrn.count = 1
        /\ jrn.origin = stable.size
        /\ jrn.origin >= 1
        /\ Len(jrn.entries) >= 1
        /\ jrn.entries[1] = [no |-> 0, content |-> stable.data[0]]

\* Without pages in the journal the data file has the header and the length of
\* the last commit, and all its pages unless recovery was lucky before.
FileOK ==
    jrn.count = 0 =>
        /\ data[0] = stable.data[0]
        /\ FileSize = stable.size
        /\ breach = {} => data = stable.data

\* The pages between the end of the file and page_count are all to be written.
NewPagesIn(S) ==
    /\ size >= 1
    /\ size <= pageCount
    /\ \A p \in PageNo : size <= p /\ p < pageCount => p \in S
    /\ \A p \in S : p < pageCount

WritingOK ==
    /\ pstatus = "write_transaction"
    /\ jstatus = "write"
    /\ jcount = 0
    /\ jrn.count = 0
    /\ jrn.origin = size
    /\ NewPagesIn(dirty)

PhaseOK ==
    /\ pc = "recover" => size >= 1 /\ pageCount = size
    /\ pc = "replay" =>
        /\ jcount = 1
        /\ size = jrn.origin
        /\ replayed = 1 => data[0] = stable.data[0] /\ "lucky" \in breach
    /\ pc = "rclear" =>
        size = jrn.origin /\ data[0] = stable.data[0] /\ "lucky" \in breach
    /\ pc = "idle" =>
        /\ pstatus \in {"normal", "write_transaction", "commit"}
        /\ pstatus = "normal" => jrn.count = 0 /\ size >= 1 /\ pageCount = size
        /\ pstatus = "write_transaction" => WritingOK /\ buffer = <<>>
        /\ pstatus = "commit" => size >= 1 /\ pageCount = size
    /\ pc \in {"jpages", "jmeta"} =>
        WritingOK /\ buffer = <<[no |-> 0, content |-> data[0]]>>
    /\ pc = "jmeta" => jrn.entries = buffer
    /\ pc \in {"steal_jpages", "steal_jmeta"} => WritingOK /\ buffer = <<>>
    /\ pc = "pages" => jrn.count = 1 /\ NewPagesIn(todo)
    /\ pc = "sync" => jrn.count = 1 /\ size >= 1 /\ pageCount = size
    /\ pc # "steal_pages"

\* The inductive invariant: what pager.cpp and journal.cpp rely on from one system
\* call to the next, and a recovery after a death between them.
IInv ==
    /\ TypeOK
    /\ JournalOK
    /\ Undisturbed => MarkOK /\ FileOK /\ PhaseOK

-----------------------------------------------------------------------------
(* Initially the journal has no pages and nothing is committed.              *)

\* A data file and a journal that do not exist yet satisfy the invariant.
LEMMA InitIInv == Init => IInv
BY PagerAssumption DEF Init, IInv, TypeOK, JournalOK, Undisturbed, MarkOK, FileOK, PhaseOK,
    InTxn, Zeros, Image, JFile, Entry, CallSites, Content, PageNo, FileSize, OpenedStates

-----------------------------------------------------------------------------
(* The type invariant.                                                       *)

\* What the fields of a journal file are, and that assigning them keeps its type.
LEMMA JFileFields ==
    ASSUME NEW j \in JFile
    PROVE  /\ j.state \in {"absent", "empty", "valid"}
           /\ j.origin \in 0 .. MaxPages
           /\ j.count \in Nat
           /\ j.entries \in Seq(Entry)
BY DEF JFile

\* Assigning the journal's header fields, as journal::commit and clear do, keeps its type.
LEMMA JFileExcept ==
    ASSUME NEW j \in JFile,
           NEW s \in {"absent", "empty", "valid"}, NEW o \in 0 .. MaxPages,
           NEW c \in Nat, NEW e \in Seq(Entry)
    PROVE  /\ [j EXCEPT !.state = s] \in JFile
           /\ [j EXCEPT !.state = s, !.origin = o, !.count = c] \in JFile
           /\ [j EXCEPT !.origin = o, !.count = c] \in JFile
           /\ [j EXCEPT !.count = c] \in JFile
           /\ [j EXCEPT !.entries = e] \in JFile
BY DEF JFile

\* The journal's commit starts from no committed pages.
CountStart == pc \in {"jpages", "steal_jpages"} => jcount = 0

\* Every step keeps the types of files, journal and memory.
LEMMA NextTypeOK == TypeOK /\ CountStart /\ [Next]_vars => TypeOK'
<1> SUFFICES ASSUME TypeOK, CountStart, [Next]_vars PROVE TypeOK'
  OBVIOUS
<1> USE PagerAssumption DEF TypeOK, CallSites, fileVars, procVars, historyVars
<1>1. CASE JournalOpen
  <2>1. jrn' \in JFile
    BY <1>1, JFileExcept, JFileFields DEF JournalOpen
  <2> QED
    BY <1>1, <2>1 DEF JournalOpen
<1>2. CASE JournalHeader
  <2>1. 0 \in 0 .. MaxPages /\ 0 \in Nat /\ "valid" \in {"absent", "empty", "valid"}
    BY <1>2
  <2>2. jrn' \in JFile
    BY <1>2, <2>1, JFileExcept, JFileFields DEF JournalHeader
  <2> QED
    BY <1>2, <2>1, <2>2 DEF JournalHeader
<1>3. CASE OpenData
  BY <1>3 DEF OpenData
<1>4. CASE NothingToRecover
  BY <1>4 DEF NothingToRecover
<1>5. CASE RecoverTruncate
  <2>1. data' \in [PageNo -> Content]
    BY <1>5 DEF RecoverTruncate, Content
  <2>2. jrn.origin \in 0 .. MaxPages /\ jrn.count \in Nat
    BY <1>5, JFileFields
  <2> QED
    BY <1>5, <2>1, <2>2 DEF RecoverTruncate
<1>6. CASE ReplayMatch
  <2>1. jrn.entries[replayed + 1] \in Entry
    BY <1>6, JFileFields DEF ReplayMatch
  <2>2. data' \in [PageNo -> Content]
    BY <1>6, <2>1 DEF ReplayMatch, Entry
  <2> QED
    BY <1>6, <2>1, <2>2 DEF ReplayMatch
<1>7. CASE ReplayMismatch
  BY <1>7 DEF ReplayMismatch
<1>8. CASE RecoverSync
  <2>1. platter' \in [data : [PageNo -> Content], size : 0 .. MaxPages, jrn : JFile]
    BY <1>8 DEF RecoverSync
  <2> QED
    BY <1>8, <2>1 DEF RecoverSync
<1>9. CASE RecoverClear
  <2>1. 0 \in 0 .. MaxPages /\ 0 \in Nat
    BY <1>9
  <2>2. jrn' \in JFile
    BY <1>9, <2>1, JFileFields, JFileExcept DEF RecoverClear
  <2>3. jrn.origin \in 0 .. MaxPages
    BY <1>9, JFileFields
  <2> QED
    BY <1>9, <2>1, <2>2, <2>3 DEF RecoverClear
<1>10. CASE Begin
  <2>1. jrn' \in JFile
    BY <1>10, JFileFields, JFileExcept DEF Begin
  <2>2. buffer' \in Seq(Entry)
    BY <1>10 DEF Begin
  <2> QED
    BY <1>10, <2>1, <2>2, SMTT(30) DEF Begin, Content
<1>11. CASE NewPage
  <2>1. pageCount \in PageNo
    BY <1>11 DEF NewPage, PageNo
  <2>2. buffer' \in Seq(Entry)
    <3>1. [no |-> pageCount, content |-> data[pageCount]] \in Entry
      BY <2>1 DEF Entry
    <3>2. buffer' = buffer \/ buffer' = Append(buffer, [no |-> pageCount, content |-> data[pageCount]])
      BY <1>11 DEF NewPage, AddPage
    <3> QED
      BY <3>1, <3>2
  <2> QED
    BY <1>11, <2>1, <2>2 DEF NewPage, PageNo
<1>12. CASE Steal
  BY <1>12 DEF Steal
<1>13. CASE Commit
  <2>1. 0 \in PageNo
    BY <1>13 DEF PageNo
  <2>2. buffer' \in Seq(Entry)
    <3>1. [no |-> 0, content |-> data[0]] \in Entry
      BY <2>1 DEF Entry
    <3>2. buffer' = buffer \/ buffer' = Append(buffer, [no |-> 0, content |-> data[0]])
      BY <1>13 DEF Commit, AddPage
    <3> QED
      BY <3>1, <3>2
  <2> QED
    BY <1>13, <2>1, <2>2 DEF Commit
<1>14. CASE JournalPages
  <2>1. SubSeq(jrn.entries, 1, jcount) \o buffer \in Seq(Entry)
    BY <1>14, JFileFields DEF JournalPages, CountStart
  <2>2. jrn' \in JFile
    BY <1>14, <2>1, JFileExcept DEF JournalPages
  <2> QED
    BY <1>14, <2>1, <2>2 DEF JournalPages
<1>15. CASE JournalMeta
  <2>1. jcount' \in Nat
    BY <1>15 DEF JournalMeta
  <2>2. jrn' \in JFile
    BY <1>15, <2>1, JFileExcept DEF JournalMeta
  <2>3. buffer' \in Seq(Entry)
    BY <1>15 DEF JournalMeta
  <2> QED
    BY <1>15, <2>1, <2>2, <2>3 DEF JournalMeta
<1>16. CASE WritePage
  <2>1. data' \in [PageNo -> Content] /\ size' \in 0 .. MaxPages
    BY <1>16 DEF WritePage, PageNo
  <2> QED
    BY <1>16, <2>1 DEF WritePage
<1>17. CASE WritePagesDone
  BY <1>17 DEF WritePagesDone
<1>18. CASE Sync
  <2>1. platter' \in [data : [PageNo -> Content], size : 0 .. MaxPages, jrn : JFile]
    BY <1>18 DEF Sync
  <2> QED
    BY <1>18, <2>1 DEF Sync
<1>19. CASE CommitTwo
  <2>1. 0 \in 0 .. MaxPages /\ 0 \in Nat
    BY <1>19
  <2>2. jrn' \in JFile
    BY <1>19, <2>1, JFileFields, JFileExcept DEF CommitTwo
  <2>3. stable' \in Image
    BY <1>19 DEF CommitTwo, Image
  <2> QED
    BY <1>19, <2>1, <2>2, <2>3 DEF CommitTwo
<1>20. CASE AssertAbort
  BY <1>20 DEF AssertAbort
<1>21. CASE Crash
  <2>1. buffer' \in Seq(Entry)
    BY <1>21 DEF Crash, LoseMemory
  <2> QED
    BY <1>21, <2>1 DEF Crash, LoseMemory
<1>22. ASSUME NEW q \in PageNo, Modify(q) PROVE TypeOK'
  <2>1. buffer' \in Seq(Entry)
    BY <1>22 DEF Modify, AddPage, Entry
  <2> QED
    BY <1>22, <2>1 DEF Modify
<1>23. CASE UNCHANGED vars
  BY <1>23 DEF vars
<1> QED
  BY <1>1, <1>2, <1>3, <1>4, <1>5, <1>6, <1>7, <1>8, <1>9, <1>10, <1>11, <1>12, <1>13,
      <1>14, <1>15, <1>16, <1>17, <1>18, <1>19, <1>20, <1>21, <1>22, <1>23 DEF Next,
      Open, CommitStep

-----------------------------------------------------------------------------
(* The journal's state and the pages it counts.                              *)

\* Every step keeps the journal file in the state its point of the code relies on.
LEMMA NextJournalOK ==
    TypeOK /\ JournalOK /\ [Next]_vars => JournalOK'
<1> SUFFICES ASSUME JournalOK, jrn \in JFile, [Next]_vars
             PROVE  JournalOK'
  BY DEF TypeOK
<1> USE DEF JournalOK, InTxn, OpenedStates, JFile, fileVars, procVars, historyVars
<1>1. CASE JournalOpen
  BY <1>1 DEF JournalOpen
<1>2. CASE JournalHeader
  BY <1>2 DEF JournalHeader
<1>3. CASE OpenData
  BY <1>3 DEF OpenData
<1>4. CASE NothingToRecover
  BY <1>4 DEF NothingToRecover
<1>5. CASE RecoverTruncate
  BY <1>5 DEF RecoverTruncate
<1>6. CASE ReplayMatch
  BY <1>6 DEF ReplayMatch
<1>7. CASE ReplayMismatch
  BY <1>7 DEF ReplayMismatch
<1>8. CASE RecoverSync
  BY <1>8 DEF RecoverSync
<1>9. CASE RecoverClear
  BY <1>9 DEF RecoverClear
<1>10. CASE Begin
  BY <1>10 DEF Begin
<1>11. CASE NewPage
  BY <1>11 DEF NewPage
<1>12. CASE Steal
  BY <1>12 DEF Steal
<1>13. CASE Commit
  BY <1>13 DEF Commit
<1>14. CASE JournalPages
  BY <1>14 DEF JournalPages
<1>15. CASE JournalMeta
  BY <1>15 DEF JournalMeta
<1>16. CASE WritePage
  BY <1>16 DEF WritePage
<1>17. CASE WritePagesDone
  BY <1>17 DEF WritePagesDone
<1>18. CASE Sync
  BY <1>18 DEF Sync
<1>19. CASE CommitTwo
  BY <1>19 DEF CommitTwo
<1>20. CASE AssertAbort
  BY <1>20 DEF AssertAbort
<1>21. CASE Crash
  BY <1>21 DEF Crash, LoseMemory
<1>22. ASSUME NEW q \in PageNo, Modify(q) PROVE JournalOK'
  BY <1>22 DEF Modify, InTxn
<1>23. CASE UNCHANGED vars
  BY <1>23 DEF vars
<1> QED
  BY <1>1, <1>2, <1>3, <1>4, <1>5, <1>6, <1>7, <1>8, <1>9, <1>10, <1>11, <1>12, <1>13,
      <1>14, <1>15, <1>16, <1>17, <1>18, <1>19, <1>20, <1>21, <1>22, <1>23 DEF Next,
      Open, CommitStep

-----------------------------------------------------------------------------
(* Undisturbed, what the journal and the data file hold.                     *)

\* Every step that has not written pages early keeps what journal and file hold.
LEMMA NextUndisturbed ==
    IInv /\ [Next]_vars /\ Undisturbed' => MarkOK' /\ FileOK' /\ PhaseOK'
<1> SUFFICES ASSUME IInv, [Next]_vars, Undisturbed'
             PROVE  MarkOK' /\ FileOK' /\ PhaseOK'
  OBVIOUS
<1> USE PagerAssumption DEF Undisturbed, MarkOK, FileOK, FileSize, PhaseOK, WritingOK,
    NewPagesIn, InTxn, TypeOK,
    PageNo, JFile, Image, Entry, fileVars, procVars, historyVars
<1> DEFINE Goal == MarkOK /\ FileOK /\ PhaseOK
<1>t. TypeOK /\ JournalOK
  BY DEF IInv
<1>s. Undisturbed /\ MarkOK /\ FileOK /\ PhaseOK
  <2>1. breach \subseteq breach'
    BY DEF Next, Open, CommitStep, JournalOpen, JournalHeader, OpenData,
        NothingToRecover, RecoverTruncate, ReplayMatch, ReplayMismatch, RecoverSync,
        RecoverClear, Begin, NewPage, Steal, Commit, Modify, JournalPages, JournalMeta,
        WritePage, WritePagesDone, Sync, CommitTwo, AssertAbort, Crash, vars
  <2> QED
    BY <2>1 DEF IInv
<1>1. CASE JournalOpen
  <2>1. jrn'.count = jrn.count /\ jrn'.origin = jrn.origin /\ jrn'.entries = jrn.entries
    BY <1>t, <1>1 DEF JournalOpen, TypeOK, JFile
  <2>2. pc' \in {"jheader", "failed", "fallocate"}
    BY <1>1 DEF JournalOpen
  <2> QED
    BY <1>s, <1>1, <2>1, <2>2 DEF JournalOpen
<1>2. CASE JournalHeader
  BY <1>t, <1>s, <1>2, SMTT(30) DEF JournalHeader, JournalOK, OpenedStates
<1>3. CASE OpenData
  BY <1>t, <1>s, <1>3, SMTT(20) DEF OpenData
<1>4. CASE NothingToRecover
  BY <1>t, <1>s, <1>4, SMTT(20) DEF NothingToRecover
<1>5. CASE RecoverTruncate
  BY <1>t, <1>s, <1>5, SMTT(20) DEF RecoverTruncate
<1>6. CASE ReplayMatch
  BY <1>t, <1>s, <1>6, SMTT(30) DEF ReplayMatch, JournalOK, OpenedStates
<1>7. CASE ReplayMismatch
  BY <1>t, <1>s, <1>7, SMTT(20) DEF ReplayMismatch
<1>8. CASE RecoverSync
  BY <1>t, <1>s, <1>8, SMTT(20) DEF RecoverSync
<1>9. CASE RecoverClear
  BY <1>t, <1>s, <1>9, SMTT(60) DEF RecoverClear, JournalOK, OpenedStates
<1>10. CASE Begin
  BY <1>t, <1>s, <1>10, SMTT(20) DEF Begin
<1>11. CASE NewPage
  BY <1>t, <1>s, <1>11, SMTT(20) DEF NewPage, AddPage
<1>12. CASE Steal
  BY <1>t, <1>s, <1>12, SMTT(20) DEF Steal
<1>13. CASE Commit
  BY <1>t, <1>s, <1>13, SMTT(20) DEF Commit, AddPage
<1>14. CASE JournalPages
  <2>1. buffer \in Seq(Entry) /\ jrn.entries \in Seq(Entry) /\ jcount = 0
    BY <1>t, <1>14, JFileFields DEF JournalPages, TypeOK, JournalOK
  <2>2. SubSeq(jrn.entries, 1, jcount) \o buffer = buffer
    BY <2>1
  <2>3. jrn' = [jrn EXCEPT !.entries = buffer]
    BY <1>14, <2>2 DEF JournalPages
  <2>4. jrn'.entries = buffer /\ jrn'.count = jrn.count /\ jrn'.origin = jrn.origin
    BY <1>t, <2>3 DEF TypeOK, JFile
  <2>5. jrn.count = 0
    BY <1>s, <1>14 DEF JournalPages
  <2> QED
    BY <1>s, <1>14, <2>4, <2>5 DEF JournalPages
<1>15. CASE JournalMeta
  <2>1. pc = "jmeta"
    BY <1>15 DEF JournalMeta
  <2>2. jcount = 0 /\ jrn.count = 0 /\ jrn.entries = <<[no |-> 0, content |-> data[0]]>>
        /\ buffer = jrn.entries /\ jrn.origin = size /\ NewPagesIn(dirty)
    BY <1>s, <2>1
  <2>3. Len(buffer) = 1
    BY <2>2
  <2>4. jrn'.count = 1 /\ jrn'.origin = jrn.origin /\ jrn'.entries = jrn.entries
    BY <1>t, <1>15, <2>2, <2>3 DEF JournalMeta, TypeOK, JFile
  <2>5. jrn.entries[1] = [no |-> 0, content |-> data[0]] /\ Len(jrn.entries) = 1
    BY <2>2
  <2>6. data[0] = stable.data[0] /\ size = stable.size /\ size >= 1
    BY <1>s, <2>2
  <2>7. MarkOK'
    BY <1>15, <2>2, <2>4, <2>5, <2>6 DEF JournalMeta
  <2> QED
    BY <1>s, <1>15, <2>1, <2>2, <2>4, <2>7 DEF JournalMeta
<1>16. CASE WritePage
  BY <1>t, <1>s, <1>16, SMTT(40) DEF WritePage
<1>17. CASE WritePagesDone
  <2>1. pc = "pages"
    BY <1>s, <1>17 DEF WritePagesDone
  <2>2. size = pageCount
    <3>1. SUFFICES ASSUME size # pageCount PROVE FALSE
      OBVIOUS
    <3>2. size \in PageNo /\ size < pageCount
      BY <1>t, <1>s, <2>1, <3>1 DEF TypeOK, PageNo
    <3>3. todo = {} /\ \A p \in PageNo : size <= p /\ p < pageCount => p \in todo
      BY <1>s, <1>17, <2>1 DEF WritePagesDone
    <3>4. size <= size
      BY <1>t
    <3> HIDE DEF PageNo, TypeOK
    <3> QED
      BY <3>2, <3>3, <3>4
  <2> QED
    BY <1>s, <1>17, <2>1, <2>2 DEF WritePagesDone
<1>18. CASE Sync
  BY <1>t, <1>s, <1>18, SMTT(20) DEF Sync
<1>19. CASE CommitTwo
  BY <1>t, <1>s, <1>19, SMTT(20) DEF CommitTwo
<1>20. CASE AssertAbort
  BY <1>t, <1>s, <1>20, SMTT(20) DEF AssertAbort
<1>21. CASE Crash
  BY <1>t, <1>s, <1>21, SMTT(20) DEF Crash, LoseMemory
<1>22. ASSUME NEW q \in PageNo, Modify(q) PROVE Goal'
  BY <1>t, <1>s, <1>22 DEF Modify, InTxn, AddPage, TypeOK, PageNo
<1>23. CASE UNCHANGED vars
  BY <1>s, <1>23 DEF vars
<1> QED
  BY <1>1, <1>2, <1>3, <1>4, <1>5, <1>6, <1>7, <1>8, <1>9, <1>10, <1>11, <1>12, <1>13,
      <1>14, <1>15, <1>16, <1>17, <1>18, <1>19, <1>20, <1>21, <1>22, <1>23 DEF Next,
      Open, CommitStep

-----------------------------------------------------------------------------
(* Losing power.                                                             *)

\* The same for the file on the device.
PlatterSize == IF platter.size = 0 THEN 1 ELSE platter.size

TxnSites == {"idle", "jpages", "jmeta", "pages", "sync",
             "steal_jpages", "steal_jmeta", "steal_pages"}

\* No length is ever zero: a journal with pages, on the device too, records at least
\* page 0, and an open file has it.
LengthsOK ==
    /\ platter.jrn.state # "valid" => platter.jrn.count = 0
    /\ jrn.count > 0 => jrn.origin >= 1
    /\ platter.jrn.count > 0 => platter.jrn.origin >= 1
    /\ pc \in OpenedStates \ {"fallocate"} => size >= 1 /\ pageCount >= 1
    /\ pc \in TxnSites /\ pstatus = "write_transaction" => jrn.origin >= 1

\* Where the control flow stands the journal has pages, or the checksum was lucky.
PagesOK ==
    /\ pc = "replay" => jcount > 0 /\ (replayed > 0 => "lucky" \in breach)
    /\ pc = "rclear" => "lucky" \in breach
    /\ Serving => jrn.count = 0
    /\ pc \in {"jpages", "jmeta"} => buffer # <<>> /\ pstatus = "write_transaction"
    /\ pc \in {"pages", "sync"} => jrn.count > 0
    /\ pc = "steal_pages" => "steal" \in breach
    /\ pc \in {"steal_jpages", "steal_jmeta", "steal_pages"} => pstatus = "write_transaction"

\* No early write, no lucky checksum, and power lost only at rest.
Calm == breach \subseteq {"rest"}

\* Without pages in the journal, file and device hold the last commit and nothing
\* beyond its end: WritePages writes under a journal with pages only, and the journal
\* is emptied after the fdatasync.
RestOK ==
    /\ \A p \in PageNo : p >= size => data[p] = 0
    /\ pc = "idle" /\ pstatus = "commit" => platter.data = data /\ platter.size = size
    /\ jrn.count = 0 =>
        /\ data = stable.data /\ platter.data = stable.data
        /\ FileSize = stable.size /\ PlatterSize = stable.size
        /\ \A p \in PageNo : p >= platter.size => platter.data[p] = 0

\* What relates the device to the kernel's files.
DeviceOK ==
    /\ LengthsOK
    /\ PagesOK
    /\ Calm => RestOK

\* The inductive invariant of what the device holds.
PowerInv == TypeOK /\ JournalOK /\ DeviceOK

\* Nothing exists yet, on the device or elsewhere.
LEMMA InitPowerInv == Init => PowerInv
<1> SUFFICES ASSUME Init PROVE PowerInv
  OBVIOUS
<1>1. TypeOK /\ JournalOK
  BY InitIInv DEF IInv
<1>2. DeviceOK
  BY DEF Init, DeviceOK, LengthsOK, PagesOK, RestOK, Serving, Zeros, Calm, FileSize,
    PlatterSize, OpenedStates, TxnSites, PageNo
<1> QED
  BY <1>1, <1>2 DEF PowerInv

\* A write-back of one block and a power loss keep the types.
LEMMA DeviceStepTypeOK == TypeOK /\ (Flush \/ PowerLoss) => TypeOK'
<1> SUFFICES ASSUME TypeOK, Flush \/ PowerLoss PROVE TypeOK'
  OBVIOUS
<1> USE PagerAssumption DEF TypeOK, CallSites, fileVars, procVars, historyVars
<1> DEFINE PlatterType == [data : [PageNo -> Content], size : 0 .. MaxPages, jrn : JFile]
<1>1. CASE Flush
  <2>1. ASSUME NEW p \in PageNo, platter' = [platter EXCEPT !.data[p] = data[p]]
        PROVE  platter' \in PlatterType
    BY <2>1
  <2>2. ASSUME platter' = [platter EXCEPT !.size = size] PROVE platter' \in PlatterType
    BY <2>2
  <2>3. ASSUME platter' = [platter EXCEPT !.jrn.entries = jrn.entries]
        PROVE  platter' \in PlatterType
    <3>1. [platter.jrn EXCEPT !.entries = jrn.entries] \in JFile
      BY JFileFields, JFileExcept
    <3> QED
      BY <2>3, <3>1
  <2>4. ASSUME platter' = [platter EXCEPT !.jrn.state = jrn.state,
                                          !.jrn.origin = jrn.origin,
                                          !.jrn.count = jrn.count]
        PROVE  platter' \in PlatterType
    <3>1. [platter.jrn EXCEPT !.state = jrn.state, !.origin = jrn.origin, !.count = jrn.count]
             \in JFile
      BY JFileFields, JFileExcept
    <3> QED
      BY <2>4, <3>1
  <2>5. platter' \in PlatterType
    BY <1>1, <2>1, <2>2, <2>3, <2>4 DEF Flush
  <2> QED
    BY <1>1, <2>5 DEF Flush
<1>2. CASE PowerLoss
  <2>1. data' \in [PageNo -> Content]
    BY <1>2 DEF PowerLoss, Content
  <2>2. platter' \in PlatterType
    BY <1>2, <2>1 DEF PowerLoss
  <2>3. buffer' \in Seq(Entry)
    BY <1>2 DEF PowerLoss, LoseMemory
  <2>4. breach' \subseteq {"lucky", "steal", "power", "rest"}
    BY <1>2 DEF PowerLoss
  <2>5. /\ size' \in 0 .. MaxPages /\ jrn' \in JFile
        /\ txn' \in Content /\ stable' \in Image
    BY <1>2 DEF PowerLoss
  <2>6. /\ pc' = "down" /\ pstatus' = "error" /\ jstatus' = "normal" /\ pageCount' = 0
        /\ dirty' = {} /\ jcount' = 0 /\ todo' = {} /\ replayed' = 0
    BY <1>2 DEF PowerLoss, LoseMemory
  <2> QED
    BY <2>1, <2>2, <2>3, <2>4, <2>5, <2>6
<1> QED
  BY <1>1, <1>2

\* They keep what the journal's state tells of its pages: header and state of the
\* journal file are one block.
LEMMA DeviceStepJournalOK == PowerInv /\ (Flush \/ PowerLoss) => JournalOK'
<1> SUFFICES ASSUME PowerInv, Flush \/ PowerLoss PROVE JournalOK'
  OBVIOUS
<1> USE DEF PowerInv, JournalOK, InTxn, OpenedStates
<1>1. CASE Flush
  BY <1>1 DEF Flush, fileVars, procVars
<1>2. CASE PowerLoss
  BY <1>2 DEF PowerLoss, LoseMemory, DeviceOK, LengthsOK
<1> QED
  BY <1>1, <1>2

\* What a write-back of one block leaves of the device's copy of the files.
LEMMA FlushFields ==
    ASSUME TypeOK, Flush
    PROVE  /\ UNCHANGED <<fileVars, procVars, historyVars>>
           /\ \/ platter'.size = platter.size
              \/ platter'.size = size
           /\ \A p \in PageNo : platter'.data[p] \in {platter.data[p], data[p]}
           /\ platter'.data \in [PageNo -> Content]
           /\ platter.data = data => platter'.data = data
           /\ \/ platter'.jrn.state = platter.jrn.state /\ platter'.jrn.count = platter.jrn.count
                 /\ platter'.jrn.origin = platter.jrn.origin
              \/ platter'.jrn.state = jrn.state /\ platter'.jrn.count = jrn.count
                 /\ platter'.jrn.origin = jrn.origin
<1>0. /\ UNCHANGED <<fileVars, procVars, historyVars>>
      /\ platter \in [data : [PageNo -> Content], size : 0 .. MaxPages, jrn : JFile]
      /\ data \in [PageNo -> Content] /\ platter.jrn \in JFile
  BY DEF Flush, TypeOK
<1>1. CASE platter' = [platter EXCEPT !.jrn.state = jrn.state, !.jrn.origin = jrn.origin,
                                      !.jrn.count = jrn.count]
  <2> DEFINE new == [platter.jrn EXCEPT !.state = jrn.state, !.origin = jrn.origin,
                                        !.count = jrn.count]
  <2>1. new.state = jrn.state /\ new.count = jrn.count /\ new.origin = jrn.origin
    BY <1>0 DEF JFile
  <2>2. platter'.jrn = new /\ platter'.data = platter.data /\ platter'.size = platter.size
    BY <1>0, <1>1
  <2> HIDE DEF new
  <2> QED
    BY <1>0, <2>1, <2>2
<1>2. ASSUME NEW p \in PageNo, platter' = [platter EXCEPT !.data[p] = data[p]]
      PROVE  /\ platter'.jrn = platter.jrn /\ platter'.size = platter.size
             /\ platter'.data = [platter.data EXCEPT ![p] = data[p]]
  BY <1>0, <1>2
<1>3. CASE platter' = [platter EXCEPT !.size = size]
  <2>1. platter'.jrn = platter.jrn /\ platter'.size = size /\ platter'.data = platter.data
    BY <1>0, <1>3
  <2> QED
    BY <1>0, <2>1
<1>4. CASE platter' = [platter EXCEPT !.jrn.entries = jrn.entries]
  <2>1. /\ platter'.jrn = [platter.jrn EXCEPT !.entries = jrn.entries]
        /\ platter'.size = platter.size /\ platter'.data = platter.data
    BY <1>0, <1>4
  <2> QED
    BY <1>0, <2>1 DEF JFile
<1>5. CASE \E p \in PageNo : platter' = [platter EXCEPT !.data[p] = data[p]]
  BY <1>0, <1>2, <1>5
<1> QED
  BY <1>1, <1>3, <1>4, <1>5 DEF Flush

\* A write-back of any block, and a power loss at any instant, keep the relation of
\* device and files: a power loss at rest leaves the last commit in the data file.
LEMMA DeviceStepDeviceOK == PowerInv /\ (Flush \/ PowerLoss) => DeviceOK'
<1> SUFFICES ASSUME PowerInv, Flush \/ PowerLoss PROVE DeviceOK'
  OBVIOUS
<1>t. TypeOK /\ JournalOK /\ LengthsOK /\ PagesOK /\ (Calm => RestOK)
  BY DEF PowerInv, DeviceOK
<1>s. /\ data \in [PageNo -> Content] /\ platter.data \in [PageNo -> Content]
      /\ stable.data \in [PageNo -> Content]
      /\ size \in Nat /\ platter.size \in Nat /\ PageNo \subseteq Nat
  BY <1>t, PagerAssumption DEF TypeOK, Image, PageNo
<1>1. CASE Flush
  <2>1. LengthsOK'
    BY <1>t, <1>1, FlushFields DEF LengthsOK, JournalOK, fileVars, procVars
  <2>2. PagesOK'
    BY <1>t, <1>1 DEF Flush, PagesOK, Serving, fileVars, procVars, historyVars
  <2>3. ASSUME Calm' PROVE RestOK'
    <3>1. RestOK /\ UNCHANGED <<data, size, jrn, pc, pstatus, stable>>
      BY <1>t, <1>1, <2>3 DEF Flush, Calm, fileVars, procVars, historyVars
    <3>2. pc = "idle" /\ pstatus = "commit" => platter'.data = data /\ platter'.size = size
      BY <1>t, <1>1, <3>1, FlushFields DEF RestOK
    <3>3. ASSUME jrn.count = 0
          PROVE  /\ platter'.data = stable.data /\ PlatterSize' = stable.size
                 /\ \A p \in PageNo : p >= platter'.size => platter'.data[p] = 0
      <4>1. platter'.data = stable.data /\ stable.data = data
        BY <1>t, <1>1, <3>1, <3>3, FlushFields DEF RestOK
      <4>2. platter'.size = platter.size \/ platter'.size = size
        BY <1>t, <1>1, FlushFields
      <4>3. PlatterSize' = stable.size
        BY <3>1, <3>3, <4>2 DEF RestOK, PlatterSize, FileSize
      <4> QED
        BY <3>1, <3>3, <4>1, <4>2, <4>3 DEF RestOK
    <3> QED
      BY <3>1, <3>2, <3>3 DEF RestOK, FileSize
  <2> QED
    BY <2>1, <2>2, <2>3 DEF DeviceOK
<1>2. CASE PowerLoss
  <2>1. /\ platter'.data = data' /\ platter'.jrn = platter.jrn /\ platter'.size = platter.size
        /\ jrn' = platter.jrn /\ size' = platter.size /\ pc' = "down" /\ pstatus' = "error"
    BY <1>t, <1>2 DEF PowerLoss, LoseMemory, TypeOK
  <2>2. LengthsOK'
    BY <1>t, <2>1 DEF LengthsOK, OpenedStates, TxnSites
  <2>3. PagesOK'
    BY <2>1 DEF PagesOK, Serving
  <2>4. ASSUME Calm' PROVE RestOK'
    <3>1. Calm /\ jrn.count = 0 /\ UNCHANGED stable
      <4>1. /\ breach' = breach \cup {IF jrn.count > 0 THEN "power" ELSE "rest"}
            /\ UNCHANGED stable
        BY <1>2 DEF PowerLoss
      <4>2. ~(jrn.count > 0)
        BY <2>4, <4>1 DEF Calm
      <4>3. jrn.count \in Nat
        BY <1>t DEF TypeOK, JFile
      <4> QED
        BY <2>4, <4>1, <4>2, <4>3 DEF Calm
    <3>2. /\ platter.data = stable.data /\ PlatterSize = stable.size
          /\ \A p \in PageNo : p >= platter.size => platter.data[p] = 0
      BY <1>t, <3>1 DEF RestOK
    <3>3. \A p \in PageNo : data'[p] = platter.data[p]
      BY <1>s, <1>2, <3>2 DEF PowerLoss
    <3>4. data' = platter.data
      <4>1. data' = [p \in PageNo |-> data'[p]]
        BY <1>2 DEF PowerLoss
      <4> QED
        BY <1>s, <3>3, <4>1
    <3> QED
      BY <2>1, <3>1, <3>2, <3>4 DEF RestOK, FileSize, PlatterSize
  <2> QED
    BY <2>2, <2>3, <2>4 DEF DeviceOK
<1> QED
  BY <1>1, <1>2

\* Every system call keeps the lengths above zero.
LEMMA NextLengthsOK == TypeOK /\ JournalOK /\ LengthsOK /\ PagesOK /\ [Next]_vars => LengthsOK'
<1> SUFFICES ASSUME TypeOK, JournalOK, LengthsOK, PagesOK, [Next]_vars PROVE LengthsOK'
  OBVIOUS
<1>s. /\ jrn \in JFile /\ size \in Nat /\ pageCount \in Nat
      /\ platter \in [data : [PageNo -> Content], size : 0 .. MaxPages, jrn : JFile]
  BY PagerAssumption DEF TypeOK
<1> USE <1>s DEF LengthsOK, JFile, OpenedStates, TxnSites, fileVars, procVars, historyVars
<1>0. CASE JournalOpen \/ JournalHeader
  <2>1. /\ jrn'.count > 0 => jrn.count > 0 /\ jrn'.origin = jrn.origin
        /\ UNCHANGED platter
        /\ pc' \in {"jheader", "failed", "fallocate"}
    <3>1. CASE JournalOpen
      BY <3>1 DEF JournalOpen
    <3>2. CASE JournalHeader
      <4>1. jrn'.count = 0
        BY <3>2 DEF JournalHeader
      <4> QED
        BY <3>2, <4>1 DEF JournalHeader
    <3> QED
      BY <1>0, <3>1, <3>2
  <2> QED
    BY <2>1
<1>1. CASE OpenData \/ NothingToRecover \/ ReplayMismatch
  BY <1>1 DEF OpenData, NothingToRecover, ReplayMismatch
<1>2. CASE RecoverTruncate \/ ReplayMatch
  BY <1>2 DEF RecoverTruncate, ReplayMatch
<1>3. CASE RecoverSync \/ Sync
  BY <1>3 DEF RecoverSync, Sync
<1>4. CASE RecoverClear
  BY <1>4 DEF RecoverClear, JournalOK
<1>5. CASE Begin
  BY <1>5 DEF Begin
<1>6. CASE NewPage \/ Steal \/ Commit \/ \E q \in PageNo : Modify(q)
  BY <1>6 DEF NewPage, Steal, Commit, Modify, InTxn
<1>7. CASE JournalPages
  BY <1>7 DEF JournalPages
<1>8. CASE JournalMeta
  <2>1. jrn.origin >= 1
    BY <1>8 DEF JournalMeta, PagesOK
  <2> QED
    BY <1>8, <2>1 DEF JournalMeta
<1>9. CASE WritePage
  <2>1. size' >= 1
    <3>1. PICK p \in todo : size' = IF p < size THEN size ELSE p + 1
      BY <1>9 DEF WritePage
    <3>2. p \in Nat
      BY <3>1, PagerAssumption DEF TypeOK, PageNo
    <3> QED
      BY <1>9, <3>1, <3>2 DEF WritePage
  <2> QED
    BY <1>9, <2>1 DEF WritePage
<1>10. CASE WritePagesDone \/ AssertAbort
  BY <1>10 DEF WritePagesDone, AssertAbort
<1>11. CASE CommitTwo
  BY <1>11 DEF CommitTwo
<1>12. CASE Crash
  BY <1>12 DEF Crash, LoseMemory
<1>13. CASE UNCHANGED vars
  BY <1>13 DEF vars
<1> QED
  BY <1>0, <1>1, <1>2, <1>3, <1>4, <1>5, <1>6, <1>7, <1>8, <1>9, <1>10, <1>11, <1>12, <1>13
     DEF Next, Open, CommitStep

\* Every system call keeps what its place in the code says of the journal's pages.
LEMMA NextPagesOK == TypeOK /\ JournalOK /\ PagesOK /\ [Next]_vars => PagesOK'
<1> SUFFICES ASSUME TypeOK, JournalOK, PagesOK, [Next]_vars PROVE PagesOK'
  OBVIOUS
<1> USE DEF PagesOK, Serving, fileVars, procVars, historyVars
<1>1. CASE JournalOpen \/ JournalHeader \/ OpenData
  BY <1>1 DEF JournalOpen, JournalHeader, OpenData
<1>2. CASE NothingToRecover \/ ReplayMismatch \/ Steal \/ NewPage \/ AssertAbort
  BY <1>2 DEF NothingToRecover, ReplayMismatch, Steal, NewPage, AssertAbort, InTxn
<1>3. CASE RecoverTruncate
  BY <1>3 DEF RecoverTruncate, TypeOK, JFile
<1>4. CASE ReplayMatch
  BY <1>4 DEF ReplayMatch
<1>5. CASE RecoverSync
  BY <1>5 DEF RecoverSync
<1>6. CASE RecoverClear
  BY <1>6 DEF RecoverClear, TypeOK, JFile
<1>7. CASE Begin
  BY <1>7 DEF Begin
<1>8. CASE Commit
  <2>1. buffer' # <<>>
    <3>1. CASE buffer = <<>>
      <4>1. buffer' = Append(<<>>, [no |-> 0, content |-> data[0]])
        BY <1>8, <3>1 DEF Commit, AddPage
      <4> QED
        BY <4>1
    <3>2. CASE buffer # <<>>
      <4>1. buffer' = buffer \/ buffer' = Append(buffer, [no |-> 0, content |-> data[0]])
        BY <1>8 DEF Commit, AddPage
      <4> QED
        BY <3>2, <4>1 DEF TypeOK
    <3> QED
      BY <3>1, <3>2
  <2> QED
    BY <1>8, <2>1 DEF Commit, InTxn
<1>9. CASE JournalPages
  <2>1. jrn'.count = jrn.count
    BY <1>9 DEF JournalPages, TypeOK, JFile
  <2> QED
    BY <1>9, <2>1 DEF JournalPages, JournalOK
<1>10. CASE JournalMeta
  <2>1. jrn'.count = jcount' /\ jcount' = jcount + Len(buffer)
    BY <1>10 DEF JournalMeta, TypeOK, JFile
  <2>2. CASE pc = "jmeta"
    <3>1. Len(buffer) > 0
      BY <2>2 DEF TypeOK
    <3>2. jrn'.count > 0
      BY <2>1, <3>1 DEF TypeOK
    <3> QED
      BY <1>10, <2>2, <3>2 DEF JournalMeta
  <2>3. CASE pc = "steal_jmeta"
    BY <1>10, <2>3 DEF JournalMeta
  <2> QED
    BY <1>10, <2>2, <2>3 DEF JournalMeta
<1>11. CASE WritePage
  BY <1>11 DEF WritePage
<1>12. CASE WritePagesDone
  BY <1>12 DEF WritePagesDone, JournalOK
<1>13. CASE Sync
  BY <1>13 DEF Sync
<1>14. CASE CommitTwo
  BY <1>14 DEF CommitTwo, TypeOK, JFile
<1>15. CASE Crash
  BY <1>15 DEF Crash, LoseMemory
<1>16. ASSUME NEW q \in PageNo, Modify(q) PROVE PagesOK'
  BY <1>16 DEF Modify, InTxn
<1>17. CASE UNCHANGED vars
  BY <1>17 DEF vars
<1> QED
  BY <1>1, <1>2, <1>3, <1>4, <1>5, <1>6, <1>7, <1>8, <1>9, <1>10, <1>11, <1>12, <1>13,
      <1>14, <1>15, <1>16, <1>17 DEF Next, Open, CommitStep

\* Every system call keeps what files and device hold at rest.
LEMMA NextRestOK == PowerInv /\ [Next]_vars /\ Calm' => RestOK'
<1> SUFFICES ASSUME PowerInv, [Next]_vars, Calm' PROVE RestOK'
  OBVIOUS
<1>t. TypeOK /\ JournalOK /\ LengthsOK /\ PagesOK
  BY DEF PowerInv, DeviceOK
<1>r. Calm /\ RestOK
  <2>1. breach \subseteq breach'
    BY DEF Next, Open, CommitStep, JournalOpen, JournalHeader, OpenData,
        NothingToRecover, RecoverTruncate, ReplayMatch, ReplayMismatch, RecoverSync,
        RecoverClear, Begin, NewPage, Steal, Commit, Modify, JournalPages, JournalMeta,
        WritePage, WritePagesDone, Sync, CommitTwo, AssertAbort, Crash, vars, historyVars
  <2> QED
    BY <2>1 DEF PowerInv, DeviceOK, Calm
<1>s. /\ data \in [PageNo -> Content] /\ jrn \in JFile /\ jrn.origin \in Nat
      /\ platter \in [data : [PageNo -> Content], size : 0 .. MaxPages, jrn : JFile]
      /\ size \in Nat /\ platter.size \in Nat /\ PageNo \subseteq Nat
  BY <1>t, PagerAssumption DEF TypeOK, PageNo, JFile
<1> USE <1>r, <1>s DEF RestOK, FileSize, PlatterSize, fileVars, procVars, historyVars
<1>1. CASE JournalOpen \/ JournalHeader
  <2>1. jrn'.count = 0 => jrn.count = 0
    BY <1>t, <1>1 DEF JournalOpen, JournalHeader, JournalOK, JFile
  <2>2. UNCHANGED <<data, size, platter, stable>> /\ pc' # "idle"
    BY <1>1 DEF JournalOpen, JournalHeader
  <2> QED
    BY <2>1, <2>2
<1>2. CASE OpenData
  BY <1>2 DEF OpenData
<1>3. CASE NothingToRecover \/ ReplayMismatch \/ Steal \/ NewPage \/ AssertAbort
  BY <1>3 DEF NothingToRecover, ReplayMismatch, Steal, NewPage, AssertAbort, InTxn
<1>4. CASE RecoverTruncate
  <2>1. /\ data' = [p \in PageNo |-> IF p < jrn.origin THEN data[p] ELSE 0]
        /\ size' = jrn.origin /\ jrn' = jrn /\ jrn.count > 0 /\ pc' = "replay"
    BY <1>4 DEF RecoverTruncate
  <2>2. ASSUME NEW p \in PageNo, p >= size' PROVE data'[p] = 0
    <3>1. p \in Nat /\ ~(p < jrn.origin)
      BY <2>1, <2>2
    <3> QED
      BY <2>1, <3>1
  <2> QED
    BY <2>1, <2>2
<1>5. CASE ReplayMatch \/ RecoverSync \/ RecoverClear
  <2>1. "lucky" \in breach'
    BY <1>t, <1>5 DEF ReplayMatch, RecoverSync, RecoverClear, PagesOK, JournalOK, TypeOK
  <2> QED
    BY <2>1 DEF Calm
<1>6. CASE Begin
  <2>1. jrn.count = 0
    BY <1>t, <1>6 DEF Begin, PagesOK, Serving
  <2> QED
    BY <1>6, <2>1 DEF Begin
<1>7. CASE Commit \/ \E q \in PageNo : Modify(q)
  BY <1>7 DEF Commit, Modify, InTxn
<1>8. CASE JournalPages
  <2>1. jrn'.count = jrn.count
    BY <1>8 DEF JournalPages, JFile
  <2> QED
    BY <1>8, <2>1 DEF JournalPages
<1>9. CASE JournalMeta
  <2>1. pc = "jmeta" /\ pc' = "pages"
    <3>1. pc = "steal_jmeta" => "steal" \in breach'
      BY <1>9 DEF JournalMeta
    <3>2. "steal" \notin breach'
      BY DEF Calm
    <3> QED
      BY <1>9, <3>1, <3>2 DEF JournalMeta
  <2>2. jrn'.count > 0
    BY <1>t, <1>9, <2>1 DEF JournalMeta, PagesOK, TypeOK, JFile
  <2>3. data' = data /\ size' = size /\ platter' = platter /\ stable' = stable
    BY <1>9 DEF JournalMeta
  <2>4. jrn'.count # 0 /\ pc' # "idle"
    BY <2>1, <2>2
  <2> QED
    BY <2>3, <2>4
<1>10. CASE WritePage
  <2>1. jrn.count > 0
    BY <1>t, <1>10 DEF WritePage, PagesOK, Calm, JFile
  <2>2. PICK p \in todo : /\ data' = [data EXCEPT ![p] = txn]
                          /\ size' = IF p < size THEN size ELSE p + 1
    BY <1>10 DEF WritePage
  <2>3. p \in PageNo /\ p \in Nat
    BY <1>t, <2>2 DEF TypeOK
  <2>4. size' >= size /\ size' > p
    BY <2>2, <2>3
  <2>5. \A q \in PageNo : q >= size' => data'[q] = 0
    BY <2>2, <2>3, <2>4
  <2> QED
    BY <1>10, <2>1, <2>5 DEF WritePage
<1>11. CASE WritePagesDone
  <2>1. jrn.count > 0
    BY <1>t, <1>11 DEF WritePagesDone, PagesOK, Calm, JFile
  <2>2. pc = "pages" /\ pc' = "sync"
    BY <1>t, <1>11 DEF WritePagesDone, PagesOK, Calm
  <2> QED
    BY <1>11, <2>1, <2>2 DEF WritePagesDone
<1>12. CASE Sync
  <2>1. platter'.data = data' /\ platter'.size = size'
    BY <1>12 DEF Sync
  <2>2. jrn.count > 0
    BY <1>t, <1>12 DEF Sync, PagesOK
  <2> QED
    BY <1>12, <2>1, <2>2 DEF Sync
<1>13. CASE CommitTwo
  <2>1. size >= 1
    BY <1>t, <1>13 DEF CommitTwo, LengthsOK, OpenedStates
  <2>2. platter.data = data /\ platter.size = size
    BY <1>13 DEF CommitTwo
  <2> QED
    BY <1>13, <2>1, <2>2 DEF CommitTwo
<1>14. CASE Crash
  BY <1>14 DEF Crash, LoseMemory
<1>15. CASE UNCHANGED vars
  BY <1>15 DEF vars
<1> QED
  BY <1>1, <1>2, <1>3, <1>4, <1>5, <1>6, <1>7, <1>8, <1>9, <1>10, <1>11, <1>12, <1>13,
      <1>14, <1>15 DEF Next, Open, CommitStep

\* What a write-back and a power loss leave of IInv: the file facts are claimed only
\* while the power stays on.
LEMMA DeviceStepFiles ==
    IInv /\ (Flush \/ PowerLoss) /\ Undisturbed' => MarkOK' /\ FileOK' /\ PhaseOK'
<1> SUFFICES ASSUME IInv, Flush \/ PowerLoss, Undisturbed' PROVE MarkOK' /\ FileOK' /\ PhaseOK'
  OBVIOUS
<1>1. ~PowerLoss
  BY DEF PowerLoss, Undisturbed
<1>2. UNCHANGED <<fileVars, procVars, historyVars>>
  BY <1>1 DEF Flush
<1> QED
  BY <1>2 DEF IInv, Undisturbed, MarkOK, FileOK, FileSize, PhaseOK, WritingOK, NewPagesIn,
     InTxn, fileVars, procVars, historyVars

-----------------------------------------------------------------------------
(* The theorems.                                                             *)

\* The two invariants are inductive, whatever the process was doing when it ended and
\* whatever had reached the device when the power was lost.
THEOREM PowerInvariant == PowerSpec => [](PowerInv /\ IInv)
<1>1. PowerInv /\ IInv /\ [Next \/ Flush \/ PowerLoss]_vars => PowerInv' /\ IInv'
  <2> SUFFICES ASSUME PowerInv, IInv, [Next \/ Flush \/ PowerLoss]_vars PROVE PowerInv' /\ IInv'
    OBVIOUS
  <2>1. CASE [Next]_vars
    <3>1. TypeOK' /\ JournalOK'
      BY <2>1, NextTypeOK, NextJournalOK DEF PowerInv, JournalOK, CountStart
    <3>2. LengthsOK' /\ PagesOK' /\ (Calm' => RestOK')
      BY <2>1, NextLengthsOK, NextPagesOK, NextRestOK DEF PowerInv, DeviceOK
    <3>3. Undisturbed' => MarkOK' /\ FileOK' /\ PhaseOK'
      BY <2>1, NextUndisturbed
    <3> QED
      BY <3>1, <3>2, <3>3 DEF PowerInv, DeviceOK, IInv
  <2>2. CASE Flush \/ PowerLoss
    BY <2>2, DeviceStepTypeOK, DeviceStepJournalOK, DeviceStepDeviceOK, DeviceStepFiles
       DEF PowerInv, IInv
  <2> QED
    BY <2>1, <2>2
<1>2. Init => PowerInv /\ IInv
  BY InitPowerInv, InitIInv
<1> QED
  BY <1>1, <1>2, PTL DEF PowerSpec

\* The inductive invariant of the files holds in every reachable state.
THEOREM PagerInvariant == PowerSpec => []IInv
<1> QED
  BY PowerInvariant, PTL

\* Type correctness of the pager and its files in every reachable state.
THEOREM TypeCorrect == PowerSpec => []TypeOK
<1>1. IInv => TypeOK
  BY DEF IInv
<1> QED
  BY <1>1, PagerInvariant, PTL

\* Whatever the pager serves outside a transaction is the last committed image, with
\* the process killed between any two system calls and power lost at rest any number
\* of times: an old journal that such a loss brings back is refused or passes by luck.
THEOREM ServesCommittedAlways == PowerSpec => []ServesCommitted
<1>1. PowerInv => ServesCommitted
  <2> SUFFICES ASSUME PowerInv, Serving, Calm PROVE CurrentImage = stable
    BY DEF ServesCommitted, Calm
  <2>1. jrn.count = 0 /\ RestOK /\ stable \in Image
    BY DEF PowerInv, DeviceOK, PagesOK, TypeOK
  <2> QED
    BY <2>1 DEF RestOK, CurrentImage, FileSize, Image
<1> QED
  BY <1>1, PowerInvariant, PTL

\* Page 0 and the file's length are those of the last commit after every
\* recovery, also one that finished because a checksum matched by luck.
THEOREM HeaderRestoredAlways == PowerSpec => []HeaderRestored
<1>1. IInv => HeaderRestored
  BY DEF IInv, HeaderRestored, Serving, CurrentImage, Undisturbed, PhaseOK, FileOK, FileSize
<1> QED
  BY <1>1, PagerInvariant, PTL

\* A data file that differs from the last commit is announced by the journal at
\* every instant, after losses of power at rest too.
THEOREM TornIsMarkedAlways == PowerSpec => []TornIsMarked
<1>1. PowerInv => TornIsMarked
  <2> SUFFICES ASSUME PowerInv, Calm, CurrentImage # stable
               PROVE  jrn.state = "valid" /\ jrn.count > 0
    BY DEF TornIsMarked, Calm
  <2>1. RestOK /\ JournalOK /\ stable \in Image /\ jrn.count \in Nat
    BY DEF PowerInv, DeviceOK, TypeOK, JFile
  <2>2. jrn.count # 0
    BY <2>1 DEF RestOK, CurrentImage, FileSize, Image
  <2> QED
    BY <2>1, <2>2 DEF JournalOK
<1> QED
  BY <1>1, PowerInvariant, PTL

-----------------------------------------------------------------------------
(* What a commit makes of the pages.                                         *)

\* From commit_phase_one to the end of phase two every page is as the previous
\* commit left it or as this transaction wrote it, and page 0 is this one's
\* once it is written.
Progressed ==
    /\ \A p \in PageNo : data[p] \in {stable.data[p], txn}
    /\ size >= stable.size
CommitOK ==
    breach = {} =>
        /\ pc \in {"jpages", "jmeta"} => 0 \in dirty
        /\ pc = "pages" => Progressed /\ (0 \in todo \/ data[0] = txn)
        /\ pc = "sync" => Progressed /\ data[0] = txn
        /\ pc = "idle" /\ pstatus = "commit" => Progressed /\ data[0] = txn

\* It is kept, given the invariant.
LEMMA NextCommitOK == IInv /\ CommitOK /\ [Next]_vars => CommitOK'
<1> SUFFICES ASSUME IInv, CommitOK, [Next]_vars, breach' = {} PROVE CommitOK'
  BY DEF CommitOK
<1>1. breach \subseteq breach'
  BY DEF Next, vars, Open, CommitStep, JournalOpen, JournalHeader, OpenData, NothingToRecover,
     RecoverTruncate, ReplayMatch, ReplayMismatch, RecoverSync, RecoverClear, Begin, NewPage,
     Steal, Commit, Modify, JournalPages, JournalMeta, WritePage, WritePagesDone, Sync,
     CommitTwo, AssertAbort, Crash, fileVars, procVars, historyVars
<1>2. breach = {}
  BY <1>1
<1> USE <1>2 DEF CommitOK
<1>3. CASE Open
  BY <1>3 DEF Open, JournalOpen, JournalHeader, OpenData, NothingToRecover,
     RecoverTruncate, ReplayMatch, ReplayMismatch, RecoverSync, RecoverClear
<1>4. CASE Begin \/ NewPage \/ Steal \/ \E p \in PageNo : Modify(p)
  BY <1>4 DEF Begin, NewPage, Steal, Modify, InTxn
<1>5. CASE Commit
  BY <1>5 DEF Commit
<1>6. CASE JournalPages
  BY <1>6 DEF JournalPages
<1>7. CASE JournalMeta
  <2>1. pc = "jmeta" /\ pc' = "pages" /\ todo' = dirty /\ 0 \in dirty
        /\ UNCHANGED <<data, size, txn, stable>>
    BY <1>7 DEF JournalMeta
  <2>2. jrn.count = 0 /\ size >= 1 /\ FileOK
    BY <2>1 DEF IInv, PhaseOK, Undisturbed, WritingOK, NewPagesIn
  <2>3. data = stable.data /\ size = stable.size /\ size \in Int
    BY <2>2 DEF FileOK, FileSize, IInv, TypeOK
  <2>4. Progressed'
    BY <2>1, <2>3 DEF Progressed
  <2> QED
    BY <2>1, <2>4
<1>8. CASE WritePage
  <2>1. pc = "pages" /\ pc' = "pages" /\ UNCHANGED <<txn, stable, pstatus>>
    BY <1>8 DEF WritePage, IInv, PhaseOK, Undisturbed, historyVars
  <2>2. PICK p \in todo : /\ data' = [data EXCEPT ![p] = txn]
                          /\ size' = IF p < size THEN size ELSE p + 1
                          /\ todo' = todo \ {p}
    BY <1>8 DEF WritePage
  <2>3. /\ data \in [PageNo -> Content] /\ p \in PageNo /\ size \in Nat /\ p \in Nat
        /\ stable.size \in Nat
    BY <2>2, PagerAssumption DEF IInv, TypeOK, PageNo, Image
  <2>4. size' >= size
    BY <2>2, <2>3
  <2>5. Progressed'
    <3>1. \A q \in PageNo : data'[q] \in {stable.data[q], txn}
      BY <2>1, <2>2, <2>3 DEF Progressed
    <3>2. size' >= stable.size
      <4>1. size' \in Nat
        BY <2>2, <2>3
      <4> QED
        BY <2>1, <2>3, <2>4, <4>1 DEF Progressed
    <3> QED
      BY <2>1, <3>1, <3>2 DEF Progressed
  <2>6. 0 \in todo' \/ data'[0] = txn
    BY <2>1, <2>2, <2>3
  <2> QED
    BY <2>1, <2>5, <2>6
<1>9. CASE WritePagesDone
  <2>1. pc = "pages" /\ pc' = "sync" /\ todo = {} /\ UNCHANGED <<data, size, txn, stable, pstatus>>
    BY <1>9 DEF WritePagesDone, IInv, PhaseOK, Undisturbed, fileVars, historyVars
  <2> QED
    BY <2>1 DEF Progressed
<1>10. CASE Sync
  BY <1>10 DEF Sync, Progressed, fileVars, historyVars
<1>11. CASE CommitTwo
  BY <1>11 DEF CommitTwo
<1>12. CASE AssertAbort \/ Crash
  BY <1>12 DEF AssertAbort, Crash, LoseMemory
<1>13. CASE UNCHANGED vars
  BY <1>13 DEF vars, fileVars, procVars, historyVars, Progressed
<1> QED
  BY <1>3, <1>4, <1>5, <1>6, <1>7, <1>8, <1>9, <1>10, <1>11, <1>12, <1>13 DEF Next, CommitStep

\* What commit_phase_two makes the committed image is page 0 of this transaction
\* and, of every other page, the previous or this transaction's.
THEOREM CommitIsExactAlways == PowerSpec => CommitIsExact
<1>1. Init => CommitOK
  BY DEF Init, CommitOK
<1>2. IInv /\ CommitOK /\ [Next \/ Flush \/ PowerLoss]_vars => CommitOK'
  <2>1. IInv /\ CommitOK /\ Flush => CommitOK'
    BY DEF Flush, CommitOK, Progressed, fileVars, procVars, historyVars
  <2>2. PowerLoss => CommitOK'
    BY DEF PowerLoss, CommitOK
  <2> QED
    BY <2>1, <2>2, NextCommitOK
<1>3. PowerSpec => [](IInv /\ CommitOK)
  BY <1>1, <1>2, PagerInvariant, PTL DEF PowerSpec
<1>4. IInv /\ CommitOK /\ [Next \/ Flush \/ PowerLoss]_vars
      => [stable' # stable /\ breach = {} =>
            /\ \A p \in PageNo : stable'.data[p] \in {stable.data[p], txn}
            /\ stable'.data[0] = txn
            /\ stable'.size >= stable.size
            /\ stable'.size = pageCount]_vars
  <2> SUFFICES ASSUME IInv, CommitOK, Next \/ Flush \/ PowerLoss, stable' # stable,
                      breach = {}
               PROVE  /\ \A p \in PageNo : stable'.data[p] \in {stable.data[p], txn}
                      /\ stable'.data[0] = txn
                      /\ stable'.size >= stable.size
                      /\ stable'.size = pageCount
    OBVIOUS
  <2>1. CommitTwo
    BY DEF Next, Open, CommitStep, JournalOpen, JournalHeader, OpenData, NothingToRecover,
       RecoverTruncate, ReplayMatch, ReplayMismatch, RecoverSync, RecoverClear, Begin, NewPage,
       Steal, Commit, Modify, JournalPages, JournalMeta, WritePage, WritePagesDone, Sync,
       AssertAbort, Crash, Flush, PowerLoss, historyVars
  <2>2. pc = "idle" /\ pstatus = "commit" /\ stable' = [data |-> data, size |-> size]
    BY <2>1 DEF CommitTwo
  <2>3. Progressed /\ data[0] = txn /\ size = pageCount
    BY <2>2 DEF CommitOK, IInv, PhaseOK, Undisturbed
  <2> QED
    BY <2>2, <2>3 DEF Progressed
<1> QED
  BY <1>3, <1>4, PTL DEF PowerSpec, CommitIsExact
=============================================================================
