-------------------------- MODULE BTreeProperties --------------------------
(***************************************************************************)
(* What the B-tree promises, stated about the pages of BTree.tla.          *)
(*                                                                         *)
(* "Sound" excludes the states after a page was read back that a commit    *)
(* had left out, or after balance lost children (broken), and those after  *)
(* an assertion has ended the process: what the code does then is the      *)
(* subject of runs of their own.                                           *)
(***************************************************************************)
EXTENDS BTree

Sound == pc # "aborted" /\ ~broken
Idle  == pc = "idle" /\ Sound

LeavesOf(pages) == {p \in PageNo : pages[p].type = "leaf"}
InternalsOf(pages) == {p \in PageNo : pages[p].type = "internal"}
Internals == InternalsOf(page)

\* Pages above internal pages that have lost their last key, which their search
\* asserts they have: after its first round adjust_tree goes by the keys of
\* another page.
Starved(pages) ==
    {p \in InternalsOf(pages) : pages[p].count = 0 /\ pages[pages[p].kids[1]].type = "internal"}

\* Where search_page ends for a key, from a page down.
Reached(pages, from, key) ==
    LET Down[d \in 0 .. MaxPages] ==
            [no \in PageNo |->
                IF d > 0 /\ pages[no].type = "internal" /\ pages[no].count > 0
                THEN Down[d - 1][ChildFor(pages[no], key)] ELSE no]
    IN  Down[MaxPages][from]

AllFindable(pages, from) ==
    \A p \in LeavesOf(pages) : \A k \in KeySet(pages[p].recs) : Reached(pages, from, k) = p

\* Where get_first_cursor begins.
FirstLeaf(pages, from) ==
    LET Down[d \in 0 .. MaxPages] ==
            [no \in PageNo |->
                IF d > 0 /\ pages[no].type = "internal" THEN Down[d - 1][pages[no].kids[1]] ELSE no]
    IN  Down[MaxPages][from]

\* The records it passes, leaf by leaf along next_page.
Scan(pages, from) ==
    LET Passed[d \in 0 .. MaxPages] ==
            [no \in PageNo |->
                IF d > 0 /\ no # 0 /\ pages[no].type = "leaf"
                THEN pages[no].recs \o Passed[d - 1][pages[no].next] ELSE <<>>]
    IN  Passed[MaxPages][FirstLeaf(pages, from)]

-----------------------------------------------------------------------------
\* Type invariant.
TypeOK ==
    /\ \A p \in PageNo :
          \/ page[p] = Unused
          \/ /\ page[p].type = "leaf"
             /\ \A i \in DOMAIN page[p].recs : page[p].recs[i] \in [key : Keys, size : Sizes]
          \/ /\ page[p].type = "internal"
             /\ page[p].count \in 0 .. KeyCapacity
             /\ Len(page[p].kids) \in {0, page[p].count + 1}
             /\ DOMAIN page[p].keys = Slots
          \/ page[p].type = "free"
    /\ root \in 1 .. MaxPages - 1
    /\ pageCount \in 2 .. MaxPages
    /\ dirty \subseteq 1 .. pageCount - 1
    /\ writing \in BOOLEAN
    /\ pc \in {"idle", "search", "insert_up", "adjust_leaf", "adjust_up", "aborted"}

\* Every record is where search_page looks for its key, whatever splits,
\* merges and balances the pages went through, as long as no page is starved.
Findable == Idle /\ Starved(page) = {} => AllFindable(page, root)

\* A scan along next_page passes every record once, in the order of the keys,
\* also in the middle of a split or a merge.
ScanInOrder ==
    Sound =>
        LET s == Scan(page, root)
        IN  /\ Len(s) = Cardinality(Stored)
            /\ \A i \in 1 .. Len(s) - 1 : s[i].key < s[i + 1].key

\* And between calls it meets no leaf without records but the root: next asserts
\* that the page it moves to has some.
ScanComplete ==
    /\ ScanInOrder
    /\ Idle => \A p \in LeavesOf(page) \ {root} : page[p].recs # <<>>

\* What the file holds is a tree of its own: after a restart every committed
\* record is found by search_page again.
DurableFindable == AllFindable(disk.page, disk.root)

\* Going back along prev_page from any leaf passes ever smaller keys and ends in
\* the first leaf.  It may pass over leaves: a split leaves the prev_page of the
\* page behind the new one as it was.
BackwardDescends ==
    Sound =>
        \A p \in LeavesOf(page) :
            /\ page[p].prev = 0 <=> p = FirstLeaf(page, root)
            /\ page[p].prev # 0 =>
                  /\ page[page[p].prev].type = "leaf"
                  /\ \A k \in KeySet(page[page[p].prev].recs), l \in KeySet(page[p].recs) : k < l

\* No page has two parents, no parent refers to the root or to a free page, and
\* every page in use but the root has a parent: none is lost or taken twice.
NoSharing ==
    Idle =>
        /\ \A p, q \in Internals : \A i \in DOMAIN page[p].kids, j \in DOMAIN page[q].kids :
              page[p].kids[i] = page[q].kids[j] => p = q /\ i = j
        /\ \A p \in Internals : \A i \in DOMAIN page[p].kids :
              page[p].kids[i] # root /\ page[page[p].kids[i]].type \in {"leaf", "internal"}
        /\ \A p \in (LeavesOf(page) \cup Internals) \ {root} :
              \E q \in Internals : \E i \in DOMAIN page[q].kids : page[q].kids[i] = p

\* The keys of an internal page ascend, and those of the root separate the keys
\* of its children: also after balance, which loses the children themselves.
\* Throughout, the pages keep the shape of their types.
KeysOrdered ==
    /\ TypeOK
    /\ pc = "idle" =>
           /\ \A p \in Internals : \A i \in 1 .. page[p].count - 1 : page[p].keys[i] < page[p].keys[i + 1]
           /\ root \in Internals =>
                 \A i \in 1 .. page[root].count :
                    LET f == page[page[root].kids[i]]
                        b == page[page[root].kids[i + 1]]
                    IN  f.type = "internal" /\ b.type = "internal" =>
                          f.keys[f.count] < page[root].keys[i] /\ page[root].keys[i] < b.keys[1]

\* Inserting fresh keys never ends in an assertion: proved for pages whose slots hold no
\* key of a caller; with such a word behind the last key, insert's assertion that the key
\* is new finds it there (btree_internal_page.cpp, line 123).
InsertNeverAborts == fail = "none"

\* A search ends in an assertion only where a page is starved.
SearchNeverAborts == ~broken /\ fail = "search_page" => Starved(page) # {}

-----------------------------------------------------------------------------
(* The abstract map of KeyStore.tla: a split or a merge in the middle of a *)
(* call changes no record a scan finds.                                    *)

RecordsOf(pages, from) ==
    LET s == Scan(pages, from) IN {s[i] : i \in DOMAIN s}

Store == INSTANCE KeyStore WITH
            content <- RecordsOf(page, root),
            saved   <- RecordsOf(disk.page, disk.root)

\* btree implements the map: an insert takes effect in one step of its many, a
\* commit keeps what a scan shows, a crash at any point brings the last commit
\* back.
ImplementsKeyStore == Store!Spec

=============================================================================
