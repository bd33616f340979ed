-------------------------------- MODULE BTree --------------------------------
(***************************************************************************)
(* The B-tree (src/btree.cpp) over pages in memory and pages on disk: one  *)
(* action per loop iteration of search_page, insert and adjust_tree, so    *)
(* that every intermediate shape of the tree is a state.  Commit is atomic *)
(* here (Pager.tla says when it is) and writes exactly the pages marked by *)
(* enable_write.                                                           *)
(*                                                                         *)
(* A leaf is the sequence of its records in key order, each with its       *)
(* aligned size; where a record lies in the page is abstracted to the      *)
(* page's free space, which depends on the sizes alone.                    *)
(* Every assertion of the code that can fail is a conjunct here: where it  *)
(* does not hold the process aborts and fail names the function.           *)
(***************************************************************************)
EXTENDS InternalPage, FiniteSets

CONSTANTS
    Keys,       \* the keys callers use, positive naturals
    Sizes,      \* aligned payload sizes
    PageSize,   \* page_size
    MaxPages,   \* bound: pages of the data file, page 0 included
    Plans,      \* what a run does: the calls it begins with, as values of op,
                \* and how many follow (the bound) on which keys
    Repeats,    \* may a caller insert a key that is present?
    Removals    \* may a caller remove records?

HeaderSize == 48    \* sizeof(btree_leaf_page)
MetaSize   == 16    \* sizeof(payload_meta)

Call == [kind : {"insert", "remove"}, key : Keys, size : Sizes \cup {0}]
Plan == [calls : Seq(Call), keys : SUBSET Keys, more : Nat]

ASSUME BTreeAssumption ==
    /\ Keys \subseteq Nat \ {0}
    /\ Sizes \subseteq {s \in 1 .. PageSize \div 4 - 1 : s % 8 = 0}
    /\ PageSize \in Nat /\ PageSize % 8 = 0 /\ PageSize > HeaderSize
    /\ MaxPages \in Nat /\ MaxPages >= 2 /\ MaxPages < PageSize
    /\ Plans \subseteq Plan
    /\ Repeats \in BOOLEAN /\ Removals \in BOOLEAN

VARIABLES
    page,       \* the pages as the process sees them, cached or not
    root,       \* header.root_page_no
    free,       \* header.free_page_no
    pageCount,  \* pager::page_count
    dirty,      \* pages enable_write was called for since the last commit
    disk,       \* the committed file: pages, root, free, pageCount
    writing,    \* btree::_status is status::write
    pc,         \* where the current call is
    op,         \* the call: key and size of insert, key of remove
    stack,      \* page_no_stack, top last
    carry,      \* insert: back_key, front_no, back_no to put one level up
    upper,      \* adjust_tree: the pointer upper_page and upper_page_no
    \* observers, read by no action
    ops,        \* what is left of the plan
    fail,       \* the function whose assertion ended the process
    torn,       \* the last commit left out a page that had changed
    broken      \* such a page has been read back, or balance has lost children

treeVars == <<page, root, free, pageCount, dirty>>
callVars == <<pc, op, stack, carry, upper>>
vars == <<treeVars, disk, writing, callVars, ops, fail, torn, broken>>

PageNo == 0 .. MaxPages - 1
SetUp  == ops.calls = <<>>

Unused == [type |-> "unused"]
Leaf(prev, next, recs) == [type |-> "leaf", prev |-> prev, next |-> next, recs |-> recs]

NoOp    == [kind |-> "none", key |-> 0, size |-> 0]
NoCarry == [key |-> 0, front |-> 0, back |-> 0]
NoUpper == [pointer |-> 0, no |-> 0]

-----------------------------------------------------------------------------
(* Leaf pages by size                                                      *)

PayloadSize(recs) ==
    LET sum[n \in 0 .. Len(recs)] == IF n = 0 THEN 0 ELSE sum[n - 1] + recs[n].size
    IN  sum[Len(recs)]
FreeSpace(recs)   == PageSize - HeaderSize - PayloadSize(recs) - MetaSize * Len(recs)
Fits(recs, size)  == FreeSpace(recs) > size + MetaSize
KeySet(recs)      == {recs[i].key : i \in DOMAIN recs}

\* The place of a new record: before the first one with a greater key.
PlaceOf(recs, r) ==
    CHOOSE i \in 1 .. Len(recs) + 1 :
        /\ i <= Len(recs) => recs[i].key > r.key
        /\ \A j \in 1 .. i - 1 : recs[j].key <= r.key

\* Variant: the shift stops one record early and the new one overwrites a record.
PlaceShiftsShort(recs, r) ==
    LET i == PlaceOf(recs, r)
    IN  SubSeq(recs, 1, i - 1) \o <<r>> \o SubSeq(recs, i + 1, Len(recs))

\* insert_payload_meta.
Place(recs, r) == InsertAt(recs, PlaceOf(recs, r), r)

\* btree_leaf_page::balance: single records move to the page with less payload
\* until it has half of it.  A record that does not fit is lost, as the result
\* of insert_payload is ignored; running out of records is an assertion.
BalanceLeaves(first, last) ==
    LET target  == (PayloadSize(first) + PayloadSize(last)) \div 2
        toFirst == PayloadSize(first) < PayloadSize(last)
        Taken(recs, r) ==
            IF Fits(recs, r.size) /\ r.key \notin KeySet(recs) THEN Place(recs, r) ELSE recs
        Filled(s) == IF toFirst THEN s.first ELSE s.last
        Moved(s) ==
            IF toFirst THEN [first |-> Taken(s.first, s.last[1]), last |-> Tail(s.last)]
                       ELSE [first |-> Front(s.first), last |-> Taken(s.last, Last(s.first))]
        moves == Len(IF toFirst THEN last ELSE first)
        after[n \in 0 .. moves] ==
            IF n = 0 THEN [first |-> first, last |-> last]
            ELSE IF PayloadSize(Filled(after[n - 1])) >= target THEN after[n - 1]
            ELSE Moved(after[n - 1])
    IN  [first |-> after[moves].first, last |-> after[moves].last,
         ok    |-> PayloadSize(Filled(after[moves])) >= target]

\* The assertions after the loops: both pages have records, in order.  With an
\* empty first page the code compares bytes of its header, with any outcome.
BalanceOk(b) ==
    /\ b.ok /\ b.last # <<>>
    /\ b.first # <<>> => Last(b.first).key < b.last[1].key
MayFail(b) == ~BalanceOk(b) \/ b.first = <<>>

\* btree_leaf_page::merge refuses pages whose records and metas do not fit, and
\* its caller asserts that no record was lost.
MergeOk(front, back) ==
    /\ HeaderSize + MetaSize * (Len(front) + Len(back))
         + PayloadSize(front) + PayloadSize(back) < PageSize
    /\ KeySet(front) \cap KeySet(back) = {}

\* The records of the back page are inserted one after the other.
MergedRecords(front, back) ==
    LET new[n \in 0 .. Len(back)] == IF n = 0 THEN front ELSE Place(new[n - 1], back[n])
    IN  new[Len(back)]

\* Variant: the front page keeps its own next_page.
MergedLeafKeepsNext(front, back) ==
    Leaf(front.prev, front.next, MergedRecords(front.recs, back.recs))

\* The front page after merge: it takes over the back page's successor.
MergedLeaf(front, back) ==
    Leaf(front.prev, back.next, MergedRecords(front.recs, back.recs))

\* delete_payload: a page with less payload than this is adjusted.
NeedAdjust(recs) == PayloadSize(recs) < PageSize \div 4
MergeWanted(front, back) ==
    PayloadSize(front) + PayloadSize(back) < (PageSize \div 4) * 3

-----------------------------------------------------------------------------
(* The pager and the free list                                             *)

Exists(no) == no \in 0 .. pageCount - 1
IsType(no, type) == Exists(no) /\ page[no].type = type

\* The arrays of keys the buffer of a new or a reused page may hold: a released
\* internal page keeps its own, and get_new_page clears nothing of its slot.
OldKeys(no) ==
    IF Exists(no) /\ page[no].type = "free" /\ page[no].keys # <<>>
    THEN {page[no].keys} ELSE Leftovers

\* allocate_page: from the free list, or a new page.
CanAllocate == free = 0 \/ IsType(free, "free")
Allocated   == IF free # 0 THEN free ELSE pageCount

\* free_pager_header has the next page in its second word, where release_page
\* has left the page's key_count or, in a leaf, its data_zone_offset.
Allocate ==
    IF free # 0 THEN /\ free' = page[free].word
                     /\ UNCHANGED pageCount
                ELSE /\ pageCount < MaxPages /\ pageCount' = pageCount + 1
                     /\ UNCHANGED free

\* release_page; the data zone of a leaf starts beyond any page number.
Released(no) ==
    [type |-> "free", next |-> free,
     keys |-> IF page[no].type = "internal" THEN page[no].keys ELSE <<>>,
     word |-> IF page[no].type = "internal" THEN page[no].count ELSE PageSize]

Abort(function) ==
    /\ pc' = "aborted"
    /\ fail' = function
    /\ UNCHANGED <<treeVars, disk, writing, op, stack, carry, upper, ops, torn, broken>>

Return ==
    /\ pc' = "idle"
    /\ op' = NoOp
    /\ stack' = <<>>
    /\ carry' = NoCarry
    /\ upper' = NoUpper

Quiet == UNCHANGED <<disk, writing, ops, fail, torn, broken>>

-----------------------------------------------------------------------------
(* Calls                                                                   *)

\* btree::open on a new file, committed: page 1 is an empty root leaf.
Init ==
    /\ page = [p \in PageNo |-> IF p = 1 THEN Leaf(0, 0, <<>>) ELSE Unused]
    /\ root = 1 /\ free = 0 /\ pageCount = 2
    /\ dirty = {}
    /\ disk = [page |-> page, root |-> root, free |-> free, pageCount |-> pageCount]
    /\ writing = FALSE
    /\ pc = "idle" /\ op = NoOp /\ stack = <<>> /\ carry = NoCarry /\ upper = NoUpper
    /\ ops \in Plans /\ fail = "none" /\ torn = FALSE /\ broken = FALSE

\* btree::enable_write.
EnableWrite ==
    /\ pc = "idle" /\ ~writing
    /\ writing' = TRUE
    /\ UNCHANGED <<treeVars, disk, callVars, ops, fail, torn, broken>>

\* Variant: the header is not copied to page 0.
CommitKeepsHeader ==
    /\ pc = "idle" /\ writing
    /\ SetUp
    /\ disk' = [disk EXCEPT
                  !.page = [p \in PageNo |-> IF p \in dirty THEN page[p] ELSE disk.page[p]],
                  !.pageCount = pageCount]
    /\ torn' = \E p \in PageNo \ dirty : page[p] # disk.page[p]
    /\ dirty' = {}
    /\ writing' = FALSE
    /\ UNCHANGED <<page, root, free, pageCount, callVars, ops, fail, broken>>

\* btree::commit, after which the file holds every marked page and the header.
Commit ==
    /\ pc = "idle" /\ writing
    /\ SetUp
    /\ disk' = [page |-> [p \in PageNo |-> IF p \in dirty THEN page[p] ELSE disk.page[p]],
                root |-> root, free |-> free, pageCount |-> pageCount]
    /\ torn' = \E p \in PageNo \ dirty : page[p] # disk.page[p]
    /\ dirty' = {}
    /\ writing' = FALSE
    /\ UNCHANGED <<page, root, free, pageCount, callVars, ops, fail, broken>>

Start(kind, key, size) ==
    /\ pc = "idle" /\ writing
    /\ pc' = "search"
    /\ op' = [kind |-> kind, key |-> key, size |-> size]
    /\ IF SetUp THEN key \in ops.keys /\ ops.more > 0 /\ ops' = [ops EXCEPT !.more = @ - 1]
                ELSE op' = Head(ops.calls) /\ ops' = [ops EXCEPT !.calls = Tail(@)]
    /\ stack' = <<root>>
    /\ UNCHANGED <<treeVars, disk, writing, carry, upper, fail, torn, broken>>

\* All keys in the leaves, for the callers' choice of keys only.
Stored == UNION {KeySet(page[p].recs) : p \in {q \in PageNo : page[q].type = "leaf"}}

\* btree::insert.
Insert(key, size) ==
    /\ key \in Stored => Repeats
    /\ Start("insert", key, size)

\* cursor::remove on a cursor that get_cursor(key) has placed on the key.
RemoveKey(key) ==
    /\ SetUp => Removals
    /\ key \in Stored
    /\ Start("remove", key, 0)

-----------------------------------------------------------------------------
(* search_page                                                             *)

Top == Last(stack)

\* An internal page: on to the child.
Descend ==
    /\ pc = "search"
    /\ Top > 0 /\ IsType(Top, "internal") /\ page[Top].count > 0
    /\ stack' = Append(stack, ChildFor(page[Top], op.key))
    /\ UNCHANGED <<treeVars, pc, op, carry, upper>> /\ Quiet

\* A leaf: enable_write, and insert_payload where the key is new and fits.
InsertIntoLeaf ==
    /\ pc = "search" /\ op.kind = "insert"
    /\ Top > 0 /\ IsType(Top, "leaf")
    /\ op.key \notin KeySet(page[Top].recs)
    /\ Fits(page[Top].recs, op.size)
    /\ page' = [page EXCEPT ![Top].recs = Place(@, [key |-> op.key, size |-> op.size])]
    /\ dirty' = dirty \cup {Top}
    /\ UNCHANGED <<root, free, pageCount>> /\ Return /\ Quiet

\* insert_to_full_leaf_page, taken for a full page and for a key that exists:
\* insert does not tell the two apart.
LeafFull ==
    /\ pc = "search" /\ op.kind = "insert"
    /\ Top > 0 /\ IsType(Top, "leaf")
    /\ op.key \in KeySet(page[Top].recs) \/ ~Fits(page[Top].recs, op.size)

\* Variant: the new leaf's prev_page is the page behind it.
NewLeafBeforeNext(front, next, recs) == Leaf(next, next, recs)

\* btree_leaf_page::init of the new leaf; the page behind it keeps its prev_page.
NewLeaf(front, next, recs) == Leaf(front, next, recs)

SplitLeaf ==
    /\ LeafFull /\ CanAllocate
    /\ LET no   == Allocated
           rec  == [key |-> op.key, size |-> op.size]
           b    == BalanceLeaves(page[Top].recs, <<>>)
           mid  == b.last[1].key
           goal == IF op.key > mid THEN b.last ELSE b.first
       IN  /\ BalanceOk(b)
           /\ op.key \notin KeySet(goal) /\ Fits(goal, op.size)
           /\ page' = [page EXCEPT
                 ![Top] = [@ EXCEPT !.next = no,
                              !.recs = IF op.key > mid THEN b.first ELSE Place(b.first, rec)],
                 ![no]  = NewLeaf(Top, page[Top].next,
                                  IF op.key > mid THEN Place(b.last, rec) ELSE b.last)]
           /\ dirty' = dirty \cup {Top, no}
           /\ carry' = [key |-> mid, front |-> Top, back |-> no]
    /\ Allocate
    /\ stack' = Front(stack)
    /\ pc' = "insert_up"
    /\ UNCHANGED <<root, op, upper>> /\ Quiet

-----------------------------------------------------------------------------
(* insert: the loop over the internal pages, from the bottom               *)

\* The separator goes into an internal page with room.
InsertIntoInternal ==
    /\ pc = "insert_up" /\ stack # <<>>
    /\ IsType(Top, "internal")
    /\ LET r == InsertKey(page[Top], carry.key, carry.front, carry.back)
       IN  /\ r.status = "ok"
           /\ page' = [page EXCEPT ![Top] = r.page]
    /\ dirty' = dirty \cup {Top}
    /\ UNCHANGED <<root, free, pageCount>> /\ Return /\ Quiet

\* insert_to_full_internal_page.
SplitHalves(old) ==
    LET no == Allocated
        s  == SplitPage(page[Top], Top, no, old)
        up == carry.key > s.key
    IN  [no |-> no, key |-> s.key,
         front |-> IF up THEN Ok(s.front)
                   ELSE InsertKey(s.front, carry.key, carry.front, carry.back),
         back  |-> IF up THEN InsertKey(s.back, carry.key, carry.front, carry.back)
                   ELSE Ok(s.back)]

InternalFull ==
    /\ pc = "insert_up" /\ stack # <<>>
    /\ IsType(Top, "internal") /\ page[Top].count = KeyCapacity

SplitInternal ==
    /\ InternalFull /\ CanAllocate
    /\ \E old \in OldKeys(Allocated) :
       LET h == SplitHalves(old)
       IN  /\ h.front.status = "ok" /\ h.back.status = "ok"
           /\ page' = [page EXCEPT ![Top] = h.front.page, ![h.no] = h.back.page]
           /\ dirty' = dirty \cup {Top, h.no}
           /\ carry' = [key |-> h.key, front |-> Top, back |-> h.no]
    /\ Allocate
    /\ stack' = Front(stack)
    /\ UNCHANGED <<root, pc, op, upper>> /\ Quiet

\* Every level was split: a new root above.
NewRoot ==
    /\ pc = "insert_up" /\ stack = <<>>
    /\ CanAllocate
    /\ \E old \in OldKeys(Allocated) :
       LET no == Allocated
           r  == InsertKey(InitPage(0, 0, old), carry.key, carry.front, carry.back)
       IN  /\ page' = [page EXCEPT ![no] = r.page]
           /\ dirty' = dirty \cup {no}
           /\ root' = no
    /\ Allocate
    /\ Return /\ Quiet

-----------------------------------------------------------------------------
(* cursor::remove and adjust_tree                                          *)

\* delete_payload; adjust_tree searches the same path again and does nothing
\* for a root leaf.
RemoveFromLeaf ==
    /\ pc = "search" /\ op.kind = "remove"
    /\ Top > 0 /\ IsType(Top, "leaf")
    /\ op.key \in KeySet(page[Top].recs)
    /\ LET at   == CHOOSE i \in DOMAIN page[Top].recs : page[Top].recs[i].key = op.key
           left == RemoveAt(page[Top].recs, at)
       IN  /\ page' = [page EXCEPT ![Top].recs = left]
           /\ IF NeedAdjust(left) /\ Len(stack) > 1
              THEN /\ pc' = "adjust_leaf"
                   /\ UNCHANGED <<op, stack, carry, upper>>
              ELSE Return
    /\ dirty' = dirty \cup {Top}
    /\ UNCHANGED <<root, free, pageCount>> /\ Quiet

\* obtain_nearby_page: the page and its right neighbour, for the last child
\* its left neighbour and the page.
Nearby(up, no) ==
    LET i == KidPosition(page[up].kids, no)
        j == IF i = page[up].count + 1 THEN i - 1 ELSE i
    IN  IF i = 0 THEN [found |-> FALSE, front |-> 0, back |-> 0]
        ELSE [found |-> TRUE, front |-> page[up].kids[j], back |-> page[up].kids[j + 1]]

Parent == stack[Len(stack) - 1]
Above  == SubSeq(stack, 1, Len(stack) - 2)
LeafPair == Nearby(Parent, Top)
LeafPairOk == LeafPair.found /\ IsType(LeafPair.front, "leaf") /\ IsType(LeafPair.back, "leaf")

\* adjust_nearby_leaf_page merges; the parent loses the back page, and nothing
\* marks the parent as written.
MergeLeaves ==
    /\ pc = "adjust_leaf" /\ LeafPairOk
    /\ LET f == LeafPair.front
           b == LeafPair.back
           r == RemoveKid(page[Parent], b)
       IN  /\ MergeWanted(page[f].recs, page[b].recs)
           /\ MergeOk(page[f].recs, page[b].recs)
           /\ r.status = "ok"
           /\ page' = [page EXCEPT
                 ![f] = MergedLeaf(@, page[b]),
                 ![b] = Released(b),
                 ![Parent] = r.page]
           /\ dirty' = dirty \cup {f, b}
           /\ free' = b
    /\ upper' = [pointer |-> Parent, no |-> Parent]
    /\ stack' = Above
    /\ pc' = "adjust_up"
    /\ UNCHANGED <<root, pageCount, op, carry>> /\ Quiet

\* Or balances them, and the key between them changes in the parent.
BalanceLeafPair ==
    /\ pc = "adjust_leaf" /\ LeafPairOk
    /\ LET f == LeafPair.front
           b == LeafPair.back
           s == BalanceLeaves(page[f].recs, page[b].recs)
           r == UpdateKey(page[Parent], s.last[1].key, f, b)
       IN  /\ ~MergeWanted(page[f].recs, page[b].recs)
           /\ BalanceOk(s)
           /\ r.status = "ok"
           /\ page' = [page EXCEPT ![f].recs = s.first, ![b].recs = s.last, ![Parent] = r.page]
           /\ dirty' = dirty \cup {f, b, Parent}
    /\ UNCHANGED <<root, free, pageCount>> /\ Return /\ Quiet

\* Variant: key_count as it was before the last child was removed.
PointerCountBefore ==
    IF page[upper.pointer].type = "internal" THEN page[upper.pointer].count + 1
    ELSE page[upper.pointer].word

\* upper_page->key_count.  The pointer stays on the parent of the leaves for
\* the whole loop, also when that page has been released meanwhile.
PointerCount ==
    IF page[upper.pointer].type = "internal" THEN page[upper.pointer].count
    ELSE page[upper.pointer].word

\* The loop ends early: the page upper_page points to has enough keys.
EnoughKeys ==
    /\ pc = "adjust_up" /\ stack # <<>>
    /\ PointerCount >= KeyCapacity \div 4
    /\ UNCHANGED treeVars /\ Return /\ Quiet

InternalPair == Nearby(Top, upper.no)
InternalPairOk ==
    LET p == InternalPair
    IN  /\ IsType(Top, "internal") /\ p.found
        /\ IsType(p.front, "internal") /\ IsType(p.back, "internal")
        /\ page[p.front].next = p.back /\ page[p.back].prev = p.front
        /\ PairPosition(page[Top], p.front, p.back) # 0
        /\ Mergeable(page[p.front], page[p.back],
                     page[Top].keys[PairPosition(page[Top], p.front, p.back)])

AdjustUp ==
    /\ pc = "adjust_up" /\ stack # <<>>
    /\ PointerCount < KeyCapacity \div 4

\* adjust_nearby_internal_page merges, and the loop goes on one level up.
MergeInternal ==
    /\ AdjustUp /\ InternalPairOk
    /\ LET f   == InternalPair.front
           b   == InternalPair.back
           key == page[Top].keys[PairPosition(page[Top], f, b)]
           r   == RemoveKid(page[Top], b)
       IN  /\ page[f].count + page[b].count + 1 < KeyCapacity
           /\ r.status = "ok"
           /\ page' = [page EXCEPT
                 ![f] = MergePages(page[f], page[b], key),
                 ![b] = Released(b),
                 ![Top] = r.page]
           /\ dirty' = dirty \cup {f, b, Top}
           /\ free' = b
    /\ upper' = [upper EXCEPT !.no = Top]
    /\ stack' = Front(stack)
    /\ UNCHANGED <<root, pageCount, pc, op, carry>> /\ Quiet

BalanceInternal ==
    /\ AdjustUp /\ InternalPairOk
    /\ LET f   == InternalPair.front
           b   == InternalPair.back
           i   == PairPosition(page[Top], f, b)
           s   == BalancePages(page[f], page[b], page[Top].keys[i])
       IN  /\ page[f].count + page[b].count + 1 >= KeyCapacity
           /\ page' = [page EXCEPT ![f] = s.front, ![b] = s.back, ![Top].keys[i] = s.key]
           /\ dirty' = dirty \cup {f, b, Top}
    /\ broken' = TRUE
    /\ UNCHANGED <<root, free, pageCount, disk, writing, ops, fail, torn>> /\ Return

\* The top is reached: a root without keys gives way to its only child.
TopReached ==
    /\ pc = "adjust_up" /\ stack = <<>>
    /\ IF PointerCount = 0 /\ page[upper.pointer].type = "internal"
       THEN /\ root' = page[upper.pointer].kids[1]
            /\ page' = [page EXCEPT ![upper.no] = Released(upper.no)]
            /\ dirty' = dirty \cup {upper.no}
            /\ free' = upper.no
            /\ UNCHANGED pageCount
       ELSE UNCHANGED treeVars
    /\ Return /\ Quiet

-----------------------------------------------------------------------------
(* Assertions that fail                                                    *)

SearchFails ==
    /\ pc = "search"
    /\ \/ Top = 0
       \/ ~(IsType(Top, "leaf") \/ IsType(Top, "internal"))
       \/ IsType(Top, "internal") /\ page[Top].count = 0
       \/ op.kind = "remove" /\ IsType(Top, "leaf") /\ op.key \notin KeySet(page[Top].recs)

AllocateFails ==
    /\ LeafFull \/ InternalFull \/ (pc = "insert_up" /\ stack = <<>>)
    /\ ~CanAllocate

LeafBalanceFails ==
    \/ LeafFull /\ CanAllocate /\ MayFail(BalanceLeaves(page[Top].recs, <<>>))
    \/ /\ pc = "adjust_leaf" /\ LeafPairOk
       /\ LET f == page[LeafPair.front].recs
              b == page[LeafPair.back].recs
          IN  ~MergeWanted(f, b) /\ MayFail(BalanceLeaves(f, b))

SplitLeafFails ==
    /\ LeafFull /\ CanAllocate
    /\ LET b    == BalanceLeaves(page[Top].recs, <<>>)
           goal == IF op.key > b.last[1].key THEN b.last ELSE b.first
       IN  BalanceOk(b) /\ (op.key \in KeySet(goal) \/ ~Fits(goal, op.size))

InsertFails ==
    /\ pc = "insert_up" /\ stack # <<>>
    /\ \/ ~IsType(Top, "internal")
       \/ InsertKey(page[Top], carry.key, carry.front, carry.back).status = "assert"
       \/ /\ InternalFull /\ CanAllocate
          /\ \E old \in OldKeys(Allocated) :
                SplitHalves(old).front.status # "ok" \/ SplitHalves(old).back.status # "ok"

MergeFails ==
    /\ pc = "adjust_leaf"
    /\ \/ ~LeafPairOk
       \/ LET f == page[LeafPair.front].recs
              b == page[LeafPair.back].recs
          IN  /\ MergeWanted(f, b)
              /\ ~MergeOk(f, b) \/ RemoveKid(page[Parent], LeafPair.back).status # "ok"

AdjustUpFails == AdjustUp /\ ~InternalPairOk

Fails ==
    [search_page |-> SearchFails, allocate_page |-> AllocateFails,
     balance |-> LeafBalanceFails, insert_to_full_leaf_page |-> SplitLeafFails,
     insert |-> InsertFails, adjust_nearby_leaf_page |-> MergeFails,
     adjust_nearby_internal_page |-> AdjustUpFails]

Aborts == \E function \in DOMAIN Fails : Fails[function] /\ Abort(function)

-----------------------------------------------------------------------------
(* The cache and the process                                               *)

\* A clean page leaves the cache between two calls and is read again later.
Evict(p) ==
    /\ pc = "idle" /\ SetUp
    /\ p \in 1 .. disk.pageCount - 1 /\ p \notin dirty /\ page[p] # disk.page[p]
    /\ page' = [page EXCEPT ![p] = disk.page[p]]
    /\ broken' = TRUE
    /\ UNCHANGED <<root, free, pageCount, dirty, disk, writing, callVars, ops, fail, torn>>

\* The process ends anywhere and the file is opened again.
Reopen ==
    /\ SetUp
    /\ <<writing, pc>> # <<FALSE, "idle">> \/ page # disk.page
    /\ page' = disk.page /\ root' = disk.root /\ free' = disk.free
    /\ pageCount' = disk.pageCount
    /\ dirty' = {}
    /\ writing' = FALSE
    /\ fail' = "none"
    /\ broken' = (broken \/ torn)
    /\ Return
    /\ UNCHANGED <<disk, ops, torn>>

InsertUp == InsertIntoInternal \/ SplitInternal \/ NewRoot
Adjust == MergeLeaves \/ BalanceLeafPair \/ EnoughKeys \/ MergeInternal \/ BalanceInternal \/ TopReached

Next ==
    \/ EnableWrite \/ Commit
    \/ \E k \in Keys : RemoveKey(k) \/ \E s \in Sizes : Insert(k, s)
    \/ Descend \/ InsertIntoLeaf \/ SplitLeaf \/ RemoveFromLeaf
    \/ InsertUp \/ Adjust \/ Aborts
    \/ \E p \in PageNo : Evict(p)
    \/ Reopen

Spec == Init /\ [][Next]_vars
=============================================================================
