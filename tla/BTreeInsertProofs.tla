------------------------- MODULE BTreeInsertProofs -------------------------
(***************************************************************************)
(* What holds of BTree.tla where callers only insert keys that are not     *)
(* there yet, for every capacity of a page, every set of keys and sizes    *)
(* and every number of calls and restarts: the file is a search tree of    *)
(* its own at every commit, a walk back along prev_page descends, a scan   *)
(* along next_page shows every record in the order of the keys, also in    *)
(* the middle of a call, and the tree implements the map of KeyStore.tla.  *)
(* With records of one size, or of sizes far below the page's (SizesSplit) *)
(* a split of a full leaf works and leaves none empty, no assertion of an  *)
(* insert fails, and the keys of internal pages ascend strictly.           *)
(***************************************************************************)
EXTENDS BTreeProofs

\* No internal page has 0 among its keys.
PositiveKeys(pages) == \A p \in InternalsOf(pages) : pages[p].count > 0 => pages[p].keys[1] # 0

\* As long as nothing is removed, every page that is not marked as written is as it is
\* in the file, so that no commit leaves one out and none is read back.
InsertsInv ==
    OnlyInserts =>
        /\ ~broken /\ ~torn
        /\ \A p \in PageNo \ dirty : page[p] = disk.page[p]
        /\ PositiveKeys(page) /\ PositiveKeys(disk.page)
        /\ pc = "insert_up" => carry.key # 0

\* The first keys of the halves of a page and of a page that takes in a key.
LEMMA SplitKeys ==
    ASSUME NEW pg \in InternalPages(PageNo), Formed(pg), pg.count >= 3, pg.keys[1] # 0,
           NEW no \in Nat, NEW p \in Nat, NEW old \in [Slots -> Nat], NEW s, s = SplitPage(pg, p, no, old)
    PROVE  s.key # 0 /\ s.front.keys[1] # 0 /\ s.back.keys[1] # 0
<1> DEFINE at == pg.count \div 2
           half == SubSeq(pg.keys, at + 2, pg.count)
<1>1. /\ pg.count \in Nat /\ pg.count <= KeyCapacity /\ KeyCapacity \in Nat /\ pg.keys \in [Slots -> Nat]
      /\ \A i \in 1 .. pg.count : pg.keys[i] \in Nat
  BY PageShape
<1>2. at \in Nat /\ at + 2 <= pg.count
  BY <1>1
<1>3. \A i \in 2 .. pg.count : pg.keys[1] <= pg.keys[i]
  <2> TAKE i \in 2 .. pg.count
  <2>1. 1 \in 1 .. pg.count /\ i \in 1 .. pg.count /\ 1 < i
    BY <1>1
  <2>2. \A j, k \in 1 .. pg.count : j < k => pg.keys[j] <= pg.keys[k]
    BY DEF Formed
  <2> QED
    BY <2>1, <2>2
<1>4. pg.keys[at + 1] # 0 /\ pg.keys[at + 2] # 0
  <2>1. at + 1 \in 2 .. pg.count /\ at + 2 \in 2 .. pg.count /\ 1 \in 1 .. pg.count
    BY <1>1, <1>2
  <2>2. pg.keys[at + 1] \in Nat /\ pg.keys[at + 2] \in Nat /\ pg.keys[1] \in Nat
    BY <1>1, <2>1
  <2> HIDE DEF at
  <2> QED
    BY <1>3, <2>1, <2>2
<1>5. s.key = pg.keys[at + 1] /\ s.front.keys = pg.keys
  <2>1. pg.keys \in [Slots -> Nat] /\ pg = [type |-> pg.type, next |-> pg.next, prev |-> pg.prev,
                  count |-> pg.count, keys |-> pg.keys, kids |-> pg.kids]
    BY DEF InternalPages
  <2> QED
    BY <2>1 DEF SplitPage
<1>6. s.back.keys = Overwrite(old, 1, half)
  BY DEF SplitPage, InitPage
<1>7. half \in Seq(Nat) /\ Len(half) > 0 /\ half[1] = pg.keys[at + 2]
  <2> DEFINE m == at + 2
             n == pg.count
  <2>1. m \in Nat \ {0} /\ n \in Nat /\ n <= KeyCapacity /\ m <= n + 1 /\ n + 1 - m > 0 /\ 1 \in 1 .. n + 1 - m
        /\ m + 1 - 1 = m
    BY <1>1, <1>2
  <2> HIDE DEF m, n
  <2>2. /\ SubSeq(pg.keys, m, n) \in Seq(Nat) /\ Len(SubSeq(pg.keys, m, n)) = n + 1 - m
        /\ \A j \in 1 .. n + 1 - m : SubSeq(pg.keys, m, n)[j] = pg.keys[m + j - 1]
    BY <1>1, <2>1, SlotsRead, ZenonT(40)
  <2>3. SubSeq(pg.keys, m, n)[1] = pg.keys[m]
    BY <2>1, <2>2
  <2> QED
    BY <2>1, <2>2, <2>3 DEF m, n
<1>8. Overwrite(old, 1, half)[1] = half[1]
  <2> DEFINE one == 1
  <2>1. one \in Nat \ {0} /\ one \in Slots /\ one <= one /\ one - one < Len(half) /\ one - one + 1 = 1
    <3> HIDE DEF half
    <3> QED
      BY <1>7, InternalPageAssumption DEF Slots
  <2> HIDE DEF one, half
  <2>0. half \in Seq(Nat) /\ one \in Nat \ {0} /\ old \in [Slots -> Nat]
    BY <1>7, <2>1
  <2>2. /\ Overwrite(old, one, half) \in [Slots -> Nat]
        /\ \A j \in Slots : /\ j < one => Overwrite(old, one, half)[j] = old[j]
                            /\ one <= j /\ j - one < Len(half) => Overwrite(old, one, half)[j] = half[j - one + 1]
    BY <2>0, Overwritten
  <2>3. Overwrite(old, one, half)[one] = half[1]
    BY <2>1, <2>2
  <2> QED
    BY <2>3 DEF one
<1> HIDE DEF at, half
<1> QED
  BY <1>4, <1>5, <1>6, <1>7, <1>8

LEMMA InsertedKeys ==
    ASSUME NEW pg \in InternalPages(PageNo), Formed(pg), pg.count > 0, pg.keys[1] # 0,
           NEW key \in Nat, key # 0, NEW front \in PageNo, NEW back \in PageNo,
           InsertKey(pg, key, front, back).status = "ok",
           NEW np, np = InsertKey(pg, key, front, back).page
    PROVE  np.keys[1] # 0
<1> DEFINE P == PageNo
<1>1. /\ pg \in InternalPages(P) /\ Formed(pg) /\ pg.count > 0 /\ key \in Nat /\ front \in P /\ back \in P
      /\ InsertKey(pg, key, front, back).status = "ok" /\ np = InsertKey(pg, key, front, back).page
  OBVIOUS
<1> HIDE DEF P
<1>2. np.keys[1] = pg.keys[1] \/ np.keys[1] = key
  BY <1>1, InsertKeyFirst
<1> QED
  BY <1>2

\* A step that marks what it writes, and writes no page with a key 0.
LEMMA InsertWrites ==
    ASSUME InsertsInv, OnlyInserts, Quiet, NEW changed, dirty' = dirty \cup changed,
           \A q \in PageNo : q \notin changed => page'[q] = page[q],
           \A q \in changed : page'[q].type = "internal" => page'[q].keys[1] # 0,
           pc' = "insert_up" => carry'.key # 0
    PROVE  InsertsInv'
<1>1. /\ ~broken' /\ ~torn' /\ disk' = disk
      /\ \A p \in PageNo \ dirty : page[p] = disk.page[p]
      /\ PositiveKeys(page) /\ PositiveKeys(disk.page)
  BY DEF InsertsInv, Quiet
<1>2. \A p \in PageNo \ dirty' : page'[p] = disk'.page[p]
  BY <1>1
<1>3. PositiveKeys(page')
  BY <1>1 DEF PositiveKeys, InternalsOf
<1> QED
  BY <1>1, <1>2, <1>3 DEF InsertsInv

\* What is known of the page an insert is at.
LEMMA InsertAtTop ==
    ASSUME IInv, ~broken, InsertsInv, OnlyInserts, pc = "insert_up", stack # <<>>, IsType(Top, "internal")
    PROVE  /\ Top \in PageNo /\ Top \in Nat /\ page[Top] \in InternalPages(PageNo) /\ Formed(page[Top])
           /\ page[Top].count > 0 /\ page[Top].keys[1] # 0
           /\ carry.key \in Nat /\ carry.key # 0 /\ carry.front \in PageNo /\ carry.back \in PageNo
           /\ page \in [PageNo -> Pages] /\ FileOK
<1>1. PICK range, level : Calling(range, level)
  BY DEF IInv
<1>2. /\ Tree(page, root, carry, range, level) /\ Path(page, stack, root, level)
      /\ carry # NoCarry /\ FedOK(page, level, {})
  BY <1>1, CallingAt DEF InsertingUp
<1>3. FileOK
  BY DEF IInv
<1>4. Top \in UsedIn(page) /\ Top \in PageNo /\ Top \in Nat /\ page[Top].type = "internal"
  BY <1>2, <1>3, AtTop
<1>5. page[Top] \in InternalPages(PageNo) /\ Formed(page[Top]) /\ page \in [PageNo -> Pages]
  BY <1>2, <1>4, TreeKnows
<1>6. page[Top].count > 0
  <2>1. page[Top].count \in Nat
    BY <1>5, PageShape
  <2>2. page[Top].count # 0
    BY <1>2, <1>4 DEF FedOK, InternalsOf
  <2> QED
    BY <2>1, <2>2
<1>7. page[Top].keys[1] # 0 /\ carry.key # 0
  BY <1>4, <1>6 DEF InsertsInv, PositiveKeys, InternalsOf
<1>8. carry.key \in Nat /\ carry.front \in PageNo /\ carry.back \in PageNo
  <2>1. Shaped(UsedIn(page), KidsOf(page), root, carry, range, level)
    BY <1>2, TreeKnows
  <2>2. carry.front \in UsedIn(page) /\ carry.back \in UsedIn(page) /\ carry.key \in Nat
    BY <1>2, <2>1, ShapeKids
  <2> QED
    BY <2>2 DEF UsedIn
<1> QED
  BY <1>3, <1>4, <1>5, <1>6, <1>7, <1>8

\* Leaves have no such keys.
LEMMA InsertLeafKeys ==
    ASSUME IInv, ~broken, InsertsInv, OnlyInserts, InsertIntoLeaf \/ SplitLeaf
    PROVE  InsertsInv'
<1>1. PICK range, level : Calling(range, level)
  BY DEF IInv
<1>2. pc = "search" /\ page[Top].type = "leaf"
  BY DEF InsertIntoLeaf, SplitLeaf, LeafFull, IsType
<1>3. SearchOK(page, stack, op, range) /\ Tree(page, root, carry, range, level) /\ Path(page, stack, root, level)
  BY <1>1, <1>2, CallingAt DEF Searching
<1>4. FileOK /\ stack # <<>>
  BY <1>3 DEF IInv, SearchOK
<1>5. Top \in UsedIn(page) /\ Top \in PageNo
  BY <1>3, <1>4, AtTop
<1>6. /\ page[Top] \in LeafPages /\ page[Top].recs \in Sorted /\ page \in [PageNo -> Pages]
  BY <1>2, <1>3, <1>5, TreeKnows
<1>7. CASE InsertIntoLeaf
  <2> DEFINE recs == Place(page[Top].recs, [key |-> op.key, size |-> op.size])
             changed == {Top}
  <2>1. /\ page' = [page EXCEPT ![Top].recs = recs] /\ dirty' = dirty \cup changed /\ Return /\ Quiet
    BY <1>5, <1>6, <1>7 DEF InsertIntoLeaf
  <2> HIDE DEF recs
  <2>2. page'[Top].type = "leaf" /\ \A q \in PageNo : q \notin changed => page'[q] = page[q]
    BY <1>2, <1>5, <1>6, <2>1 DEF LeafPages
  <2>3. /\ \A q \in changed : page'[q].type = "internal" => page'[q].keys[1] # 0
        /\ pc' = "insert_up" => carry'.key # 0
    BY <2>1, <2>2 DEF Return
  <2> HIDE DEF changed
  <2> QED
    BY <2>1, <2>2, <2>3, InsertWrites
<1>8. CASE SplitLeaf
  <2> DEFINE no   == Allocated
             recs == page[Top].recs
             b    == BalanceLeaves(recs, <<>>)
             mid  == b.last[1].key
             rec  == [key |-> op.key, size |-> op.size]
             new1 == IF op.key > mid THEN b.first ELSE Place(b.first, rec)
             new2 == IF op.key > mid THEN Place(b.last, rec) ELSE b.last
             changed == {Top, no}
  <2>1. /\ CanAllocate /\ Allocate /\ BalanceOk(b)
        /\ page' = [page EXCEPT ![Top] = [@ EXCEPT !.next = no, !.recs = new1],
                                ![no] = NewLeaf(Top, page[Top].next, new2)]
        /\ dirty' = dirty \cup changed /\ carry' = [key |-> mid, front |-> Top, back |-> no] /\ Quiet
    BY <1>8 DEF SplitLeaf
  <2>2. b.first \in Sorted /\ b.last \in Sorted /\ KeySet(b.first) \cup KeySet(b.last) \subseteq KeySet(recs)
    <3>1. <<>> \in Sorted /\ KeySet(<<>>) = {}
      BY DEF Sorted, Ascends, KeySet
    <3>2. recs \in Sorted
      BY <1>6
    <3> HIDE DEF recs
    <3> QED
      BY <3>1, <3>2, BalancedSorted
  <2>3. mid \in Nat \ {0}
    BY <2>1, <2>2, BalancedApart
  <2>4. no \in PageNo /\ no # Top
    <3>1. no \in PageNo /\ no \notin UsedIn(page)
      BY <1>4, <1>6, <2>1, Allocates
    <3> QED
      BY <1>5, <3>1
  <2> HIDE DEF b, no, new1, new2
  <2>5. /\ page'[Top].type = "leaf" /\ page'[no].type = "leaf"
        /\ \A q \in PageNo : q \notin changed => page'[q] = page[q]
    BY <1>2, <1>5, <1>6, <2>1, <2>4 DEF LeafPages, NewLeaf, Leaf
  <2>6. /\ \A q \in changed : page'[q].type = "internal" => page'[q].keys[1] # 0
        /\ pc' = "insert_up" => carry'.key # 0
    BY <2>1, <2>3, <2>5
  <2> HIDE DEF changed
  <2> QED
    BY <2>1, <2>5, <2>6, InsertWrites
<1> QED
  BY <1>7, <1>8

\* Nor have internal pages, as none has been handed up.
LEMMA InsertInternalKeys ==
    ASSUME IInv, ~broken, InsertsInv, OnlyInserts, InsertIntoInternal
    PROVE  InsertsInv'
<1> DEFINE np == InsertKey(page[Top], carry.key, carry.front, carry.back).page
           changed == {Top}
<1>1. /\ pc = "insert_up" /\ stack # <<>> /\ IsType(Top, "internal")
      /\ InsertKey(page[Top], carry.key, carry.front, carry.back).status = "ok"
      /\ page' = [page EXCEPT ![Top] = np] /\ dirty' = dirty \cup changed /\ Return /\ Quiet
  BY DEF InsertIntoInternal
<1>2. /\ Top \in PageNo /\ page[Top] \in InternalPages(PageNo) /\ Formed(page[Top])
      /\ page[Top].count > 0 /\ page[Top].keys[1] # 0 /\ page \in [PageNo -> Pages]
      /\ carry.key \in Nat /\ carry.key # 0 /\ carry.front \in PageNo /\ carry.back \in PageNo
  BY <1>1, InsertAtTop
<1>3. np.keys[1] # 0
  BY <1>1, <1>2, InsertedKeys
<1> HIDE DEF np
<1>4. /\ \A q \in PageNo : q \notin changed => page'[q] = page[q]
      /\ \A q \in changed : page'[q].type = "internal" => page'[q].keys[1] # 0
      /\ pc' = "insert_up" => carry'.key # 0
  BY <1>1, <1>2, <1>3 DEF Return
<1> HIDE DEF changed
<1> QED
  BY <1>1, <1>4, InsertWrites

LEMMA SplitInternalKeys ==
    ASSUME IInv, ~broken, InsertsInv, OnlyInserts, SplitInternal
    PROVE  InsertsInv'
<1>0. PICK old \in OldKeys(Allocated) :
          LET h == SplitHalves(old)
          IN  /\ h.front.status = "ok" /\ h.back.status = "ok"
              /\ page' = [page EXCEPT ![Top] = h.front.page, ![h.no] = h.back.page]
              /\ dirty' = dirty \cup {Top, h.no}
              /\ carry' = [key |-> h.key, front |-> Top, back |-> h.no]
      BY DEF SplitInternal
<1> DEFINE no  == Allocated
           s   == SplitPage(page[Top], Top, no, old)
           pg1 == SplitHalves(old).front.page
           pg2 == SplitHalves(old).back.page
           changed == {Top, no}
<1>1. /\ pc = "insert_up" /\ stack # <<>> /\ IsType(Top, "internal") /\ page[Top].count = KeyCapacity
      /\ CanAllocate /\ Allocate /\ SplitHalves(old).front.status = "ok" /\ SplitHalves(old).back.status = "ok"
      /\ page' = [page EXCEPT ![Top] = pg1, ![no] = pg2]
      /\ dirty' = dirty \cup changed /\ carry' = [key |-> s.key, front |-> Top, back |-> no] /\ Quiet
  BY <1>0 DEF SplitInternal, InternalFull, SplitHalves
<1>2. /\ Top \in PageNo /\ Top \in Nat /\ page[Top] \in InternalPages(PageNo) /\ Formed(page[Top])
      /\ page[Top].keys[1] # 0 /\ page \in [PageNo -> Pages] /\ FileOK
      /\ carry.key \in Nat /\ carry.key # 0 /\ carry.front \in PageNo /\ carry.back \in PageNo
  BY <1>1, InsertAtTop
<1>3. no \in PageNo /\ no \in Nat
  <2>1. no \in PageNo
    BY <1>1, <1>2, Allocates
  <2> QED
    BY <2>1 DEF PageNo
<1>4. old \in [Slots -> Nat] /\ page[Top].count >= 3
  BY <1>0, <1>1, <1>2, <1>3, OldKeysAre, InternalPageAssumption
<1> HIDE DEF no
<1>5. /\ s.key # 0 /\ s.front.keys[1] # 0 /\ s.back.keys[1] # 0
  BY <1>2, <1>3, <1>4, SplitKeys
<1>6. /\ s.front \in InternalPages(PageNo) /\ s.back \in InternalPages(PageNo)
      /\ s.front.count > 0 /\ s.back.count > 0 /\ Formed(s.front) /\ Formed(s.back)
  <2>1. PICK range, level : Calling(range, level)
    BY DEF IInv
  <2>2. Tree(page, root, carry, range, level)
    BY <2>1, <1>1, CallingAt
  <2> DEFINE R == range[Top]
             held == Whole(carry, range)
  <2>3. range \in [PageNo -> SUBSET Nat] /\ Divides(page[Top], R, held)
    BY <1>1, <1>2, <2>2, TreeKnows DEF IsType
  <2>4. R \in SUBSET Nat
    BY <1>2, <2>3
  <2>5. s = SplitPage(page[Top], Top, no, old)
    OBVIOUS
  <2> DEFINE pg == page[Top]
             p  == Top
  <2> HIDE DEF R, held, s
  <2>6. /\ pg \in InternalPages(PageNo) /\ Formed(pg) /\ pg.count >= 3
        /\ p \in Nat /\ no \in Nat /\ old \in [Slots -> Nat] /\ R \in SUBSET Nat
        /\ Divides(pg, R, held) /\ s = SplitPage(pg, p, no, old)
    BY <1>2, <1>3, <1>4, <2>3, <2>4, <2>5
  <2> HIDE DEF pg, p
  <2>7. /\ s.key \in Nat /\ s.front \in InternalPages(PageNo) /\ s.back \in InternalPages(PageNo)
        /\ s.front.count > 0 /\ s.back.count > 0
    BY <2>6, SplitPageDivides
  <2>8. Formed(s.front) /\ Formed(s.back)
    BY <2>6, SplitPageDivides
  <2> QED
    BY <2>7, <2>8
<1>7. pg1.keys[1] # 0 /\ pg2.keys[1] # 0
  <2>1. CASE carry.key > s.key
    <3>1. SplitHalves(old).front = Ok(s.front) /\ SplitHalves(old).back = InsertKey(s.back, carry.key, carry.front, carry.back)
      BY <2>1 DEF SplitHalves, no
    <3>2. pg1 = s.front
      BY <3>1 DEF Ok
    <3>3. /\ InsertKey(s.back, carry.key, carry.front, carry.back).status = "ok"
          /\ pg2 = InsertKey(s.back, carry.key, carry.front, carry.back).page
      BY <1>1, <3>1
    <3> HIDE DEF s, pg1, pg2
    <3>4. pg2.keys[1] # 0
      BY <1>2, <1>5, <1>6, <3>3, InsertedKeys
    <3> QED
      BY <1>5, <3>2, <3>4
  <2>2. CASE ~(carry.key > s.key)
    <3>1. SplitHalves(old).back = Ok(s.back) /\ SplitHalves(old).front = InsertKey(s.front, carry.key, carry.front, carry.back)
      BY <2>2 DEF SplitHalves, no
    <3>2. pg2 = s.back
      BY <3>1 DEF Ok
    <3>3. /\ InsertKey(s.front, carry.key, carry.front, carry.back).status = "ok"
          /\ pg1 = InsertKey(s.front, carry.key, carry.front, carry.back).page
      BY <1>1, <3>1
    <3> HIDE DEF s, pg1, pg2
    <3>4. pg1.keys[1] # 0
      BY <1>2, <1>5, <1>6, <3>3, InsertedKeys
    <3> QED
      BY <1>5, <3>2, <3>4
  <2> QED
    BY <2>1, <2>2
<1> HIDE DEF s, pg1, pg2
<1>8. /\ \A q \in PageNo : q \notin changed => page'[q] = page[q]
      /\ \A q \in changed : page'[q].type = "internal" => page'[q].keys[1] # 0
      /\ pc' = "insert_up" => carry'.key # 0
  BY <1>1, <1>2, <1>3, <1>5, <1>7
<1> HIDE DEF changed
<1> QED
  BY <1>1, <1>8, InsertWrites

LEMMA NewRootKeys ==
    ASSUME IInv, ~broken, InsertsInv, OnlyInserts, NewRoot
    PROVE  InsertsInv'
<1>0. PICK old \in OldKeys(Allocated) :
          page' = [page EXCEPT ![Allocated] =
                      InsertKey(InitPage(0, 0, old), carry.key, carry.front, carry.back).page]
      BY DEF NewRoot
<1> DEFINE no  == Allocated
           np  == InsertKey(InitPage(0, 0, old), carry.key, carry.front, carry.back).page
           changed == {no}
<1>1. /\ pc = "insert_up" /\ CanAllocate /\ Allocate /\ page' = [page EXCEPT ![no] = np]
      /\ dirty' = dirty \cup changed /\ Return /\ Quiet
  BY <1>0 DEF NewRoot
<1>2. page \in [PageNo -> Pages] /\ FileOK
  <2>1. PICK range, level : Calling(range, level)
    BY DEF IInv
  <2>2. Tree(page, root, carry, range, level)
    BY <2>1, CallingAt
  <2> QED
    BY <2>2, TreeKnows DEF IInv
<1>3. no \in PageNo
  BY <1>1, <1>2, Allocates
<1>4. old \in [Slots -> Nat]
  BY <1>0, <1>2, <1>3, OldKeysAre
<1>5. np.keys[1] = carry.key /\ carry.key # 0
  <2>1. 1 \in Slots /\ 0 # KeyCapacity
    BY InternalPageAssumption DEF Slots
  <2>2. np.keys = [old EXCEPT ![1] = carry.key]
    BY <2>1 DEF InsertKey, InitPage, Ok
  <2> HIDE DEF np
  <2> QED
    BY <1>1, <1>4, <2>1, <2>2 DEF InsertsInv
<1> HIDE DEF no, np
<1>6. /\ \A q \in PageNo : q \notin changed => page'[q] = page[q]
      /\ \A q \in changed : page'[q].type = "internal" => page'[q].keys[1] # 0
      /\ pc' = "insert_up" => carry'.key # 0
  BY <1>1, <1>2, <1>3, <1>5 DEF Return
<1> HIDE DEF changed
<1> QED
  BY <1>1, <1>6, InsertWrites

\* Steps that write nothing.
LEMMA InsertsSame ==
    ASSUME InsertsInv, page' = page, dirty' = dirty, disk' = disk, torn' = torn, broken' = broken,
           pc' = "insert_up" => pc = "insert_up" /\ carry' = carry
    PROVE  InsertsInv'
BY DEF InsertsInv, PositiveKeys, InternalsOf, OnlyInserts

LEMMA InsertsInit == Init => InsertsInv
<1> SUFFICES ASSUME Init PROVE InsertsInv
  OBVIOUS
<1>1. /\ page = [p \in PageNo |-> IF p = 1 THEN Leaf(0, 0, <<>>) ELSE Unused]
      /\ disk.page = page /\ pc = "idle" /\ torn = FALSE /\ broken = FALSE
  BY DEF Init
<1>2. InternalsOf(page) = {}
  BY <1>1 DEF InternalsOf, Leaf, Unused
<1> QED
  BY <1>1, <1>2 DEF InsertsInv, PositiveKeys

LEMMA InsertsStep ==
    ASSUME ~Repeats, IInv, InsertsInv, [Next]_vars
    PROVE  InsertsInv'
<1> SUFFICES ASSUME OnlyInserts PROVE InsertsInv'
  BY DEF InsertsInv, OnlyInserts
<1>1. /\ ~broken /\ ~torn /\ \A p \in PageNo \ dirty : page[p] = disk.page[p]
      /\ PositiveKeys(page) /\ PositiveKeys(disk.page)
  BY DEF InsertsInv
<1>2. PICK range, level : Calling(range, level)
  BY <1>1 DEF IInv
<1>3. page \in [PageNo -> Pages] /\ pc # "adjust_leaf" /\ pc # "adjust_up" /\ (pc = "search" => op.kind # "remove")
  <2>1. Tree(page, root, carry, range, level)
    BY <1>2, CallingAt
  <2>2. page \in [PageNo -> Pages]
    BY <2>1, TreeKnows
  <2> QED
    BY <1>2, <2>2, CallingAt DEF Searching, SearchOK, AdjustingLeaf, AdjustingUp
<1>4. CASE EnableWrite
  BY <1>4, InsertsSame DEF EnableWrite, treeVars, callVars
<1>5. CASE Commit
  <2>1. /\ disk'.page = [p \in PageNo |-> IF p \in dirty THEN page[p] ELSE disk.page[p]]
        /\ torn' = \E p \in PageNo \ dirty : page[p] # disk.page[p]
        /\ page' = page /\ broken' = broken /\ pc' = pc /\ pc = "idle"
    BY <1>5 DEF Commit, callVars
  <2>2. disk'.page = page
    BY <1>1, <1>3, <2>1
  <2>3. ~torn'
    BY <1>1, <2>1
  <2> QED
    BY <1>1, <2>1, <2>2, <2>3 DEF InsertsInv
<1>6. ASSUME NEW kind, NEW key, NEW size, Start(kind, key, size) PROVE InsertsInv'
  BY <1>6, InsertsSame DEF Start, treeVars
<1>7. ASSUME NEW k \in Keys, RemoveKey(k) PROVE InsertsInv'
  BY <1>6, <1>7 DEF RemoveKey
<1>8. ASSUME NEW k \in Keys, NEW s \in Sizes, Insert(k, s) PROVE InsertsInv'
  BY <1>6, <1>8 DEF Insert
<1>9. CASE Descend
  BY <1>9, InsertsSame DEF Descend, Quiet, treeVars
<1>10. CASE InsertIntoLeaf \/ SplitLeaf
  BY <1>1, <1>10, InsertLeafKeys
<1>11. CASE RemoveFromLeaf
  BY <1>3, <1>11 DEF RemoveFromLeaf
<1>12. CASE InsertUp
  BY <1>1, <1>12, InsertInternalKeys, SplitInternalKeys, NewRootKeys DEF InsertUp
<1>13. CASE Adjust
  BY <1>3, <1>13 DEF Adjust, MergeLeaves, BalanceLeafPair, EnoughKeys, MergeInternal, AdjustUp, BalanceInternal, TopReached
<1>14. CASE Aborts
  <2>1. PICK function : Abort(function)
    BY <1>14 DEF Aborts
  <2> QED
    BY <2>1, InsertsSame DEF Abort, treeVars
<1>15. ASSUME NEW p \in PageNo, Evict(p) PROVE InsertsInv'
  BY <1>1, <1>15 DEF Evict
<1>16. CASE Reopen
  BY <1>1, <1>16 DEF Reopen, Return, InsertsInv
<1>17. CASE UNCHANGED vars
  BY <1>17, InsertsSame DEF vars, treeVars, callVars
<1> QED
  BY <1>4, <1>5, <1>7, <1>8, <1>9, <1>10, <1>11, <1>12, <1>13, <1>14, <1>15, <1>16, <1>17 DEF Next

\* As long as records are only inserted, every commit writes all that has changed, so that
\* no page is ever read back that a commit left out.
THEOREM InsertsInvariant == ASSUME ~Repeats PROVE Spec => []InsertsInv
<1>1. Init => InsertsInv
  BY InsertsInit
<1>2. ASSUME IInv, InsertsInv, [Next]_vars PROVE InsertsInv'
  BY <1>2, InsertsStep
<1> QED
  BY <1>1, <1>2, BTreeInvariant, PTL DEF Spec

\* DurableFindable: after a run of inserts, at every moment and also in the middle of a
\* split, search_page finds every committed record of the file as it is.
THEOREM DurableFindableAlways == ASSUME ~Repeats, OnlyInserts PROVE Spec => []DurableFindable
<1>1. IInv /\ InsertsInv => DurableFindable
  <2> SUFFICES ASSUME IInv, InsertsInv PROVE AllFindable(disk.page, disk.root)
    BY DEF DurableFindable
  <2>1. ~broken /\ ~torn
    BY DEF InsertsInv
  <2>2. PICK range, level : Resting(disk.page, disk.root, range, level)
    BY <2>1 DEF IInv, DiskOK
  <2>3. Starved(disk.page) = {}
    BY <2>2 DEF Resting, FedOK, Starved
  <2> QED
    BY <2>2, <2>3, RestingFindable
<1> QED
  BY <1>1, BTreeInvariant, InsertsInvariant, PTL

\* The way down to the first leaf.
FirstDown(down, pages) ==
    \A d \in 0 .. MaxPages : \A no \in PageNo :
        down[d][no] = IF d > 0 /\ pages[no].type = "internal" THEN down[d - 1][pages[no].kids[1]] ELSE no

LEMMA FirstLeafDown ==
    ASSUME NEW pages, \A p \in InternalsOf(pages) : pages[p].kids[1] \in PageNo
    PROVE  \E down : FirstDown(down, pages) /\ \A from : FirstLeaf(pages, from) = down[MaxPages][from]
<1> DEFINE Is(h) == h = [d \in 0 .. MaxPages |->
                            [no \in PageNo |->
                                IF d > 0 /\ pages[no].type = "internal" THEN h[d - 1][pages[no].kids[1]] ELSE no]]
           down == CHOOSE h : Is(h)
           inner == InternalsOf(pages)
           child == [p \in inner |-> pages[p].kids[1]]
<1>1. \A no \in inner : no \in PageNo /\ child[no] \in PageNo
  BY DEF InternalsOf
<1>2. PICK h : Descends(h, inner, child)
  <2> HIDE DEF inner, child
  <2> QED
    BY <1>1, Descent
<1>3. Is(h)
  <2>1. \A no \in PageNo : no \in inner <=> pages[no].type = "internal"
    BY DEF InternalsOf
  <2>2. \A no \in inner : child[no] = pages[no].kids[1]
    OBVIOUS
  <2> HIDE DEF inner, child
  <2>3. \A d \in 0 .. MaxPages : \A no \in PageNo :
           (IF d > 0 /\ no \in inner THEN h[d - 1][child[no]] ELSE no)
             = IF d > 0 /\ pages[no].type = "internal" THEN h[d - 1][pages[no].kids[1]] ELSE no
    BY <2>1, <2>2
  <2>4. [d \in 0 .. MaxPages |->
            [no \in PageNo |-> IF d > 0 /\ no \in inner THEN h[d - 1][child[no]] ELSE no]]
        = [d \in 0 .. MaxPages |->
              [no \in PageNo |->
                  IF d > 0 /\ pages[no].type = "internal" THEN h[d - 1][pages[no].kids[1]] ELSE no]]
    BY <2>3
  <2>5. h = [d \in 0 .. MaxPages |->
                [no \in PageNo |-> IF d > 0 /\ no \in inner THEN h[d - 1][child[no]] ELSE no]]
    BY <1>2 DEF Descends
  <2> QED
    BY <2>4, <2>5
<1>4. Is(down)
  <2> HIDE DEF Is
  <2> QED
    BY <1>3
<1>5. \A from : FirstLeaf(pages, from) = down[MaxPages][from]
  BY DEF FirstLeaf
<1> HIDE DEF down
<1>6. FirstDown(down, pages)
  <2> SUFFICES ASSUME NEW d \in 0 .. MaxPages, NEW no \in PageNo
               PROVE  down[d][no] = IF d > 0 /\ pages[no].type = "internal"
                                    THEN down[d - 1][pages[no].kids[1]] ELSE no
    BY DEF FirstDown
  <2>1. down[d] = [q \in PageNo |->
                      IF d > 0 /\ pages[q].type = "internal" THEN down[d - 1][pages[q].kids[1]] ELSE q]
    BY <1>4
  <2> QED
    BY <2>1
<1> QED
  BY <1>5, <1>6

\* The first child of a page whose range has 0 has it too.
LEMMA FirstChild ==
    ASSUME NEW pages, NEW r, NEW c, NEW range, NEW level, Tree(pages, r, c, range, level),
           PositiveKeys(pages), c # NoCarry => c.key # 0,
           NEW p \in InternalsOf(pages), 0 \in range[p]
    PROVE  0 \in range[pages[p].kids[1]]
<1> DEFINE pg == pages[p]
           k  == pg.kids[1]
<1>1. p \in PageNo /\ pages[p].type = "internal"
  BY DEF InternalsOf
<1>2. /\ pg \in InternalPages(PageNo) /\ Formed(pg) /\ Divides(pg, range[p], Whole(c, range))
      /\ range \in [PageNo -> SUBSET Nat]
  BY <1>1, TreeKnows
<1>3. pg.count \in Nat /\ Len(pg.kids) = pg.count + 1 /\ DOMAIN pg.kids = 1 .. Len(pg.kids)
      /\ \A i \in 1 .. pg.count : pg.keys[i] \in Nat
  BY <1>2, PageShape DEF Formed
<1>4. 1 \in DOMAIN pg.kids
  BY <1>3
<1>5. 0 \in Share(range[p], pg, 1)
  <2>1. CASE pg.count = 0
    BY <2>1 DEF Share
  <2>2. CASE pg.count # 0
    <3>1. pg.count > 0 /\ 1 \in 1 .. pg.count
      BY <1>3, <2>2
    <3>2. pg.keys[1] \in Nat /\ pg.keys[1] # 0
      BY <1>3, <3>1 DEF PositiveKeys
    <3>3. 0 < pg.keys[1]
      BY <3>2
    <3> QED
      BY <3>3 DEF Share
  <2> QED
    BY <2>1, <2>2
<1>6. 0 \in Whole(c, range)[k]
  BY <1>2, <1>4, <1>5 DEF Divides
<1>7. k \in PageNo
  BY <1>2, <1>4, PageShape
<1> HIDE DEF k
<1>8. CASE k # c.front
  BY <1>6, <1>7, <1>8, WholeOf DEF k
<1>9. CASE k = c.front
  <2>1. CASE c = NoCarry
    BY <1>6, <1>7, <2>1, WholeOf DEF k
  <2>2. CASE c # NoCarry
    <3>1. 0 \in range[k] \cup range[c.back]
      BY <1>6, <1>7, <1>9, WholeOf
    <3>2. Shaped(UsedIn(pages), KidsOf(pages), r, c, range, level)
      BY TreeKnows
    <3>3. c.key \in Nat /\ \A l \in range[c.back] : c.key <= l
      BY <2>2, <3>2, ShapeKids
    <3>4. 0 \notin range[c.back]
      BY <2>2, <3>3
    <3> QED
      BY <3>1, <3>4 DEF k
  <2> QED
    BY <2>1, <2>2
<1> QED
  BY <1>8, <1>9

\* The root has 0 in its range, also when it has just been split.
LEMMA RootFirst ==
    ASSUME NEW pages, NEW r, NEW c, NEW range, NEW level, Tree(pages, r, c, range, level),
           c # NoCarry => c.key # 0
    PROVE  0 \in range[r]
<1>1. Shaped(UsedIn(pages), KidsOf(pages), r, c, range, level)
  BY TreeKnows
<1>2. r \in PageNo /\ Whole(c, range)[r] = Nat
  BY <1>1, TreeKnows DEF Shaped, RootOK
<1>3. CASE c = NoCarry \/ r # c.front
  BY <1>2, <1>3, WholeOf
<1>4. CASE c # NoCarry /\ r = c.front
  <2>1. 0 \in range[r] \cup range[c.back]
    BY <1>2, <1>4, WholeOf
  <2>2. c.key \in Nat /\ \A l \in range[c.back] : c.key <= l
    BY <1>1, <1>4, ShapeKids
  <2>3. 0 \notin range[c.back]
    BY <1>4, <2>2
  <2> QED
    BY <2>1, <2>3
<1> QED
  BY <1>3, <1>4

\* The first leaf is the one whose range has 0.
LEMMA FirstLeafHas ==
    ASSUME NEW pages, NEW r, NEW c, NEW range, NEW level, Tree(pages, r, c, range, level),
           PositiveKeys(pages), c # NoCarry => c.key # 0
    PROVE  FirstLeaf(pages, r) \in LeavesOf(pages) /\ 0 \in range[FirstLeaf(pages, r)]
<1> DEFINE used == UsedIn(pages)
           First(no) == no \in LeavesOf(pages) /\ 0 \in range[no]
<1>1. /\ \A p \in used : /\ p \in PageNo /\ level[p] \in Nat
                         /\ \/ pages[p].type = "leaf" /\ p \in LeavesOf(pages)
                            \/ p \in InternalsOf(pages) /\ pages[p].type = "internal" /\ level[p] > 0
      /\ \A p \in InternalsOf(pages) :
            pages[p].kids[1] \in used /\ level[p] = level[pages[p].kids[1]] + 1
  BY TreeSteps DEF InternalsOf, LeavesOf
<1>2. \A p \in InternalsOf(pages) : pages[p].kids[1] \in PageNo
  BY <1>1
<1>3. PICK down : FirstDown(down, pages) /\ \A from : FirstLeaf(pages, from) = down[MaxPages][from]
  <2> HIDE DEF used
  <2> QED
    BY <1>2, FirstLeafDown
<1> DEFINE Ends(d) == \A no \in used : 0 \in range[no] /\ level[no] <= d => First(down[d][no])
           S == {d \in 0 .. MaxPages : Ends(d)}
<1>6. MaxPages \in Nat
  BY BTreeAssumption
<1>7. Ends(0)
  <2> SUFFICES ASSUME NEW no \in used, 0 \in range[no], level[no] <= 0 PROVE First(down[0][no])
    OBVIOUS
  <2>1. no \in PageNo /\ no \in LeavesOf(pages)
    BY <1>1
  <2>2. 0 \in 0 .. MaxPages /\ ~(0 > 0)
    BY <1>6
  <2>3. down[0][no] = no
    BY <1>3, <2>1, <2>2 DEF FirstDown
  <2> QED
    BY <2>1, <2>3
<1>8. ASSUME NEW d \in 0 .. MaxPages - 1, Ends(d) PROVE Ends(d + 1)
  <2> SUFFICES ASSUME NEW no \in used, 0 \in range[no], level[no] <= d + 1 PROVE First(down[d + 1][no])
    OBVIOUS
  <2>1. d + 1 \in 0 .. MaxPages /\ d + 1 > 0 /\ (d + 1) - 1 = d /\ d \in Nat
    BY <1>6
  <2>2. no \in PageNo
    BY <1>1
  <2>3. CASE pages[no].type = "leaf"
    <3>1. no \in LeavesOf(pages) /\ ~(pages[no].type = "internal")
      BY <2>2, <2>3 DEF LeavesOf
    <3>2. down[d + 1][no] = no
      BY <1>3, <2>1, <2>2, <3>1 DEF FirstDown
    <3> QED
      BY <3>1, <3>2
  <2>4. CASE ~(pages[no].type = "leaf")
    <3>1. no \in InternalsOf(pages) /\ pages[no].type = "internal"
      BY <1>1, <2>4
    <3> DEFINE k == pages[no].kids[1]
    <3>2. 0 \in range[k]
      BY <3>1, FirstChild
    <3>3. k \in used /\ level[no] = level[k] + 1
      BY <1>1, <3>1
    <3>4. down[d + 1][no] = down[d][k]
      BY <1>3, <2>1, <2>2, <3>1 DEF FirstDown
    <3> HIDE DEF k
    <3>5. level[k] \in Nat /\ level[no] \in Nat
      BY <1>1, <3>3
    <3>6. level[k] <= d
      BY <2>1, <3>3, <3>5
    <3>7. First(down[d][k])
      BY <1>8, <3>2, <3>3, <3>6
    <3> HIDE DEF First
    <3> QED
      BY <3>4, <3>7
  <2> QED
    BY <2>3, <2>4
<1> HIDE DEF First
<1>9. \A d \in 0 .. MaxPages : d \in S
  <2>1. 0 \in S
    BY <1>6, <1>7
  <2>2. \A d \in 0 .. MaxPages - 1 : d \in S => d + 1 \in S
    <3> TAKE d \in 0 .. MaxPages - 1
    <3> HAVE d \in S
    <3>1. Ends(d)
      OBVIOUS
    <3> HIDE DEF Ends
    <3>2. Ends(d + 1)
      BY <1>8, <3>1
    <3>3. d + 1 \in 0 .. MaxPages
      BY <1>6
    <3> QED
      BY <3>2, <3>3
  <2> HIDE DEF S
  <2> QED
    BY <1>6, <2>1, <2>2, UpTo
<1>10. Ends(MaxPages)
  BY <1>6, <1>9
<1>11. r \in used /\ 0 \in range[r] /\ level[r] <= MaxPages
  BY RootFirst, TreeKnows, Height
<1>12. First(down[MaxPages][r])
  BY <1>10, <1>11
<1> QED
  BY <1>3, <1>12 DEF First

\* BackwardDescends: after a run of inserts the links back lead from any leaf through ever
\* smaller keys to the first leaf, at every moment.
THEOREM BackwardDescendsAlways == ASSUME ~Repeats, OnlyInserts PROVE Spec => []BackwardDescends
<1>1. IInv /\ InsertsInv => BackwardDescends
  <2> SUFFICES ASSUME IInv, InsertsInv, Sound, NEW p \in LeavesOf(page)
               PROVE  /\ page[p].prev = 0 <=> p = FirstLeaf(page, root)
                      /\ page[p].prev # 0 =>
                            /\ page[page[p].prev].type = "leaf"
                            /\ \A k \in KeySet(page[page[p].prev].recs), l \in KeySet(page[p].recs) : k < l
    BY DEF BackwardDescends
  <2>1. pc # "aborted" /\ ~broken
    BY DEF Sound
  <2>2. PICK range, level : Calling(range, level)
    BY <2>1 DEF IInv
  <2>3. Tree(page, root, carry, range, level) /\ (carry # NoCarry => pc = "insert_up")
    <3>1. Tree(page, root, carry, range, level)
      BY <2>2, CallingAt
    <3>2. carry # NoCarry => pc = "insert_up"
      BY <2>1, <2>2 DEF Calling, Searching, InsertingUp, AdjustingLeaf, AdjustingUp
    <3> QED
      BY <3>1, <3>2
  <2>4. Backward(page, range)
    <3>1. pc = "idle" \/ pc = "search" \/ pc = "insert_up"
      BY <2>1, <2>2 DEF Calling, Searching, InsertingUp, AdjustingLeaf, AdjustingUp
    <3> QED
      BY <2>2, <3>1, CallingAt DEF Resting, Searching, InsertingUp, Linked
  <2>5. PositiveKeys(page) /\ (carry # NoCarry => carry.key # 0)
    BY <2>3 DEF InsertsInv
  <2>6. FirstLeaf(page, root) \in LeavesOf(page) /\ 0 \in range[FirstLeaf(page, root)]
    BY <2>3, <2>5, FirstLeafHas
  <2>7. \A q \in LeavesOf(page) :
           q \in UsedIn(page) /\ level[q] = 0 /\ KeySet(page[q].recs) \subseteq range[q] /\ page[q].type = "leaf"
    BY <2>3, TreeKnows DEF LeavesOf
  <2>8. \A q, s \in LeavesOf(page) : q # s => range[q] \cap range[s] = {}
    <3>1. Apart(UsedIn(page), range, level)
      BY <2>3, TreeKnows DEF Shaped
    <3> QED
      BY <2>7, <3>1 DEF Apart
  <2>9. page[p].prev = 0 <=> 0 \in range[p]
    BY <2>4 DEF Backward
  <2>10. page[p].prev # 0 =>
            /\ page[p].prev \in LeavesOf(page)
            /\ \A k \in range[page[p].prev] : \A l \in range[p] : k < l
    BY <2>4 DEF Backward
  <2>11. page[p].prev = 0 <=> p = FirstLeaf(page, root)
    BY <2>6, <2>8, <2>9
  <2>12. ASSUME page[p].prev # 0
         PROVE  /\ page[page[p].prev].type = "leaf"
                /\ \A k \in KeySet(page[page[p].prev].recs), l \in KeySet(page[p].recs) : k < l
    BY <2>7, <2>10, <2>12
  <2> QED
    BY <2>11, <2>12
<1> QED
  BY <1>1, BTreeInvariant, InsertsInvariant, PTL

-----------------------------------------------------------------------------
(* The records a leaf holds, and their sizes                               *)

RecordSet(recs) == {recs[i] : i \in DOMAIN recs}

\* Sizes are numbers.
LEMMA SizesAreNumbers == \A r \in Record : r.size \in Nat
<1> DEFINE most == PageSize \div 4 - 1
<1>1. most \in Int
  BY BTreeAssumption
<1>2. Sizes \subseteq 1 .. most
  BY BTreeAssumption
<1> HIDE DEF most
<1>3. \A r \in Record : r.size \in 1 .. most
  BY <1>2 DEF Record
<1> QED
  BY <1>1, <1>3

\* PayloadSize record by record.
LEMMA PayloadSteps ==
    ASSUME NEW s \in Seq(Record)
    PROVE  \E h \in [0 .. Len(s) -> Nat] :
              /\ h[0] = 0
              /\ \A n \in 1 .. Len(s) : h[n] = h[n - 1] + s[n].size
              /\ PayloadSize(s) = h[Len(s)]
<1> DEFINE N == Len(s)
           IsSum(h) == h = [n \in 0 .. Len(s) |-> IF n = 0 THEN 0 ELSE h[n - 1] + s[n].size]
           f == [n \in 1 .. N |-> [x \in Nat |-> x + s[n].size]]
           sum == CHOOSE h : IsSum(h)
<1>0. N \in Nat /\ \A n \in 1 .. N : s[n] \in Record /\ s[n].size \in Nat
  <2>1. N \in Nat /\ \A n \in 1 .. N : s[n] \in Record
    OBVIOUS
  <2> QED
    BY <2>1, SizesAreNumbers
<1>1. f \in [1 .. N -> [Nat -> Nat]]
  BY <1>0
<1>2. PICK h \in [0 .. N -> Nat] : h[0] = 0 /\ \A n \in 1 .. N : h[n] = f[n][h[n - 1]]
  <2> DEFINE D == Nat
             base == 0
  <2>0. N \in Nat
    BY <1>0
  <2>1. base \in D
    OBVIOUS
  <2>3. f \in [1 .. N -> [D -> D]]
    BY <1>1
  <2> HIDE DEF N, f, D, base, IsSum, sum
  <2>2. \E h \in [0 .. N -> D] : h[0] = base /\ \A n \in 1 .. N : h[n] = f[n][h[n - 1]]
    BY <2>0, <2>1, <2>3, Iteration, SMTT(30)
  <2> QED
    BY <2>2, Zenon DEF D, base
<1>3. \A n \in 1 .. N : h[n] = h[n - 1] + s[n].size /\ h[n - 1] \in Nat /\ h[n] \in Nat
  <2> TAKE n \in 1 .. N
  <2>1. n - 1 \in 0 .. N /\ n \in 0 .. N
    BY <1>0
  <2>2. h[n - 1] \in Nat /\ h[n] = f[n][h[n - 1]] /\ h[n] \in Nat
    <3> HIDE DEF f, N
    <3> QED
      BY <1>2, <2>1
  <2> QED
    BY <2>2
<1>4. IsSum(h)
  <2>1. \A n \in 0 .. N : h[n] = IF n = 0 THEN 0 ELSE h[n - 1] + s[n].size
    BY <1>0, <1>2, <1>3
  <2> QED
    BY <1>2, <2>1
<1>5. IsSum(sum)
  <2> HIDE DEF IsSum
  <2> QED
    BY <1>4
<1>6. sum = h
  <2> HIDE DEF sum, f
  <2>1. \A n \in 0 .. N - 1 : sum[n] = h[n] => sum[n + 1] = h[n + 1]
    <3> TAKE n \in 0 .. N - 1
    <3> HAVE sum[n] = h[n]
    <3> DEFINE m == n + 1
    <3>1. m \in 0 .. N /\ m # 0 /\ m - 1 = n
      BY <1>0
    <3> HIDE DEF m
    <3>2. sum[m] = sum[m - 1] + s[m].size
      BY <1>5, <3>1
    <3>3. h[m] = h[m - 1] + s[m].size
      BY <1>4, <3>1
    <3> QED
      BY <3>1, <3>2, <3>3 DEF m
  <2>2. sum[0] = h[0]
    BY <1>0, <1>4, <1>5
  <2>3. sum = [n \in 0 .. N |-> sum[n]] /\ h = [n \in 0 .. N |-> h[n]]
    BY <1>4, <1>5
  <2> HIDE DEF IsSum
  <2> QED
    BY <1>0, <2>1, <2>2, <2>3, SameSteps, ZenonT(40)
<1>7. PayloadSize(s) = sum[N]
  BY DEF PayloadSize
<1> HIDE DEF sum, f
<1> QED
  BY <1>2, <1>3, <1>6, <1>7

\* It is a number, and 0 for no records.
LEMMA PayloadNat ==
    ASSUME NEW s \in Seq(Record)
    PROVE  PayloadSize(s) \in Nat /\ Len(s) \in Nat /\ (Len(s) = 0 => PayloadSize(s) = 0)
<1>1. PICK h \in [0 .. Len(s) -> Nat] : h[0] = 0 /\ PayloadSize(s) = h[Len(s)]
  BY PayloadSteps
<1>2. Len(s) \in Nat /\ Len(s) \in 0 .. Len(s)
  OBVIOUS
<1> QED
  BY <1>1, <1>2

\* One record more.
LEMMA PayloadPutIn ==
    ASSUME NEW s \in Seq(Record), NEW t \in Seq(Record), NEW i \in 1 .. Len(s) + 1,
           Len(t) = Len(s) + 1,
           \A k \in 1 .. Len(s) + 1 : (k < i => t[k] = s[k]) /\ (k > i => t[k] = s[k - 1])
    PROVE  PayloadSize(t) = PayloadSize(s) + t[i].size
<1> DEFINE N == Len(s)
<1>0. N \in Nat /\ i \in Nat /\ 1 <= i /\ i <= N + 1
  OBVIOUS
<1>1. PICK g \in [0 .. Len(s) -> Nat] :
              /\ g[0] = 0
              /\ \A n \in 1 .. Len(s) : g[n] = g[n - 1] + s[n].size
              /\ PayloadSize(s) = g[Len(s)]
  BY PayloadSteps
<1>2. PICK h \in [0 .. Len(t) -> Nat] :
              /\ h[0] = 0
              /\ \A n \in 1 .. Len(t) : h[n] = h[n - 1] + t[n].size
              /\ PayloadSize(t) = h[Len(t)]
  BY PayloadSteps
<1> DEFINE x == t[i].size
           Same(n) == h[n] = IF n < i THEN g[n] ELSE g[n - 1] + x
           S == {n \in 0 .. N + 1 : Same(n)}
<1>3. t[i] \in Record /\ x \in Nat
  <2>1. i \in 1 .. Len(t)
    BY <1>0
  <2>2. t[i] \in Record
    BY <2>1
  <2> QED
    BY <2>2, SizesAreNumbers
<1> HIDE DEF x
<1>4. 0 \in S
  BY <1>0, <1>1, <1>2
<1>5. \A n \in 0 .. N : n \in S => n + 1 \in S
  <2> TAKE n \in 0 .. N
  <2> HAVE n \in S
  <2> DEFINE m == n + 1
  <2>1. m \in 1 .. N + 1 /\ m - 1 = n /\ m \in Nat /\ m \in 1 .. Len(t)
    BY <1>0
  <2>2. Same(n)
    OBVIOUS
  <2> HIDE DEF m
  <2>3. h[m] = h[n] + t[m].size
    BY <1>2, <2>1
  <2>4. CASE m < i
    <3>1. m \in 1 .. N /\ n < i /\ t[m] = s[m]
      BY <1>0, <2>1, <2>4
    <3>2. g[m] = g[n] + s[m].size
      BY <1>1, <2>1, <3>1
    <3> QED
      BY <2>1, <2>2, <2>3, <2>4, <3>1, <3>2
  <2>5. CASE m = i
    <3>1. n < i /\ ~(m < i) /\ t[m].size = x
      BY <1>0, <2>1, <2>5 DEF x
    <3> QED
      BY <2>1, <2>2, <2>3, <3>1
  <2>6. CASE m > i
    <3>1. n \in 1 .. N /\ ~(n < i) /\ ~(m < i) /\ t[m] = s[n]
      BY <1>0, <2>1, <2>6
    <3>2. g[n] = g[n - 1] + s[n].size /\ g[n - 1] \in Nat /\ s[n].size \in Nat
      <4>1. n - 1 \in 0 .. N /\ s[n] \in Record
        BY <1>0, <3>1
      <4> QED
        BY <1>1, <3>1, <4>1, SizesAreNumbers
    <3> QED
      BY <1>3, <2>1, <2>2, <2>3, <3>1, <3>2
  <2>7. m \in S
    BY <1>0, <2>1, <2>4, <2>5, <2>6
  <2> QED
    BY <2>7 DEF m
<1>6. \A n \in 0 .. N + 1 : n \in S
  <2> DEFINE M == N + 1
  <2>1. M \in Nat /\ \A n \in 0 .. M - 1 : n \in S => n + 1 \in S
    BY <1>0, <1>5
  <2> HIDE DEF M, S
  <2>2. \A n \in 0 .. M : n \in S
    BY <1>4, <2>1, UpTo
  <2> QED
    BY <2>2 DEF M
<1>7. Same(N + 1)
  BY <1>0, <1>6
<1>8. ~(N + 1 < i) /\ (N + 1) - 1 = N
  BY <1>0
<1> QED
  BY <1>1, <1>2, <1>7, <1>8 DEF x

\* A record put into a sequence of records.
LEMMA RecordPutIn ==
    ASSUME NEW s \in Seq(Record), NEW r \in Record, NEW i \in 1 .. Len(s) + 1
    PROVE  /\ InsertAt(s, i, r) \in Seq(Record)
           /\ Len(InsertAt(s, i, r)) = Len(s) + 1
           /\ InsertAt(s, i, r)[i] = r
           /\ \A k \in 1 .. Len(s) + 1 : /\ k < i => InsertAt(s, i, r)[k] = s[k]
                                         /\ k > i => InsertAt(s, i, r)[k] = s[k - 1]
  BY InsertAtElements, SMTT(60)

\* A record is placed among others.
LEMMA PlacedAmong ==
    ASSUME NEW s \in Sorted, NEW r \in Record, NEW t, t = Place(s, r)
    PROVE  /\ t \in Seq(Record) /\ Len(t) = Len(s) + 1
           /\ RecordSet(t) = RecordSet(s) \cup {r}
           /\ PayloadSize(t) = PayloadSize(s) + r.size
<1> DEFINE n == Len(s)
           at == PlaceOf(s, r)
<1>1. s \in Seq(Record) /\ n \in Nat /\ DOMAIN s = 1 .. n
  BY SortedShape
<1>2. at \in 1 .. n + 1
  BY <1>1, PlaceFound
<1>3. t = InsertAt(s, at, r)
  BY DEF Place
<1> HIDE DEF at
<1>4. /\ t \in Seq(Record) /\ Len(t) = n + 1 /\ t[at] = r
      /\ \A k \in 1 .. n + 1 : (k < at => t[k] = s[k]) /\ (k > at => t[k] = s[k - 1])
  <2>1. s \in Seq(Record) /\ at \in 1 .. Len(s) + 1
    BY <1>1, <1>2
  <2>2. /\ InsertAt(s, at, r) \in Seq(Record)
        /\ Len(InsertAt(s, at, r)) = Len(s) + 1
        /\ InsertAt(s, at, r)[at] = r
        /\ \A k \in 1 .. Len(s) + 1 : /\ k < at => InsertAt(s, at, r)[k] = s[k]
                                      /\ k > at => InsertAt(s, at, r)[k] = s[k - 1]
    BY <2>1, RecordPutIn, ZenonT(30)
  <2> QED
    BY <1>3, <2>2
<1>5. PayloadSize(t) = PayloadSize(s) + t[at].size
  <2>1. at \in 1 .. Len(s) + 1 /\ Len(t) = Len(s) + 1
    BY <1>2, <1>4
  <2> QED
    BY <1>1, <1>4, <2>1, PayloadPutIn
<1>6. DOMAIN t = 1 .. n + 1
  BY <1>1, <1>4
<1>7. RecordSet(t) \subseteq RecordSet(s) \cup {r}
  <2> SUFFICES ASSUME NEW k \in 1 .. n + 1 PROVE t[k] \in RecordSet(s) \cup {r}
    BY <1>6 DEF RecordSet
  <2>1. CASE k < at
    <3>1. k \in DOMAIN s
      BY <1>1, <1>2, <2>1
    <3> QED
      BY <1>4, <2>1, <3>1 DEF RecordSet
  <2>2. CASE k > at
    <3>1. k - 1 \in DOMAIN s
      BY <1>1, <1>2, <2>2
    <3> QED
      BY <1>4, <2>2, <3>1 DEF RecordSet
  <2>3. k < at \/ k > at \/ k = at
    BY <1>1, <1>2
  <2> QED
    BY <1>4, <2>1, <2>2, <2>3
<1>8. RecordSet(s) \subseteq RecordSet(t)
  <2> SUFFICES ASSUME NEW k \in 1 .. n PROVE s[k] \in RecordSet(t)
    BY <1>1 DEF RecordSet
  <2>1. CASE k < at
    <3>1. k \in DOMAIN t /\ t[k] = s[k]
      BY <1>1, <1>4, <1>6, <2>1
    <3> QED
      BY <3>1 DEF RecordSet
  <2>2. CASE ~(k < at)
    <3>1. k + 1 \in DOMAIN t /\ k + 1 > at /\ (k + 1) - 1 = k /\ k + 1 \in 1 .. n + 1
      BY <1>1, <1>2, <1>6, <2>2
    <3>2. t[k + 1] = s[k]
      BY <1>4, <3>1
    <3> QED
      BY <3>1, <3>2 DEF RecordSet
  <2> QED
    BY <2>1, <2>2
<1>9. r \in RecordSet(t)
  <2>1. at \in DOMAIN t
    BY <1>2, <1>6
  <2> QED
    BY <1>4, <2>1 DEF RecordSet
<1> QED
  BY <1>4, <1>5, <1>7, <1>8, <1>9

\* The last record leaves them.
LEMMA LastLeaves ==
    ASSUME NEW s \in Sorted, s # <<>>, NEW t, t = Front(s), NEW r, r = Last(s)
    PROVE  /\ t \in Sorted /\ r \in Record /\ Len(s) = Len(t) + 1
           /\ RecordSet(s) = RecordSet(t) \cup {r}
           /\ PayloadSize(s) = PayloadSize(t) + r.size
           /\ \A k \in KeySet(t) : k < r.key
<1> DEFINE n == Len(s)
<1>1. /\ s \in Seq(Record) /\ n \in Nat /\ DOMAIN s = 1 .. n
      /\ \A i, j \in 1 .. n : i < j => s[i].key < s[j].key
  BY SortedShape
<1>2. n > 0
  BY <1>1
<1>3. t \in Sorted /\ r \in Record /\ Len(t) = n - 1
  BY EndsSorted
<1>4. t \in Seq(Record) /\ DOMAIN t = 1 .. n - 1
  BY <1>3, SortedShape
<1>5. t = SubSeq(s, 1, n - 1) /\ r = s[n]
  BY DEF Front, Last
<1>6. \A k \in 1 .. n - 1 : t[k] = s[k]
  BY <1>1, <1>2, <1>5
<1>7. PayloadSize(s) = PayloadSize(t) + r.size
  <2>1. n \in 1 .. Len(t) + 1 /\ Len(s) = Len(t) + 1
    BY <1>1, <1>2, <1>3
  <2>2. \A k \in 1 .. Len(t) + 1 : (k < n => s[k] = t[k]) /\ (k > n => s[k] = t[k - 1])
    BY <1>1, <1>2, <1>3, <1>6
  <2>3. PayloadSize(s) = PayloadSize(t) + s[n].size
    <3> HIDE DEF n
    <3> QED
      BY <1>1, <1>4, <2>1, <2>2, PayloadPutIn
  <2> QED
    BY <1>5, <2>3
<1>8. RecordSet(s) = RecordSet(t) \cup {r}
  <2>1. \A k : k \in 1 .. n <=> (k \in 1 .. n - 1 \/ k = n)
    BY <1>1, <1>2
  <2>2. RecordSet(s) = {s[k] : k \in 1 .. n} /\ RecordSet(t) = {t[k] : k \in 1 .. n - 1}
    BY <1>1, <1>4, <1>6 DEF RecordSet
  <2>3. \A k \in 1 .. n - 1 : s[k] = t[k]
    BY <1>6
  <2> HIDE DEF n
  <2> QED
    BY <1>5, <2>1, <2>2, <2>3
<1>9. \A k \in KeySet(t) : k < r.key
  <2> SUFFICES ASSUME NEW i \in 1 .. n - 1 PROVE t[i].key < r.key
    BY <1>4 DEF KeySet
  <2>1. i \in 1 .. n /\ n \in 1 .. n /\ i < n
    BY <1>1, <1>2
  <2> QED
    BY <1>1, <1>5, <1>6, <2>1
<1> QED
  BY <1>1, <1>3, <1>7, <1>8, <1>9

\* Less payload and fewer records leave more room.
LEMMA RoomLeft ==
    ASSUME NEW most \in Nat, NEW sum \in Nat, NEW n \in Nat, NEW sum2 \in Nat, NEW n2 \in Nat,
           most - HeaderSize - sum - MetaSize * n > 0, sum2 <= sum, n2 <= n
    PROVE  most - HeaderSize - sum2 - MetaSize * n2 > 0
BY DEF HeaderSize, MetaSize

LEMMA RoomFor ==
    ASSUME NEW most \in Nat, NEW sum \in Nat, NEW n \in Nat, NEW size \in Nat
    PROVE  most - HeaderSize - (sum + size) - MetaSize * (n + 1) > 0
             <=> most - HeaderSize - sum - MetaSize * n > size + MetaSize
BY DEF HeaderSize, MetaSize

\* Two leaves that share out the records of one between them.
SharesOut(x, s) ==
    /\ RecordSet(x.first) \cup RecordSet(x.last) = RecordSet(s)
    /\ Len(x.first) + Len(x.last) = Len(s)
    /\ PayloadSize(x.first) + PayloadSize(x.last) = PayloadSize(s)
    /\ \A k \in KeySet(x.first), l \in KeySet(x.last) : k < l

\* As long as the records had room in one page, none that balance moves is lost.
LEMMA MovedShares ==
    ASSUME NEW s \in Sorted, FreeSpace(s) > 0,
           NEW x \in [first : Sorted, last : Sorted], SharesOut(x, s), x.first # <<>>,
           NEW y, y = Moving(FALSE, x)
    PROVE  SharesOut(y, s)
<1> DEFINE front == Front(x.first)
           r     == Last(x.first)
           back  == Handed(x.last, r)
<1>1. x.first \in Sorted /\ x.last \in Sorted
  OBVIOUS
<1>2. /\ front \in Sorted /\ r \in Record /\ Len(x.first) = Len(front) + 1
      /\ RecordSet(x.first) = RecordSet(front) \cup {r}
      /\ PayloadSize(x.first) = PayloadSize(front) + r.size
      /\ \A k \in KeySet(front) : k < r.key
  BY <1>1, LastLeaves
<1>3. r.key \in KeySet(x.first) /\ KeySet(front) \subseteq KeySet(x.first)
  BY <1>1, EndsSorted
<1>4. y.first = front /\ y.last = back
  BY DEF Moving
<1> HIDE DEF front, r
<1>5. r.key \in Nat /\ KeySet(x.last) \subseteq Nat
  BY <1>1, <1>2, KeysAreNumbers, SortedShape
<1>6. r.key \notin KeySet(x.last)
  BY <1>3, <1>5 DEF SharesOut
<1>7. /\ PayloadSize(s) \in Nat /\ Len(s) \in Nat /\ PayloadSize(front) \in Nat /\ Len(front) \in Nat
      /\ PayloadSize(x.last) \in Nat /\ Len(x.last) \in Nat /\ r.size \in Nat /\ PageSize \in Nat
  <2>1. s \in Seq(Record) /\ front \in Seq(Record) /\ x.last \in Seq(Record)
    BY <1>1, <1>2, SortedShape
  <2> QED
    BY <1>2, <2>1, PayloadNat, SizesAreNumbers, BTreeAssumption
<1>8. Fits(x.last, r.size)
  <2>1. /\ Len(front) + 1 + Len(x.last) = Len(s)
        /\ PayloadSize(front) + r.size + PayloadSize(x.last) = PayloadSize(s)
    BY <1>2 DEF SharesOut
  <2>2. PageSize - HeaderSize - PayloadSize(s) - MetaSize * Len(s) > 0
    BY DEF FreeSpace
  <2>3. PageSize - HeaderSize - PayloadSize(x.last) - MetaSize * Len(x.last) > r.size + MetaSize
    <3> DEFINE sum == PayloadSize(x.last) + r.size
               n   == Len(x.last) + 1
    <3>1. sum \in Nat /\ n \in Nat
      BY <1>7
    <3>2. n <= Len(s)
      BY <1>7, <2>1
    <3>3. sum <= PayloadSize(s)
      <4>1. \A a, b, c, d \in Nat : b + c + a = d => a + c <= d
        OBVIOUS
      <4>2. PayloadSize(front) + r.size + PayloadSize(x.last) = PayloadSize(s)
        BY <2>1
      <4> QED
        BY <1>7, <4>1, <4>2
    <3> HIDE DEF sum, n
    <3>4. PageSize - HeaderSize - sum - MetaSize * n > 0
      BY <1>7, <2>2, <3>1, <3>2, <3>3, RoomLeft
    <3> QED
      BY <1>7, <3>4, RoomFor DEF sum, n
  <2> QED
    BY <2>3 DEF Fits, FreeSpace
<1>9. back = Place(x.last, r)
  BY <1>6, <1>8 DEF Handed
<1> HIDE DEF back
<1>10. /\ Len(back) = Len(x.last) + 1 /\ RecordSet(back) = RecordSet(x.last) \cup {r}
       /\ PayloadSize(back) = PayloadSize(x.last) + r.size
  BY <1>1, <1>2, <1>9, PlacedAmong
<1>11. KeySet(back) = KeySet(x.last) \cup {r.key}
  BY <1>1, <1>2, <1>6, <1>9, PlaceSorted
<1>12. \A k \in KeySet(front), l \in KeySet(back) : k < l
  BY <1>2, <1>3, <1>11 DEF SharesOut
<1>13. RecordSet(front) \cup RecordSet(back) = RecordSet(s)
  BY <1>2, <1>10 DEF SharesOut
<1>14. /\ Len(front) + Len(back) = Len(s)
       /\ PayloadSize(front) + PayloadSize(back) = PayloadSize(s)
  BY <1>2, <1>7, <1>10 DEF SharesOut
<1> QED
  BY <1>4, <1>12, <1>13, <1>14 DEF SharesOut

\* A split leaf and the new one hold what the leaf held, and both have room.
LEMMA SplitKeeps ==
    ASSUME NEW s \in Sorted, FreeSpace(s) > 0, NEW b, b = BalanceLeaves(s, <<>>)
    PROVE  /\ b.first \in Sorted /\ b.last \in Sorted
           /\ RecordSet(b.first) \cup RecordSet(b.last) = RecordSet(s)
           /\ FreeSpace(b.first) > 0 /\ FreeSpace(b.last) > 0
<1> DEFINE none == <<>>
<1>1. none \in Sorted /\ KeySet(none) = {} /\ Len(none) = 0 /\ RecordSet(none) = {}
  BY DEF Sorted, Ascends, KeySet, RecordSet
<1> HIDE DEF none
<1>2. /\ s \in Seq(Record) /\ none \in Seq(Record)
      /\ PayloadSize(s) \in Nat /\ Len(s) \in Nat /\ PayloadSize(none) = 0
  <2>1. s \in Seq(Record) /\ none \in Seq(Record)
    BY <1>1, SortedShape
  <2> QED
    BY <1>1, <2>1, PayloadNat
<1>0. PICK toFirst \in BOOLEAN, N \in Nat : \E h : Run(s, none, b, toFirst, N, h)
  BY <1>1, BalanceSteps DEF none
<1>3. PICK h : Run(s, none, b, toFirst, N, h)
  BY <1>0
<1>4. /\ h \in [0 .. N -> [first : Sorted, last : Sorted]]
      /\ h[0] = [first |-> s, last |-> none]
      /\ \A n \in 1 .. N :
            \/ h[n] = h[n - 1]
            \/ Giving(toFirst, h[n - 1]) # <<>> /\ h[n] = Moving(toFirst, h[n - 1])
      /\ b.first = h[N].first /\ b.last = h[N].last
  BY <1>3 DEF Run
<1>5. ~toFirst
  <2>1. toFirst = (PayloadSize(s) < PayloadSize(none))
    BY <1>3 DEF Run, none
  <2>2. ~(PayloadSize(s) < PayloadSize(none))
    BY <1>2
  <2> QED
    BY <2>1, <2>2, ZenonT(40)
<1> DEFINE S == {n \in 0 .. N : SharesOut(h[n], s)}
<1>6. 0 \in S
  <2>1. h[0].first = s /\ h[0].last = none
    BY <1>4
  <2>2. SharesOut(h[0], s)
    BY <1>1, <1>2, <2>1 DEF SharesOut
  <2> QED
    BY <2>2
<1>7. \A n \in 0 .. N - 1 : n \in S => n + 1 \in S
  <2> TAKE n \in 0 .. N - 1
  <2> HAVE n \in S
  <2> DEFINE m == n + 1
  <2>1. m \in 1 .. N /\ m - 1 = n /\ m \in 0 .. N /\ n \in 0 .. N
    OBVIOUS
  <2>2. SharesOut(h[n], s)
    OBVIOUS
  <2> HIDE DEF m
  <2>3. h[n] \in [first : Sorted, last : Sorted]
    BY <1>4, <2>1
  <2>4. h[m] = h[n] \/ (Giving(toFirst, h[n]) # <<>> /\ h[m] = Moving(toFirst, h[n]))
    BY <1>4, <2>1
  <2>5. h[m] = h[n] \/ (h[n].first # <<>> /\ h[m] = Moving(FALSE, h[n]))
    BY <1>5, <2>4 DEF Giving, Moving
  <2>6. SharesOut(h[m], s)
    BY <2>2, <2>3, <2>5, MovedShares
  <2>7. m \in S
    BY <2>1, <2>6
  <2> QED
    BY <2>7 DEF m
<1>8. N \in S
  <2>1. \A n \in 0 .. N : n \in S
    <3> HIDE DEF S
    <3> QED
      BY <1>6, <1>7, UpTo
  <2> QED
    BY <2>1
<1>9. SharesOut(h[N], s) /\ h[N] \in [first : Sorted, last : Sorted]
  BY <1>4, <1>8
<1>10. b.first \in Sorted /\ b.last \in Sorted
  BY <1>4, <1>9
<1>11. RecordSet(b.first) \cup RecordSet(b.last) = RecordSet(s)
  BY <1>4, <1>9 DEF SharesOut
<1>12. /\ Len(b.first) + Len(b.last) = Len(s)
       /\ PayloadSize(b.first) + PayloadSize(b.last) = PayloadSize(s)
  BY <1>4, <1>9 DEF SharesOut
<1>13. /\ PayloadSize(b.first) \in Nat /\ Len(b.first) \in Nat
       /\ PayloadSize(b.last) \in Nat /\ Len(b.last) \in Nat
  <2>1. b.first \in Seq(Record) /\ b.last \in Seq(Record)
    BY <1>10, SortedShape
  <2> QED
    BY <2>1, PayloadNat
<1>14. FreeSpace(b.first) > 0 /\ FreeSpace(b.last) > 0
  <2>1. PageSize \in Nat
    BY BTreeAssumption
  <2>2. PageSize - HeaderSize - PayloadSize(s) - MetaSize * Len(s) > 0
    BY DEF FreeSpace
  <2>3. /\ PayloadSize(b.first) <= PayloadSize(s) /\ Len(b.first) <= Len(s)
        /\ PayloadSize(b.last) <= PayloadSize(s) /\ Len(b.last) <= Len(s)
    <3>1. \A m, n, k \in Nat : m + n = k => m <= k /\ n <= k
      OBVIOUS
    <3>2. PayloadSize(b.first) <= PayloadSize(s) /\ PayloadSize(b.last) <= PayloadSize(s)
      BY <1>2, <1>13, <1>12, <3>1
    <3>3. Len(b.first) <= Len(s) /\ Len(b.last) <= Len(s)
      BY <1>2, <1>13, <1>12, <3>1
    <3> QED
      BY <3>2, <3>3
  <2>4. PageSize - HeaderSize - PayloadSize(b.first) - MetaSize * Len(b.first) > 0
    BY <1>2, <1>13, <2>1, <2>2, <2>3, RoomLeft
  <2>5. PageSize - HeaderSize - PayloadSize(b.last) - MetaSize * Len(b.last) > 0
    BY <1>2, <1>13, <2>1, <2>2, <2>3, RoomLeft
  <2> QED
    BY <2>4, <2>5 DEF FreeSpace
<1> QED
  BY <1>10, <1>11, <1>14

-----------------------------------------------------------------------------
(* What a step of an insert does to the leaves                             *)

\* The records of a tree, and that each leaf has room left.
AllRecords(pages) == UNION {RecordSet(pages[p].recs) : p \in LeavesOf(pages)}
Roomy(pages)      == \A p \in LeavesOf(pages) : FreeSpace(pages[p].recs) > 0

\* It stays like that as long as nothing is removed: a record is only put where it fits,
\* and a split loses none.
RoomInv == OnlyInserts => Roomy(page) /\ Roomy(disk.page)

\* No leaf has a record with the key.
Fresh(pages, key) == \A p \in LeavesOf(pages) : key \notin KeySet(pages[p].recs)

SameLeaves(pages, now) ==
    \A p \in PageNo : /\ now[p].type = "leaf" <=> pages[p].type = "leaf"
                      /\ pages[p].type = "leaf" => now[p] = pages[p]

LEMMA SameLeavesHold ==
    ASSUME NEW pages, NEW now, SameLeaves(pages, now)
    PROVE  AllRecords(now) = AllRecords(pages) /\ (Roomy(pages) => Roomy(now))
<1>1. LeavesOf(now) = LeavesOf(pages) /\ \A p \in LeavesOf(pages) : now[p] = pages[p]
  BY DEF SameLeaves, LeavesOf
<1>2. AllRecords(now) = AllRecords(pages)
  BY <1>1 DEF AllRecords
<1> QED
  BY <1>1, <1>2 DEF Roomy

\* The pages an insert writes above the leaves are internal pages.
LEMMA InsertedType ==
    ASSUME NEW pg, "type" \in DOMAIN pg, pg.type = "internal", NEW key, NEW front, NEW back,
           InsertKey(pg, key, front, back).status = "ok"
    PROVE  InsertKey(pg, key, front, back).page.type = "internal"
<1>1. pg.count # KeyCapacity
  BY DEF InsertKey, NoSpace
<1>2. CASE pg.count = 0
  <2>1. InsertKey(pg, key, front, back)
          = Ok([pg EXCEPT !.count = 1, !.keys[1] = key, !.kids = <<front, back>>])
    BY <1>1, <1>2 DEF InsertKey
  <2>2. InsertKey(pg, key, front, back).page
          = [pg EXCEPT !.count = 1, !.keys[1] = key, !.kids = <<front, back>>]
    BY <2>1 DEF Ok
  <2> QED
    BY <2>2
<1>3. CASE pg.count # 0
  <2> DEFINE i == Position(pg, key)
  <2>1. InsertKey(pg, key, front, back)
          = IF pg.keys[i] = key \/ pg.kids[i] # front THEN Failed
            ELSE Ok([pg EXCEPT
                       !.count = @ + 1,
                       !.keys = Overwrite(@, i, <<key>> \o SubSeq(@, i, pg.count)),
                       !.kids = InsertAt(@, i + 1, back)])
    BY <1>1, <1>3 DEF InsertKey
  <2> HIDE DEF i
  <2>2. InsertKey(pg, key, front, back).page
          = [pg EXCEPT
               !.count = @ + 1,
               !.keys = Overwrite(@, i, <<key>> \o SubSeq(@, i, pg.count)),
               !.kids = InsertAt(@, i + 1, back)]
    BY <2>1 DEF Ok, Failed
  <2> QED
    BY <2>2
<1> QED
  BY <1>2, <1>3

LEMMA InsertUpStays ==
    ASSUME IInv, ~broken, InsertsInv, OnlyInserts, InsertUp
    PROVE  SameLeaves(page, page')
<1>1. CASE InsertIntoInternal
  <2> DEFINE np == InsertKey(page[Top], carry.key, carry.front, carry.back).page
  <2>1. /\ pc = "insert_up" /\ stack # <<>> /\ IsType(Top, "internal")
        /\ InsertKey(page[Top], carry.key, carry.front, carry.back).status = "ok"
        /\ page' = [page EXCEPT ![Top] = np]
    BY <1>1 DEF InsertIntoInternal
  <2>2. Top \in PageNo /\ page[Top] \in InternalPages(PageNo) /\ page \in [PageNo -> Pages]
    BY <2>1, InsertAtTop
  <2>3. "type" \in DOMAIN page[Top] /\ page[Top].type = "internal"
    BY <2>2 DEF InternalPages
  <2>4. np.type = "internal"
    BY <2>1, <2>3, InsertedType
  <2> HIDE DEF np
  <2> QED
    BY <2>1, <2>2, <2>3, <2>4 DEF SameLeaves
<1>2. CASE SplitInternal
  <2>0. PICK old \in OldKeys(Allocated) :
            LET h == SplitHalves(old)
            IN  /\ h.front.status = "ok" /\ h.back.status = "ok"
                /\ page' = [page EXCEPT ![Top] = h.front.page, ![h.no] = h.back.page]
                /\ dirty' = dirty \cup {Top, h.no}
                /\ carry' = [key |-> h.key, front |-> Top, back |-> h.no]
        BY <1>2 DEF SplitInternal
  <2> DEFINE no  == Allocated
             s   == SplitPage(page[Top], Top, no, old)
             pg1 == SplitHalves(old).front.page
             pg2 == SplitHalves(old).back.page
  <2>1. /\ pc = "insert_up" /\ stack # <<>> /\ IsType(Top, "internal") /\ CanAllocate /\ Allocate
        /\ SplitHalves(old).front.status = "ok" /\ SplitHalves(old).back.status = "ok"
        /\ page' = [page EXCEPT ![Top] = pg1, ![no] = pg2]
    BY <1>2, <2>0 DEF SplitInternal, InternalFull, SplitHalves
  <2>2. Top \in PageNo /\ page[Top] \in InternalPages(PageNo) /\ page \in [PageNo -> Pages] /\ FileOK
    BY <2>1, InsertAtTop
  <2>3. no \in PageNo /\ no \notin UsedIn(page)
    BY <2>1, <2>2, Allocates
  <2>4. "type" \in DOMAIN page[Top] /\ page[Top].type = "internal"
    BY <2>2 DEF InternalPages
  <2>5. "type" \in DOMAIN s.front /\ s.front.type = "internal"
    <3>1. s.front = [page[Top] EXCEPT !.count = page[Top].count \div 2, !.next = no,
                                      !.kids = SubSeq(@, 1, page[Top].count \div 2 + 1)]
      BY DEF SplitPage
    <3> HIDE DEF s, no
    <3> QED
      BY <2>4, <3>1
  <2>6. "type" \in DOMAIN s.back /\ s.back.type = "internal"
    BY DEF SplitPage, InitPage
  <2>7. pg1.type = "internal" /\ pg2.type = "internal"
    <3>1. CASE carry.key > s.key
      <4>1. SplitHalves(old).front = Ok(s.front) /\ SplitHalves(old).back = InsertKey(s.back, carry.key, carry.front, carry.back)
        BY <3>1 DEF SplitHalves
      <4>2. pg1 = s.front
        BY <4>1 DEF Ok
      <4>3. /\ InsertKey(s.back, carry.key, carry.front, carry.back).status = "ok"
            /\ pg2 = InsertKey(s.back, carry.key, carry.front, carry.back).page
        BY <2>1, <4>1
      <4> HIDE DEF s, pg1, pg2
      <4> QED
        BY <2>5, <2>6, <4>2, <4>3, InsertedType
    <3>2. CASE ~(carry.key > s.key)
      <4>1. SplitHalves(old).back = Ok(s.back) /\ SplitHalves(old).front = InsertKey(s.front, carry.key, carry.front, carry.back)
        BY <3>2 DEF SplitHalves
      <4>2. pg2 = s.back
        BY <4>1 DEF Ok
      <4>3. /\ InsertKey(s.front, carry.key, carry.front, carry.back).status = "ok"
            /\ pg1 = InsertKey(s.front, carry.key, carry.front, carry.back).page
        BY <2>1, <4>1
      <4> HIDE DEF s, pg1, pg2
      <4> QED
        BY <2>5, <2>6, <4>2, <4>3, InsertedType
    <3> QED
      BY <3>1, <3>2
  <2>8. page[no].type # "leaf"
    BY <2>3 DEF UsedIn
  <2> HIDE DEF no, s, pg1, pg2
  <2> QED
    BY <2>1, <2>2, <2>3, <2>4, <2>7, <2>8 DEF SameLeaves
<1>3. CASE NewRoot
  <2>0. PICK old \in OldKeys(Allocated) :
            page' = [page EXCEPT ![Allocated] =
                        InsertKey(InitPage(0, 0, old), carry.key, carry.front, carry.back).page]
        BY <1>3 DEF NewRoot
  <2> DEFINE no  == Allocated
             pg  == InitPage(0, 0, old)
             np  == InsertKey(pg, carry.key, carry.front, carry.back).page
  <2>1. CanAllocate /\ Allocate /\ page' = [page EXCEPT ![no] = np]
    BY <1>3, <2>0 DEF NewRoot
  <2>2. page \in [PageNo -> Pages] /\ FileOK
    <3>1. PICK range, level : Calling(range, level)
      BY DEF IInv
    <3>2. Tree(page, root, carry, range, level)
      BY <3>1, CallingAt
    <3> QED
      BY <3>2, TreeKnows DEF IInv
  <2>3. no \in PageNo /\ no \notin UsedIn(page)
    BY <2>1, <2>2, Allocates
  <2>4. "type" \in DOMAIN pg /\ pg.type = "internal" /\ pg.count = 0
    BY DEF InitPage
  <2>5. InsertKey(pg, carry.key, carry.front, carry.back).status = "ok"
    <3>1. 0 # KeyCapacity
      BY InternalPageAssumption
    <3> HIDE DEF pg
    <3> QED
      BY <2>4, <3>1 DEF InsertKey, Ok
  <2>6. np.type = "internal"
    <3> HIDE DEF pg
    <3> QED
      BY <2>4, <2>5, InsertedType
  <2>7. page[no].type # "leaf"
    BY <2>3 DEF UsedIn
  <2> HIDE DEF no, np
  <2> QED
    BY <2>1, <2>2, <2>3, <2>6, <2>7 DEF SameLeaves
<1> QED
  BY <1>1, <1>2, <1>3 DEF InsertUp

\* A leaf takes in a new record, or is split and one of the two leaves takes it in: no
\* other record comes or goes.
Taking(pages, now) ==
    \E r \in Record : Fresh(pages, r.key) /\ AllRecords(now) = AllRecords(pages) \cup {r}

LEMMA InsertLeafTakes ==
    ASSUME IInv, ~broken, OnlyInserts, Roomy(page), InsertIntoLeaf \/ SplitLeaf
    PROVE  Roomy(page') /\ Taking(page, page')
<1> DEFINE rec  == [key |-> op.key, size |-> op.size]
           recs == page[Top].recs
<1>1. PICK range, level : Calling(range, level)
  BY DEF IInv
<1>2. pc = "search" /\ page[Top].type = "leaf" /\ op.kind = "insert"
  BY DEF InsertIntoLeaf, SplitLeaf, LeafFull, IsType
<1>3. SearchOK(page, stack, op, range) /\ Tree(page, root, carry, range, level) /\ Path(page, stack, root, level)
  BY <1>1, <1>2, CallingAt DEF Searching
<1>4. FileOK /\ stack # <<>>
  BY <1>3 DEF IInv, SearchOK
<1>5. Top \in UsedIn(page) /\ Top \in PageNo
  BY <1>3, <1>4, AtTop
<1>6. /\ page[Top] \in LeafPages /\ recs \in Sorted /\ page \in [PageNo -> Pages]
  BY <1>2, <1>3, <1>5, TreeKnows
<1>7. rec \in Record /\ rec.key = op.key /\ rec.size = op.size /\ Fresh(page, rec.key)
  BY <1>2, <1>3 DEF SearchOK, Record, Fresh
<1>8. Top \in LeavesOf(page) /\ FreeSpace(recs) > 0 /\ rec.key \notin KeySet(recs)
  <2>1. Top \in LeavesOf(page)
    BY <1>2, <1>5 DEF LeavesOf
  <2> QED
    BY <1>7, <2>1 DEF Roomy, Fresh
<1> HIDE DEF rec, recs
<1>9. \A s \in Sorted : Fits(s, rec.size) =>
         RecordSet(Place(s, rec)) = RecordSet(s) \cup {rec} /\ FreeSpace(Place(s, rec)) > 0
  <2> SUFFICES ASSUME NEW s \in Sorted, Fits(s, rec.size), NEW t, t = Place(s, rec)
               PROVE  RecordSet(t) = RecordSet(s) \cup {rec} /\ FreeSpace(t) > 0
    OBVIOUS
  <2>1. /\ Len(t) = Len(s) + 1 /\ RecordSet(t) = RecordSet(s) \cup {rec}
        /\ PayloadSize(t) = PayloadSize(s) + rec.size
    BY <1>7, PlacedAmong
  <2>2. s \in Seq(Record)
    BY SortedShape
  <2>3. PayloadSize(s) \in Nat /\ Len(s) \in Nat /\ rec.size \in Nat /\ PageSize \in Nat
    BY <1>7, <2>2, PayloadNat, SizesAreNumbers, BTreeAssumption
  <2>4. PageSize - HeaderSize - (PayloadSize(s) + rec.size) - MetaSize * (Len(s) + 1) > 0
    <3>1. PageSize - HeaderSize - PayloadSize(s) - MetaSize * Len(s) > rec.size + MetaSize
      BY DEF Fits, FreeSpace
    <3> QED
      BY <2>3, <3>1, RoomFor
  <2> QED
    BY <2>1, <2>4 DEF FreeSpace
<1>10. CASE InsertIntoLeaf
  <2> DEFINE new == Place(recs, rec)
  <2>1. page' = [page EXCEPT ![Top].recs = new] /\ Fits(recs, rec.size)
    BY <1>7, <1>10 DEF InsertIntoLeaf, rec, recs
  <2>2. RecordSet(new) = RecordSet(recs) \cup {rec} /\ FreeSpace(new) > 0
    BY <1>6, <1>9, <2>1
  <2> HIDE DEF new
  <2>3. /\ page'[Top].type = "leaf" /\ page'[Top].recs = new
        /\ \A q \in PageNo : q # Top => page'[q] = page[q]
    BY <1>2, <1>5, <1>6, <2>1 DEF LeafPages
  <2>4. LeavesOf(page') = LeavesOf(page)
    BY <1>2, <1>5, <2>3 DEF LeavesOf
  <2>5. Roomy(page')
    BY <1>5, <2>2, <2>3, <2>4 DEF Roomy, LeavesOf
  <2>6. AllRecords(page') = AllRecords(page) \cup {rec}
    BY <1>5, <1>8, <2>2, <2>3, <2>4 DEF AllRecords, LeavesOf, recs
  <2> QED
    BY <1>7, <2>5, <2>6 DEF Taking
<1>11. CASE SplitLeaf
  <2> DEFINE no   == Allocated
             b    == BalanceLeaves(recs, <<>>)
             mid  == b.last[1].key
             goal == IF op.key > mid THEN b.last ELSE b.first
             new1 == IF op.key > mid THEN b.first ELSE Place(b.first, rec)
             new2 == IF op.key > mid THEN Place(b.last, rec) ELSE b.last
  <2>1. /\ CanAllocate /\ Allocate /\ Fits(goal, rec.size)
        /\ page' = [page EXCEPT ![Top] = [@ EXCEPT !.next = no, !.recs = new1],
                                ![no] = NewLeaf(Top, page[Top].next, new2)]
    BY <1>7, <1>11 DEF SplitLeaf, rec, recs
  <2>2. /\ b.first \in Sorted /\ b.last \in Sorted
        /\ RecordSet(b.first) \cup RecordSet(b.last) = RecordSet(recs)
        /\ FreeSpace(b.first) > 0 /\ FreeSpace(b.last) > 0
    BY <1>6, <1>8, SplitKeeps
  <2>3. no \in PageNo /\ no # Top /\ no \notin LeavesOf(page)
    <3>1. no \in PageNo /\ no \notin UsedIn(page)
      BY <1>4, <1>6, <2>1, Allocates
    <3> QED
      BY <1>5, <3>1 DEF UsedIn, LeavesOf
  <2>4. /\ RecordSet(new1) \cup RecordSet(new2) = RecordSet(recs) \cup {rec}
        /\ FreeSpace(new1) > 0 /\ FreeSpace(new2) > 0
    <3> HIDE DEF b, mid
    <3>1. CASE op.key > mid
      <4>1. goal = b.last /\ new1 = b.first /\ new2 = Place(b.last, rec)
        BY <3>1
      <4>2. RecordSet(new2) = RecordSet(b.last) \cup {rec} /\ FreeSpace(new2) > 0
        <5>1. Fits(b.last, rec.size)
          BY <2>1, <4>1
        <5> QED
          BY <1>9, <2>2, <4>1, <5>1
      <4> HIDE DEF goal, new1, new2
      <4> QED
        BY <2>2, <4>1, <4>2
    <3>2. CASE ~(op.key > mid)
      <4>1. goal = b.first /\ new1 = Place(b.first, rec) /\ new2 = b.last
        BY <3>2
      <4>2. RecordSet(new1) = RecordSet(b.first) \cup {rec} /\ FreeSpace(new1) > 0
        <5>1. Fits(b.first, rec.size)
          BY <2>1, <4>1
        <5> QED
          BY <1>9, <2>2, <4>1, <5>1
      <4> HIDE DEF goal, new1, new2
      <4> QED
        BY <2>2, <4>1, <4>2
    <3> QED
      BY <3>1, <3>2
  <2> HIDE DEF b, mid, goal, no, new1, new2
  <2>5. /\ page'[Top].type = "leaf" /\ page'[Top].recs = new1
        /\ page'[no].type = "leaf" /\ page'[no].recs = new2
        /\ \A q \in PageNo : q # Top /\ q # no => page'[q] = page[q]
    BY <1>2, <1>5, <1>6, <2>1, <2>3 DEF LeafPages, NewLeaf, Leaf
  <2>6. LeavesOf(page') = LeavesOf(page) \cup {no}
    BY <1>2, <1>5, <2>3, <2>5 DEF LeavesOf
  <2>7. Roomy(page')
    <3>1. \A q \in LeavesOf(page') : q = Top \/ q = no \/ (q \in LeavesOf(page) /\ page'[q] = page[q])
      BY <2>5, <2>6 DEF LeavesOf
    <3> QED
      BY <2>4, <2>5, <3>1 DEF Roomy
  <2>8. AllRecords(page') = AllRecords(page) \cup {rec}
    <3> DEFINE rest == UNION {RecordSet(page[q].recs) : q \in LeavesOf(page) \ {Top}}
    <3>1. AllRecords(page) = rest \cup RecordSet(recs)
      BY <1>8 DEF AllRecords, recs
    <3>2. AllRecords(page') = rest \cup RecordSet(new1) \cup RecordSet(new2)
      <4>1. \A q \in LeavesOf(page) \ {Top} : page'[q] = page[q]
        BY <2>3, <2>5 DEF LeavesOf
      <4>2. LeavesOf(page') = (LeavesOf(page) \ {Top}) \cup {Top, no}
        BY <1>8, <2>6
      <4> QED
        BY <2>5, <4>1, <4>2 DEF AllRecords
    <3> HIDE DEF rest
    <3> QED
      BY <2>4, <3>1, <3>2
  <2> QED
    BY <1>7, <2>7, <2>8 DEF Taking
<1> QED
  BY <1>10, <1>11

\* What a step does to the pages in memory and in the file: nothing; a commit; a restart;
\* a change above the leaves; a record that a leaf takes in.
Nothing == page' = page /\ root' = root /\ disk' = disk /\ (pc' = "insert_up" => pc = "insert_up")
Keeping == page' = page /\ root' = root /\ disk'.page = page /\ disk'.root = root /\ pc = "idle" /\ pc' = "idle"
BackTo  == page' = disk.page /\ root' = disk.root /\ disk' = disk /\ pc' = "idle"
Running == disk' = disk /\ pc # "aborted" /\ pc' # "aborted"
Upwards == Running /\ SameLeaves(page, page') /\ pc = "insert_up"
Accepts == Running /\ Roomy(page') /\ Taking(page, page') /\ (InsertIntoLeaf \/ SplitLeaf)

LEMMA LeafSteps ==
    ASSUME ~Repeats, OnlyInserts, IInv, InsertsInv, Roomy(page), [Next]_vars
    PROVE  Nothing \/ Keeping \/ BackTo \/ Upwards \/ Accepts
<1>1. ~broken /\ ~torn /\ \A p \in PageNo \ dirty : page[p] = disk.page[p]
  BY DEF InsertsInv
<1>2. PICK range, level : Calling(range, level)
  BY <1>1 DEF IInv
<1>3. page \in [PageNo -> Pages] /\ pc # "adjust_leaf" /\ pc # "adjust_up" /\ (pc = "search" => op.kind # "remove")
  <2>1. Tree(page, root, carry, range, level)
    BY <1>2, CallingAt
  <2>2. page \in [PageNo -> Pages]
    BY <2>1, TreeKnows
  <2> QED
    BY <1>2, <2>2, CallingAt DEF Searching, SearchOK, AdjustingLeaf, AdjustingUp
<1>4. CASE EnableWrite
  BY <1>4 DEF EnableWrite, treeVars, callVars, Nothing
<1>5. CASE Commit
  <2>1. /\ disk' = [page |-> [p \in PageNo |-> IF p \in dirty THEN page[p] ELSE disk.page[p]],
                    root |-> root, free |-> free, pageCount |-> pageCount]
        /\ page' = page /\ root' = root /\ pc = "idle" /\ pc' = pc
    BY <1>5 DEF Commit, callVars
  <2>2. disk'.page = page /\ disk'.root = root
    BY <1>1, <1>3, <2>1
  <2> QED
    BY <2>1, <2>2 DEF Keeping
<1>6. ASSUME NEW kind, NEW key, NEW size, Start(kind, key, size) PROVE Nothing
  BY <1>6 DEF Start, treeVars, Nothing
<1>7. ASSUME NEW k \in Keys, RemoveKey(k) PROVE Nothing
  BY <1>6, <1>7 DEF RemoveKey
<1>8. ASSUME NEW k \in Keys, NEW s \in Sizes, Insert(k, s) PROVE Nothing
  BY <1>6, <1>8 DEF Insert
<1>9. CASE Descend
  BY <1>9 DEF Descend, Quiet, treeVars, Nothing
<1>10. CASE InsertIntoLeaf \/ SplitLeaf
  <2>1. Roomy(page') /\ Taking(page, page')
    BY <1>1, <1>10, InsertLeafTakes
  <2>2. Running
    BY <1>10 DEF InsertIntoLeaf, SplitLeaf, Running, LeafFull, Quiet, Return
  <2> QED
    BY <1>10, <2>1, <2>2 DEF Accepts
<1>11. CASE RemoveFromLeaf
  BY <1>3, <1>11 DEF RemoveFromLeaf
<1>12. CASE InsertUp
  <2>1. SameLeaves(page, page')
    BY <1>1, <1>12, InsertUpStays
  <2>2. Running /\ pc = "insert_up"
    BY <1>12 DEF InsertUp, InsertIntoInternal, SplitInternal, InternalFull, NewRoot, Running, Quiet, Return
  <2> QED
    BY <2>1, <2>2 DEF Upwards
<1>13. CASE Adjust
  BY <1>3, <1>13 DEF Adjust, MergeLeaves, BalanceLeafPair, EnoughKeys, MergeInternal, AdjustUp, BalanceInternal, TopReached
<1>14. CASE Aborts
  <2>1. PICK function : Abort(function)
    BY <1>14 DEF Aborts
  <2> QED
    BY <2>1 DEF Abort, treeVars, Nothing
<1>15. ASSUME NEW p \in PageNo, Evict(p) PROVE FALSE
  BY <1>1, <1>15 DEF Evict
<1>16. CASE Reopen
  BY <1>16 DEF Reopen, Return, BackTo
<1>17. CASE UNCHANGED vars
  BY <1>17 DEF vars, treeVars, callVars, Nothing
<1> QED
  BY <1>4, <1>5, <1>7, <1>8, <1>9, <1>10, <1>11, <1>12, <1>13, <1>14, <1>15, <1>16, <1>17 DEF Next

\* As long as records are only inserted, every leaf has room left, in memory and in the
\* file, in the middle of a split as well: no record balance moves is lost for lack of it.
THEOREM RoomInvariant == ASSUME ~Repeats PROVE Spec => []RoomInv
<1>1. Init => RoomInv
  <2> SUFFICES ASSUME Init PROVE Roomy(page) /\ Roomy(disk.page)
    BY DEF RoomInv
  <2>1. page = [p \in PageNo |-> IF p = 1 THEN Leaf(0, 0, <<>>) ELSE Unused] /\ disk.page = page
    BY DEF Init
  <2>2. \A p \in LeavesOf(page) : page[p].recs = <<>>
    BY <2>1 DEF LeavesOf, Leaf, Unused
  <2>3. FreeSpace(<<>>) > 0
    <3>1. <<>> \in Seq(Record) /\ Len(<<>>) = 0
      OBVIOUS
    <3>2. PayloadSize(<<>>) = 0
      BY <3>1, PayloadNat
    <3>3. PageSize - HeaderSize > 0 /\ PageSize \in Nat
      BY BTreeAssumption DEF HeaderSize
    <3>4. PageSize - HeaderSize - 0 - MetaSize * 0 > 0
      BY <3>3 DEF HeaderSize, MetaSize
    <3> QED
      BY <3>1, <3>2, <3>4 DEF FreeSpace
  <2> QED
    BY <2>1, <2>2, <2>3 DEF Roomy
<1>2. ASSUME IInv, InsertsInv, RoomInv, [Next]_vars PROVE RoomInv'
  <2> SUFFICES ASSUME OnlyInserts PROVE Roomy(page') /\ Roomy(disk'.page)
    BY DEF RoomInv, OnlyInserts
  <2>1. Roomy(page) /\ Roomy(disk.page)
    BY <1>2 DEF RoomInv
  <2>2. Nothing \/ Keeping \/ BackTo \/ Upwards \/ Accepts
    BY <1>2, <2>1, LeafSteps
  <2>3. SameLeaves(page, page') => Roomy(page')
    BY <2>1, SameLeavesHold
  <2> QED
    BY <2>1, <2>2, <2>3 DEF Nothing, Keeping, BackTo, Upwards, Accepts, Running
<1> QED
  BY <1>1, <1>2, BTreeInvariant, InsertsInvariant, PTL DEF Spec

-----------------------------------------------------------------------------
(* A scan along next_page                                                  *)

\* Records before others.
LEMMA JoinSorted ==
    ASSUME NEW s \in Sorted, NEW t \in Sorted, \A k \in KeySet(s), l \in KeySet(t) : k < l
    PROVE  s \o t \in Sorted /\ RecordSet(s \o t) = RecordSet(s) \cup RecordSet(t)
<1> DEFINE m == Len(s)
           n == Len(t)
           u == s \o t
<1>1. /\ s \in Seq(Record) /\ m \in Nat /\ DOMAIN s = 1 .. m
      /\ \A i \in 1 .. m : s[i].key \in KeySet(s)
      /\ \A i, j \in 1 .. m : i < j => s[i].key < s[j].key
  BY SortedShape
<1>2. /\ t \in Seq(Record) /\ n \in Nat /\ DOMAIN t = 1 .. n
      /\ \A i \in 1 .. n : t[i].key \in KeySet(t)
      /\ \A i, j \in 1 .. n : i < j => t[i].key < t[j].key
  BY SortedShape
<1>3. u \in Seq(Record) /\ Len(u) = m + n /\ DOMAIN u = 1 .. m + n
  BY <1>1, <1>2
<1>4. \A i \in 1 .. m + n : /\ i <= m => i \in 1 .. m /\ u[i] = s[i]
                            /\ i > m => i - m \in 1 .. n /\ u[i] = t[i - m]
  BY <1>1, <1>2
<1> HIDE DEF m, n, u
<1>5. ASSUME NEW i \in 1 .. m + n, NEW j \in 1 .. m + n, i < j PROVE u[i].key < u[j].key
  <2>1. CASE j <= m
    <3>1. i <= m /\ i \in 1 .. m /\ j \in 1 .. m
      BY <1>1, <1>2, <1>5, <2>1
    <3> QED
      BY <1>1, <1>4, <1>5, <2>1, <3>1
  <2>2. CASE i > m
    <3>1. j > m /\ i - m \in 1 .. n /\ j - m \in 1 .. n /\ i - m < j - m
      BY <1>1, <1>2, <1>5, <2>2
    <3> QED
      BY <1>2, <1>4, <2>2, <3>1
  <2>3. CASE i <= m /\ j > m
    <3>1. u[i] = s[i] /\ u[j] = t[j - m] /\ i \in 1 .. m /\ j - m \in 1 .. n
      BY <1>4, <2>3
    <3> QED
      BY <1>1, <1>2, <3>1
  <2> QED
    BY <1>1, <1>2, <1>5, <2>1, <2>2, <2>3
<1>6. u \in Sorted
  BY <1>3, <1>5 DEF Sorted, Ascends
<1>7. RecordSet(u) \subseteq RecordSet(s) \cup RecordSet(t)
  <2> SUFFICES ASSUME NEW i \in 1 .. m + n PROVE u[i] \in RecordSet(s) \cup RecordSet(t)
    BY <1>3 DEF RecordSet
  <2>1. i <= m \/ i > m
    BY <1>1, <1>2
  <2> QED
    BY <1>1, <1>2, <1>4, <2>1 DEF RecordSet
<1>8. RecordSet(s) \subseteq RecordSet(u)
  <2> SUFFICES ASSUME NEW i \in 1 .. m PROVE s[i] \in RecordSet(u)
    BY <1>1 DEF RecordSet
  <2>1. i \in 1 .. m + n /\ i <= m
    BY <1>1, <1>2
  <2> QED
    BY <1>3, <1>4, <2>1 DEF RecordSet
<1>9. RecordSet(t) \subseteq RecordSet(u)
  <2> SUFFICES ASSUME NEW i \in 1 .. n PROVE t[i] \in RecordSet(u)
    BY <1>2 DEF RecordSet
  <2>1. i + m \in 1 .. m + n /\ i + m > m /\ (i + m) - m = i
    BY <1>1, <1>2
  <2>2. u[i + m] = t[i]
    BY <1>4, <2>1
  <2> QED
    BY <1>3, <2>1, <2>2 DEF RecordSet
<1> QED
  BY <1>6, <1>7, <1>8, <1>9 DEF u

\* Where so many steps along a chain of pages lead, and what is met there.
Collects(h, here, recs, next) ==
    h = [d \in 0 .. MaxPages |->
            [no \in PageNo |-> IF d > 0 /\ no \in here THEN recs[no] \o h[d - 1][next[no]] ELSE <<>>]]

\* Pages of a chain, each with records and the next page.
Chained(here, recs, next) ==
    \A no \in here : no \in PageNo /\ next[no] \in PageNo /\ recs[no] \in Seq(Record)

LEMMA Collection ==
    ASSUME NEW here, NEW recs, NEW next, Chained(here, recs, next)
    PROVE  \E h : Collects(h, here, recs, next)
<1> DEFINE D == [PageNo -> Seq(Record)]
           base == [no \in PageNo |-> <<>>]
           N == MaxPages
           f == [n \in 1 .. N |->
                    [m \in D |-> [no \in PageNo |-> IF no \in here THEN recs[no] \o m[next[no]] ELSE <<>>]]]
<1>0. N \in Nat
  BY BTreeAssumption
<1>1. base \in D
  OBVIOUS
<1>2. f \in [1 .. N -> [D -> D]]
  <2>1. ASSUME NEW m \in D
        PROVE  [no \in PageNo |-> IF no \in here THEN recs[no] \o m[next[no]] ELSE <<>>] \in D
    <3>1. ASSUME NEW no \in here PROVE recs[no] \o m[next[no]] \in Seq(Record)
      <4>1. recs[no] \in Seq(Record) /\ m[next[no]] \in Seq(Record)
        BY DEF Chained
      <4> QED
        BY <4>1
    <3> QED
      BY <3>1
  <2> QED
    BY <2>1
<1>3. PICK h \in [0 .. N -> D] : h[0] = base /\ \A n \in 1 .. N : h[n] = f[n][h[n - 1]]
  <2> HIDE DEF N, f, D, base
  <2>1. \E h \in [0 .. N -> D] : h[0] = base /\ \A n \in 1 .. N : h[n] = f[n][h[n - 1]]
    BY <1>0, <1>1, <1>2, Iteration, SMTT(30)
  <2> QED
    BY <2>1
<1>4. ASSUME NEW d \in 0 .. N
      PROVE  h[d] = [no \in PageNo |-> IF d > 0 /\ no \in here THEN recs[no] \o h[d - 1][next[no]] ELSE <<>>]
  <2>1. CASE d = 0
    <3>1. h[0] = [no \in PageNo |-> <<>>]
      BY <1>3
    <3> QED
      BY <2>1, <3>1
  <2>2. CASE d # 0
    <3>1. d \in 1 .. N /\ d - 1 \in 0 .. N /\ d > 0
      BY <1>0, <2>2
    <3>2. h[d - 1] \in D
      BY <3>1
    <3>3. f[d][h[d - 1]] = [no \in PageNo |-> IF no \in here THEN recs[no] \o h[d - 1][next[no]] ELSE <<>>]
      <4> HIDE DEF D
      <4> QED
        BY <3>1, <3>2
    <3>4. h[d] = f[d][h[d - 1]]
      BY <1>3, <3>1
    <3> HIDE DEF f
    <3> QED
      BY <3>1, <3>3, <3>4
  <2> QED
    BY <2>1, <2>2
<1>5. h = [d \in 0 .. N |-> h[d]]
  OBVIOUS
<1> DEFINE step == [d \in 0 .. N |->
                      [no \in PageNo |-> IF d > 0 /\ no \in here THEN recs[no] \o h[d - 1][next[no]] ELSE <<>>]]
<1>6. h = step
  <2>1. \A d \in 0 .. N : h[d] = step[d]
    BY <1>4
  <2>2. step = [d \in 0 .. N |-> step[d]]
    OBVIOUS
  <2> HIDE DEF step, f, D, base
  <2> QED
    BY <1>5, <2>1, <2>2
<1> HIDE DEF f, D, base
<1> QED
  BY <1>6 DEF Collects, step

\* The records a scan passes, by the number of leaves it may still pass.
Passing(passed, pages) ==
    \A d \in 0 .. MaxPages : \A no \in PageNo :
        passed[d][no] = IF d > 0 /\ no # 0 /\ pages[no].type = "leaf"
                        THEN pages[no].recs \o passed[d - 1][pages[no].next] ELSE <<>>

LEMMA ScanPasses ==
    ASSUME NEW pages, \A p \in LeavesOf(pages) : pages[p].next \in PageNo /\ pages[p].recs \in Seq(Record)
    PROVE  \E passed : Passing(passed, pages) /\ \A from : Scan(pages, from) = passed[MaxPages][FirstLeaf(pages, from)]
<1> DEFINE Is(h) == h = [d \in 0 .. MaxPages |->
                            [no \in PageNo |->
                                IF d > 0 /\ no # 0 /\ pages[no].type = "leaf"
                                THEN pages[no].recs \o h[d - 1][pages[no].next] ELSE <<>>]]
           passed == CHOOSE h : Is(h)
           here == LeavesOf(pages) \ {0}
           recs == [p \in here |-> pages[p].recs]
           next == [p \in here |-> pages[p].next]
<1>1. Chained(here, recs, next)
  BY DEF LeavesOf, Chained
<1>2. PICK h : Collects(h, here, recs, next)
  <2> HIDE DEF here, recs, next
  <2> QED
    BY <1>1, Collection
<1>3. Is(h)
  <2>1. \A no \in PageNo : no \in here <=> no # 0 /\ pages[no].type = "leaf"
    BY DEF LeavesOf
  <2>2. \A no \in here : next[no] = pages[no].next /\ recs[no] = pages[no].recs
    OBVIOUS
  <2> HIDE DEF here, recs, next
  <2>3. \A d \in 0 .. MaxPages : \A no \in PageNo :
           (IF d > 0 /\ no \in here THEN recs[no] \o h[d - 1][next[no]] ELSE <<>>)
             = IF d > 0 /\ no # 0 /\ pages[no].type = "leaf"
               THEN pages[no].recs \o h[d - 1][pages[no].next] ELSE <<>>
    BY <2>1, <2>2
  <2>4. [d \in 0 .. MaxPages |->
            [no \in PageNo |-> IF d > 0 /\ no \in here THEN recs[no] \o h[d - 1][next[no]] ELSE <<>>]]
        = [d \in 0 .. MaxPages |->
              [no \in PageNo |->
                  IF d > 0 /\ no # 0 /\ pages[no].type = "leaf"
                  THEN pages[no].recs \o h[d - 1][pages[no].next] ELSE <<>>]]
    BY <2>3
  <2>5. h = [d \in 0 .. MaxPages |->
                [no \in PageNo |-> IF d > 0 /\ no \in here THEN recs[no] \o h[d - 1][next[no]] ELSE <<>>]]
    BY <1>2 DEF Collects
  <2> QED
    BY <2>4, <2>5
<1>4. Is(passed)
  <2> HIDE DEF Is
  <2> QED
    BY <1>3
<1>5. \A from : Scan(pages, from) = passed[MaxPages][FirstLeaf(pages, from)]
  BY DEF Scan
<1> HIDE DEF passed
<1>6. Passing(passed, pages)
  <2> SUFFICES ASSUME NEW d \in 0 .. MaxPages, NEW no \in PageNo
               PROVE  passed[d][no] = IF d > 0 /\ no # 0 /\ pages[no].type = "leaf"
                                      THEN pages[no].recs \o passed[d - 1][pages[no].next] ELSE <<>>
    BY DEF Passing
  <2>1. passed[d] = [q \in PageNo |->
                        IF d > 0 /\ q # 0 /\ pages[q].type = "leaf"
                        THEN pages[q].recs \o passed[d - 1][pages[q].next] ELSE <<>>]
    BY <1>4
  <2> QED
    BY <2>1
<1> QED
  BY <1>5, <1>6

\* There are no more leaves in a list than pages.
LEMMA ListLength ==
    ASSUME NEW order \in Seq(PageNo), \A i, j \in 1 .. Len(order) : order[i] = order[j] => i = j
    PROVE  Len(order) <= MaxPages
<1> DEFINE n == Len(order)
           f == [i \in 1 .. n |-> order[i]]
<1>1. n \in Nat /\ MaxPages \in Nat /\ MaxPages >= 2
  BY BTreeAssumption
<1>2. f \in Injection(1 .. n, PageNo)
  BY DEF Injection, IsInjective
<1>3. IsFiniteSet(PageNo) /\ Cardinality(PageNo) = MaxPages
  <2>1. 0 \in Int /\ MaxPages - 1 \in Int /\ ~(0 > MaxPages - 1) /\ (MaxPages - 1) - 0 + 1 = MaxPages
    BY <1>1
  <2> QED
    BY <2>1, FS_Interval DEF PageNo
<1>4. Cardinality(1 .. n) = n
  <2>1. 1 \in Int /\ n \in Int /\ (IF 1 > n THEN 0 ELSE n - 1 + 1) = n
    BY <1>1
  <2>2. Cardinality(1 .. n) = IF 1 > n THEN 0 ELSE n - 1 + 1
    BY <2>1, FS_Interval
  <2> QED
    BY <2>1, <2>2
<1> HIDE DEF f, n
<1>5. Cardinality(1 .. n) <= Cardinality(PageNo)
  BY <1>2, <1>3, FS_Injection
<1> QED
  BY <1>3, <1>4, <1>5 DEF n

\* What a scan can rely on: a tree, its leaves linked in order, and no key 0 on the way
\* to the first of them.
ScannableWith(pages, r, c, range, level, order) ==
    /\ Tree(pages, r, c, range, level) /\ Listed(pages, range, order)
    /\ PositiveKeys(pages) /\ (c # NoCarry => c.key # 0)

Scannable(pages, r) == \E c, range, level, order : ScannableWith(pages, r, c, range, level, order)

\* It starts at the first leaf of the list.
LEMMA ScanStarts ==
    ASSUME NEW pages, NEW r, NEW c, NEW range, NEW level, NEW order,
           ScannableWith(pages, r, c, range, level, order)
    PROVE  /\ Len(order) \in Nat \ {0} /\ Len(order) <= MaxPages
           /\ \A i \in 1 .. Len(order) :
                 /\ order[i] \in PageNo /\ order[i] # 0 /\ pages[order[i]].type = "leaf"
                 /\ pages[order[i]].recs \in Sorted /\ KeySet(pages[order[i]].recs) \subseteq range[order[i]]
           /\ \A p \in LeavesOf(pages) : pages[p].next \in PageNo /\ pages[p].recs \in Seq(Record)
           /\ FirstLeaf(pages, r) = order[1]
<1>1. Tree(pages, r, c, range, level) /\ Listed(pages, range, order) /\ PositiveKeys(pages) /\ (c # NoCarry => c.key # 0)
  BY DEF ScannableWith
<1>2. /\ order \in Seq(PageNo) /\ Len(order) > 0 /\ 0 \in range[order[1]]
      /\ LeavesOf(pages) = {order[i] : i \in 1 .. Len(order)}
      /\ \A i, j \in 1 .. Len(order) : order[i] = order[j] => i = j
      /\ \A i \in 1 .. Len(order) : pages[order[i]].next = IF i < Len(order) THEN order[i + 1] ELSE 0
  BY <1>1 DEF Listed
<1>3. Len(order) \in Nat \ {0} /\ Len(order) <= MaxPages
  BY <1>2, ListLength
<1>4. \A p \in LeavesOf(pages) :
         /\ p \in PageNo /\ p # 0 /\ pages[p].type = "leaf" /\ p \in UsedIn(pages) /\ level[p] = 0
         /\ pages[p].recs \in Sorted /\ KeySet(pages[p].recs) \subseteq range[p]
  BY <1>1, TreeKnows DEF LeavesOf
<1>5. \A i \in 1 .. Len(order) : order[i] \in LeavesOf(pages)
  BY <1>2
<1>6. ASSUME NEW p \in LeavesOf(pages) PROVE pages[p].next \in PageNo /\ pages[p].recs \in Seq(Record)
  <2>1. PICK i \in 1 .. Len(order) : p = order[i]
    BY <1>2
  <2>2. 0 \in PageNo
    BY BTreeAssumption DEF PageNo
  <2>3. i < Len(order) => i + 1 \in 1 .. Len(order)
    BY <1>3
  <2>4. pages[p].next \in PageNo
    BY <1>2, <1>4, <1>5, <2>1, <2>2, <2>3
  <2> QED
    BY <1>4, <2>4, SortedShape
<1>7. FirstLeaf(pages, r) = order[1]
  <2>1. FirstLeaf(pages, r) \in LeavesOf(pages) /\ 0 \in range[FirstLeaf(pages, r)]
    BY <1>1, FirstLeafHas
  <2>2. 1 \in 1 .. Len(order)
    BY <1>3
  <2>3. order[1] \in LeavesOf(pages) /\ 0 \in range[order[1]]
    BY <1>2, <1>5, <2>2
  <2>4. \A q, s \in LeavesOf(pages) : q # s => range[q] \cap range[s] = {}
    <3>1. Apart(UsedIn(pages), range, level)
      BY <1>1, TreeKnows DEF Shaped
    <3> QED
      BY <1>4, <3>1 DEF Apart
  <2> QED
    BY <2>1, <2>3, <2>4
<1> QED
  BY <1>3, <1>4, <1>5, <1>6, <1>7

\* The keys among records.
LEMMA KeysAmong == \A recs : KeySet(recs) = {x.key : x \in RecordSet(recs)}
<1> SUFFICES ASSUME NEW recs PROVE KeySet(recs) = {x.key : x \in RecordSet(recs)}
  OBVIOUS
<1>1. \A i \in DOMAIN recs : recs[i] \in RecordSet(recs)
  BY DEF RecordSet
<1>2. \A x \in RecordSet(recs) : \E i \in DOMAIN recs : x = recs[i]
  BY DEF RecordSet
<1> QED
  BY <1>1, <1>2 DEF KeySet

\* It passes every record of the tree once, in the order of the keys.
LEMMA ScanPassesAll ==
    ASSUME NEW pages, NEW r, Scannable(pages, r)
    PROVE  Scan(pages, r) \in Sorted /\ RecordSet(Scan(pages, r)) = AllRecords(pages)
<1>1. PICK c, range, level, order : ScannableWith(pages, r, c, range, level, order)
  BY DEF Scannable
<1> DEFINE n == Len(order)
           recs(i) == pages[order[i]].recs
           Rest(i) == UNION {RecordSet(recs(j)) : j \in i .. n}
<1>2. /\ n \in Nat \ {0} /\ n <= MaxPages
      /\ \A i \in 1 .. n :
            /\ order[i] \in PageNo /\ order[i] # 0 /\ pages[order[i]].type = "leaf"
            /\ recs(i) \in Sorted /\ KeySet(recs(i)) \subseteq range[order[i]]
      /\ \A p \in LeavesOf(pages) : pages[p].next \in PageNo /\ pages[p].recs \in Seq(Record)
      /\ FirstLeaf(pages, r) = order[1]
  BY <1>1, ScanStarts
<1>3. PICK passed : Passing(passed, pages) /\ \A from : Scan(pages, from) = passed[MaxPages][FirstLeaf(pages, from)]
  BY <1>2, ScanPasses
<1>4. /\ LeavesOf(pages) = {order[i] : i \in 1 .. n}
      /\ \A i \in 1 .. n : pages[order[i]].next = IF i < n THEN order[i + 1] ELSE 0
      /\ \A i, j \in 1 .. n : i < j => \A k \in range[order[i]] : \A l \in range[order[j]] : k < l
  BY <1>1 DEF ScannableWith, Listed
<1>5. MaxPages \in Nat
  BY BTreeAssumption
<1> HIDE DEF n
<1> DEFINE Done(x, i) == x \in Sorted /\ RecordSet(x) = Rest(i)
           Passed(d) == \A i \in 1 .. n : n - i + 1 <= d => Done(passed[d][order[i]], i)
           S == {d \in 0 .. MaxPages : Passed(d)}
<1>6. 0 \in S
  <2>1. \A i \in 1 .. n : ~(n - i + 1 <= 0)
    BY <1>2
  <2> QED
    BY <1>5, <2>1
<1>7. <<>> \in Sorted /\ RecordSet(<<>>) = {} /\ KeySet(<<>>) = {}
  BY DEF Sorted, Ascends, RecordSet, KeySet
<1>8. ASSUME NEW d \in 0 .. MaxPages - 1, Passed(d) PROVE Passed(d + 1)
  <2> SUFFICES ASSUME NEW i \in 1 .. n, n - i + 1 <= d + 1 PROVE Done(passed[d + 1][order[i]], i)
    OBVIOUS
  <2> DEFINE next == pages[order[i]].next
             back == passed[d][next]
  <2>1. d + 1 \in 0 .. MaxPages /\ d + 1 > 0 /\ (d + 1) - 1 = d /\ d \in 0 .. MaxPages
    BY <1>5
  <2>2. order[i] \in PageNo /\ order[i] # 0 /\ pages[order[i]].type = "leaf" /\ recs(i) \in Sorted
    BY <1>2
  <2>3. passed[d + 1][order[i]] = recs(i) \o back
    BY <1>3, <2>1, <2>2 DEF Passing
  <2>4. CASE i = n
    <3>1. next = 0
      BY <1>2, <1>4, <2>4
    <3>2. 0 \in PageNo
      BY BTreeAssumption DEF PageNo
    <3>3. back = <<>>
      BY <1>3, <2>1, <3>1, <3>2 DEF Passing
    <3>4. Rest(i) = RecordSet(recs(i))
      <4>1. i .. n = {i}
        BY <1>2, <2>4
      <4> QED
        BY <4>1
    <3> HIDE DEF back, next, Rest, recs
    <3>5. recs(i) \o <<>> \in Sorted /\ RecordSet(recs(i) \o <<>>) = RecordSet(recs(i))
      BY <1>7, <2>2, JoinSorted
    <3> QED
      BY <2>3, <3>3, <3>4, <3>5
  <2>5. CASE i # n
    <3>1. i < n /\ i + 1 \in 1 .. n /\ n - (i + 1) + 1 <= d
      BY <1>2, <1>5, <2>5
    <3>2. next = order[i + 1]
      BY <1>4, <3>1
    <3>3. Done(back, i + 1)
      BY <1>8, <3>1, <3>2
    <3>4. Rest(i) = RecordSet(recs(i)) \cup Rest(i + 1)
      <4>1. i .. n = {i} \cup (i + 1 .. n)
        BY <1>2, <3>1
      <4> HIDE DEF recs
      <4> QED
        BY <4>1
    <3>5. \A k \in KeySet(recs(i)), l \in KeySet(back) : k < l
      <4> SUFFICES ASSUME NEW k \in KeySet(recs(i)), NEW l \in KeySet(back) PROVE k < l
        OBVIOUS
      <4>1. KeySet(back) = {x.key : x \in Rest(i + 1)}
        BY <3>3, KeysAmong
      <4>2. PICK x \in Rest(i + 1) : l = x.key
        BY <4>1
      <4>3. PICK j \in i + 1 .. n : x \in RecordSet(recs(j))
        BY <4>2
      <4>4. l \in KeySet(recs(j))
        BY <4>2, <4>3, KeysAmong
      <4>5. j \in 1 .. n /\ i < j
        BY <1>2, <3>1
      <4>6. k \in range[order[i]] /\ l \in range[order[j]]
        BY <1>2, <4>4, <4>5
      <4> QED
        BY <1>4, <4>5, <4>6
    <3>6. recs(i) \in Sorted /\ back \in Sorted
      BY <2>2, <3>3
    <3> HIDE DEF back, next, Rest, recs
    <3>7. recs(i) \o back \in Sorted /\ RecordSet(recs(i) \o back) = RecordSet(recs(i)) \cup RecordSet(back)
      BY <3>5, <3>6, JoinSorted
    <3> QED
      BY <2>3, <3>3, <3>4, <3>7
  <2> QED
    BY <2>4, <2>5
<1>9. \A d \in 0 .. MaxPages : d \in S
  <2>1. \A d \in 0 .. MaxPages - 1 : d \in S => d + 1 \in S
    <3> TAKE d \in 0 .. MaxPages - 1
    <3> HAVE d \in S
    <3>1. Passed(d)
      OBVIOUS
    <3> HIDE DEF Passed
    <3>2. Passed(d + 1)
      BY <1>8, <3>1
    <3>3. d + 1 \in 0 .. MaxPages
      BY <1>5
    <3> QED
      BY <3>2, <3>3
  <2> HIDE DEF S
  <2> QED
    BY <1>5, <1>6, <2>1, UpTo
<1>10. Passed(MaxPages)
  <2>1. MaxPages \in 0 .. MaxPages
    BY <1>5
  <2> HIDE DEF Passed
  <2> QED
    BY <1>9, <2>1
<1>11. Done(Scan(pages, r), 1)
  <2>1. 1 \in 1 .. n /\ n - 1 + 1 <= MaxPages
    BY <1>2, <1>5
  <2>2. Scan(pages, r) = passed[MaxPages][order[1]]
    BY <1>2, <1>3
  <2> HIDE DEF Done
  <2> QED
    BY <1>10, <2>1, <2>2
<1>12. Rest(1) = AllRecords(pages)
  BY <1>4 DEF AllRecords
<1> HIDE DEF Rest
<1> QED
  BY <1>11, <1>12

-----------------------------------------------------------------------------
(* The abstract map                                                        *)

\* In the middle of a call as well as between calls, a scan of the pages in memory passes
\* every record of the leaves once, in the order of the keys.
ScanShows ==
    pc # "aborted" =>
        Scan(page, root) \in Sorted /\ RecordSet(Scan(page, root)) = AllRecords(page)

THEOREM ScanShowsAlways == ASSUME ~Repeats, OnlyInserts PROVE Spec => []ScanShows
<1>1. IInv /\ InsertsInv => ScanShows
  <2> SUFFICES ASSUME IInv, InsertsInv, pc # "aborted" PROVE Scannable(page, root)
    BY ScanPassesAll DEF ScanShows
  <2>1. ~broken
    BY DEF InsertsInv
  <2>2. PICK range, level : Calling(range, level)
    BY <2>1 DEF IInv
  <2>3. Tree(page, root, carry, range, level) /\ (carry # NoCarry => pc = "insert_up")
    <3>1. Tree(page, root, carry, range, level)
      BY <2>2, CallingAt
    <3>2. carry # NoCarry => pc = "insert_up"
      BY <2>2 DEF Calling, Searching, InsertingUp, AdjustingLeaf, AdjustingUp
    <3> QED
      BY <3>1, <3>2
  <2>4. Forward(page, range)
    <3>1. pc = "idle" \/ pc = "search" \/ pc = "insert_up"
      BY <2>2 DEF Calling, Searching, InsertingUp, AdjustingLeaf, AdjustingUp
    <3> QED
      BY <2>2, <3>1, CallingAt DEF Resting, Searching, InsertingUp, Linked
  <2>5. PICK order : Listed(page, range, order)
    BY <2>4 DEF Forward
  <2>6. PositiveKeys(page) /\ (carry # NoCarry => carry.key # 0)
    BY <2>3 DEF InsertsInv
  <2> QED
    BY <2>3, <2>5, <2>6 DEF Scannable, ScannableWith
<1> QED
  BY <1>1, BTreeInvariant, InsertsInvariant, PTL

\* Sorted records are as many as their keys.
LEMMA SortedLength ==
    ASSUME NEW s \in Sorted
    PROVE  Len(s) = Cardinality(KeySet(s))
<1> DEFINE n == Len(s)
           f == [i \in 1 .. n |-> s[i].key]
<1>1. /\ n \in Nat
      /\ \A i \in 1 .. n : s[i].key \in Nat /\ s[i].key \in KeySet(s)
      /\ \A i, j \in 1 .. n : i < j => s[i].key < s[j].key
      /\ \A k \in KeySet(s) : \E i \in 1 .. n : s[i].key = k
  BY SortedShape
<1>2. \A i, j \in 1 .. n : s[i].key = s[j].key => i = j
  BY <1>1
<1>3. f \in Bijection(1 .. n, KeySet(s))
  BY <1>1, <1>2 DEF Bijection, Injection, Surjection, IsInjective
<1>4. IsFiniteSet(1 .. n) /\ Cardinality(1 .. n) = n
  <2>1. 1 \in Int /\ n \in Int /\ (IF 1 > n THEN 0 ELSE n - 1 + 1) = n
    BY <1>1
  <2> QED
    BY <2>1, FS_Interval
<1> HIDE DEF n, f
<1>5. ExistsBijection(1 .. n, KeySet(s))
  BY <1>3 DEF ExistsBijection
<1>6. Cardinality(KeySet(s)) = Cardinality(1 .. n)
  BY <1>4, <1>5, FS_Bijection
<1> QED
  BY <1>4, <1>6 DEF n

\* ScanInOrder, the part of ScanComplete that is about the records themselves.
THEOREM ScanInOrderAlways == ASSUME ~Repeats, OnlyInserts PROVE Spec => []ScanInOrder
<1>1. ScanShows => ScanInOrder
  <2> DEFINE s == Scan(page, root)
  <2> SUFFICES ASSUME ScanShows, Sound
               PROVE  /\ Len(s) = Cardinality(Stored)
                      /\ \A i \in 1 .. Len(s) - 1 : s[i].key < s[i + 1].key
    BY DEF ScanInOrder
  <2>1. s \in Sorted /\ RecordSet(s) = AllRecords(page)
    BY DEF ScanShows, Sound
  <2> HIDE DEF s
  <2>2. KeySet(s) = Stored
    <3>1. KeySet(s) = {x.key : x \in AllRecords(page)}
      BY <2>1, KeysAmong
    <3>2. \A p \in LeavesOf(page) : KeySet(page[p].recs) = {x.key : x \in RecordSet(page[p].recs)}
      BY KeysAmong
    <3>3. Stored = UNION {KeySet(page[p].recs) : p \in LeavesOf(page)}
      BY DEF Stored, LeavesOf
    <3> QED
      BY <3>1, <3>2, <3>3 DEF AllRecords
  <2>3. Len(s) = Cardinality(Stored)
    BY <2>1, <2>2, SortedLength
  <2>4. ASSUME NEW i \in 1 .. Len(s) - 1 PROVE s[i].key < s[i + 1].key
    <3>1. Len(s) \in Nat /\ \A m, n \in 1 .. Len(s) : m < n => s[m].key < s[n].key
      BY <2>1, SortedShape
    <3>2. i \in 1 .. Len(s) /\ i + 1 \in 1 .. Len(s) /\ i < i + 1
      BY <3>1
    <3> QED
      BY <3>1, <3>2
  <2> QED
    BY <2>3, <2>4
<1> QED
  BY <1>1, ScanShowsAlways, PTL

\* ImplementsKeyStore: as long as records are only inserted, btree is the map of KeyStore:
\* a step of an insert, of a split or of a new root changes what a scan shows by one new
\* record or not at all, a commit keeps it, and a restart brings the last one kept back.
THEOREM ImplementsKeyStoreAlways == ASSUME ~Repeats, OnlyInserts PROVE Spec => ImplementsKeyStore
<1> DEFINE content == RecordsOf(page, root)
           saved   == RecordsOf(disk.page, disk.root)
<1>1. ScanShows => (pc # "aborted" => content = AllRecords(page))
  BY DEF ScanShows, RecordsOf, RecordSet
<1>2. (ScanShows => (pc # "aborted" => content = AllRecords(page)))'
  BY <1>1, PTL
<1>3. Init /\ ScanShows => Store!Init
  <2> SUFFICES ASSUME Init, ScanShows PROVE content = {} /\ saved = {}
    BY DEF Store!Init
  <2>1. page = [p \in PageNo |-> IF p = 1 THEN Leaf(0, 0, <<>>) ELSE Unused] /\ pc = "idle"
    BY DEF Init
  <2>2. \A p \in LeavesOf(page) : RecordSet(page[p].recs) = {}
    BY <2>1 DEF LeavesOf, Leaf, Unused, RecordSet
  <2>3. content = {}
    <3>1. AllRecords(page) = {}
      BY <2>2 DEF AllRecords
    <3>2. pc # "aborted"
      BY <2>1
    <3> HIDE DEF content
    <3> QED
      BY <1>1, <3>1, <3>2
  <2>4. disk.page = page /\ disk.root = root
    BY DEF Init
  <2> QED
    BY <2>3, <2>4
<1>4. ScanShows /\ ScanShows' /\ IInv /\ InsertsInv /\ RoomInv /\ [Next]_vars => [Store!Next]_<<content, saved>>
  <2> SUFFICES ASSUME ScanShows, ScanShows', IInv, InsertsInv, RoomInv, [Next]_vars
               PROVE  Store!Next \/ UNCHANGED <<content, saved>>
    OBVIOUS
  <2>1. Roomy(page)
    BY DEF RoomInv
  <2>2. Nothing \/ Keeping \/ BackTo \/ Upwards \/ Accepts
    BY <2>1, LeafSteps
  <2>3. CASE Nothing
    BY <2>3 DEF Nothing
  <2>4. CASE Keeping
    <3>1. saved' = content /\ content' = content
      BY <2>4 DEF Keeping
    <3> QED
      BY <3>1 DEF Store!Next, Store!Commit
  <2>5. CASE BackTo
    <3>1. content' = saved /\ saved' = saved
      BY <2>5 DEF BackTo
    <3> QED
      BY <3>1 DEF Store!Next, Store!Restart
  <2>6. Running => content = AllRecords(page) /\ content' = AllRecords(page') /\ saved' = saved
    BY <1>1, <1>2 DEF Running
  <2>7. CASE Upwards
    <3>1. AllRecords(page') = AllRecords(page)
      BY <2>7, SameLeavesHold DEF Upwards
    <3> QED
      BY <2>6, <2>7, <3>1 DEF Upwards
  <2>8. CASE Accepts
    <3>1. PICK r \in Record : Fresh(page, r.key) /\ AllRecords(page') = AllRecords(page) \cup {r}
      BY <2>8 DEF Accepts, Taking
    <3>2. content = AllRecords(page) /\ content' = content \cup {r} /\ saved' = saved
      BY <2>6, <2>8, <3>1 DEF Accepts
    <3>3. r.key \notin {x.key : x \in content}
      <4> SUFFICES ASSUME NEW x \in AllRecords(page), x.key = r.key PROVE FALSE
        BY <3>2
      <4>1. PICK p \in LeavesOf(page) : x \in RecordSet(page[p].recs)
        BY DEF AllRecords
      <4>2. x.key \in KeySet(page[p].recs)
        BY <4>1, KeysAmong
      <4> QED
        BY <3>1, <4>2 DEF Fresh
    <3> HIDE DEF content, saved
    <3>4. r \in Store!Record
      BY DEF Record, Store!Record
    <3>5. Store!Insert(r)
      BY <3>2, <3>3 DEF Store!Insert, Store!KeysIn, content, saved
    <3> QED
      BY <3>4, <3>5 DEF Store!Next
  <2> QED
    BY <2>2, <2>3, <2>4, <2>5, <2>7, <2>8
<1> QED
  BY <1>3, <1>4, BTreeInvariant, InsertsInvariant, RoomInvariant, ScanShowsAlways, PTL
     DEF Spec, ImplementsKeyStore, Store!Spec, Store!vars

-----------------------------------------------------------------------------
(* Splits of a full leaf                                                   *)

\* Sizes of records for which a full leaf is always split into two that have room for one
\* more: records of one size, or records of which thirteen fit in a page (with pages of
\* 64 KiB, records of up to 5036 bytes).
SizesSplit ==
    /\ PageSize >= 160
    /\ \/ \A a, b \in Sizes : a = b
       \/ \A a \in Sizes : 13 * a + 64 <= PageSize

\* Sizes are multiples of 8.
LEMMA SizesAreEights == \A r \in Record : r.size \in Sizes /\ r.size \in Nat /\ r.size >= 8 /\ 4 * r.size < PageSize
<1> TAKE r \in Record
<1>1. r.size \in Sizes
  BY DEF Record
<1>2. r.size \in 1 .. PageSize \div 4 - 1 /\ r.size % 8 = 0 /\ PageSize \in Nat
  BY <1>1, BTreeAssumption
<1>3. \A s, p \in Nat : s \in 1 .. p \div 4 - 1 /\ s % 8 = 0 => s >= 8 /\ 4 * s < p
  OBVIOUS
<1>4. r.size \in Nat
  BY SizesAreNumbers
<1> QED
  BY <1>1, <1>2, <1>3, <1>4

\* What records weigh at least.
LEMMA PayloadAtLeast ==
    ASSUME NEW s \in Seq(Record)
    PROVE  /\ PayloadSize(s) >= 8 * Len(s)
           /\ Len(s) >= 1 => PayloadSize(s) >= s[Len(s)].size
           /\ Len(s) = 1 => PayloadSize(s) = s[1].size
           /\ Len(s) >= 2 => PayloadSize(s) >= s[Len(s) - 1].size + s[Len(s)].size
<1> DEFINE N == Len(s)
<1>1. PICK h \in [0 .. Len(s) -> Nat] :
              /\ h[0] = 0
              /\ \A n \in 1 .. Len(s) : h[n] = h[n - 1] + s[n].size
              /\ PayloadSize(s) = h[Len(s)]
  BY PayloadSteps
<1>2. N \in Nat /\ \A n \in 1 .. N : s[n].size \in Nat /\ s[n].size >= 8
  <2>1. N \in Nat /\ \A n \in 1 .. N : s[n] \in Record
    OBVIOUS
  <2> QED
    BY <2>1, SizesAreEights
<1> DEFINE S == {n \in 0 .. N : h[n] >= 8 * n}
<1>3. 0 \in S
  BY <1>1, <1>2
<1>4. \A n \in 0 .. N - 1 : n \in S => n + 1 \in S
  <2> TAKE n \in 0 .. N - 1
  <2> HAVE n \in S
  <2>1. n + 1 \in 1 .. N /\ (n + 1) - 1 = n /\ n \in 0 .. N /\ n + 1 \in 0 .. N
    BY <1>2
  <2>2. h[n + 1] = h[n] + s[n + 1].size /\ h[n] \in Nat /\ h[n] >= 8 * n
    BY <1>1, <2>1
  <2>3. h[n + 1] >= 8 * (n + 1)
    BY <1>2, <2>1, <2>2
  <2> QED
    BY <2>1, <2>3
<1>5. h[N] >= 8 * N
  <2>1. \A n \in 0 .. N : n \in S
    <3> HIDE DEF S, N
    <3> QED
      BY <1>2, <1>3, <1>4, UpTo
  <2> QED
    BY <1>2, <2>1
<1>6. N >= 1 => h[N] = h[N - 1] + s[N].size /\ h[N - 1] \in Nat
  BY <1>1, <1>2
<1>7. N >= 2 => h[N - 1] = h[N - 2] + s[N - 1].size /\ h[N - 2] \in Nat
  <2> SUFFICES ASSUME N >= 2 PROVE h[N - 1] = h[N - 2] + s[N - 1].size /\ h[N - 2] \in Nat
    OBVIOUS
  <2>1. N - 1 \in 1 .. N /\ N - 1 - 1 = N - 2 /\ N - 2 \in 0 .. N
    BY <1>2
  <2> QED
    BY <1>1, <2>1
<1>8. N = 1 => h[N] = s[1].size
  BY <1>1, <1>2
<1>9. N >= 1 => h[N] >= s[N].size
  BY <1>2, <1>6
<1>10. N >= 2 => h[N] >= s[N - 1].size + s[N].size
  <2> SUFFICES ASSUME N >= 2 PROVE h[N] >= s[N - 1].size + s[N].size
    OBVIOUS
  <2>1. N \in 1 .. N /\ N - 1 \in 1 .. N
    BY <1>2
  <2>2. s[N].size \in Nat /\ s[N - 1].size \in Nat
    BY <1>2, <2>1
  <2>3. /\ h[N] = h[N - 1] + s[N].size /\ h[N - 1] \in Nat
        /\ h[N - 1] = h[N - 2] + s[N - 1].size /\ h[N - 2] \in Nat
    <3>1. N >= 1
      BY <1>2
    <3> QED
      BY <1>6, <1>7, <3>1
  <2> DEFINE x == s[N].size
             y == s[N - 1].size
             u == h[N]
             v == h[N - 1]
             w == h[N - 2]
  <2>4. x \in Nat /\ y \in Nat /\ u = v + x /\ v = w + y /\ v \in Nat /\ w \in Nat
    BY <2>2, <2>3, ZenonT(40)
  <2> HIDE DEF x, y, u, v, w
  <2>5. u >= y + x
    BY <2>4
  <2> QED
    BY <2>5 DEF x, y, u
<1> QED
  BY <1>1, <1>5, <1>8, <1>9, <1>10

\* A leaf with no room for a record weighs at least twice as much as any record, and four
\* times as much where sizes differ.
LEMMA FullIsHeavy ==
    ASSUME SizesSplit, NEW s \in Seq(Record), NEW size \in Sizes, ~Fits(s, size), NEW a \in Sizes
    PROVE  /\ Len(s) >= 2 /\ PayloadSize(s) >= 2 * a
           /\ (\A b, c \in Sizes : b = c) \/ PayloadSize(s) >= 4 * a
<1> DEFINE T == PayloadSize(s)
           n == Len(s)
<1>1. T \in Nat /\ n \in Nat /\ T >= 8 * n /\ PageSize \in Nat /\ PageSize >= 160
  BY PayloadNat, PayloadAtLeast, BTreeAssumption DEF SizesSplit
<1>2. /\ size \in Nat /\ size >= 8 /\ 4 * size < PageSize
      /\ a \in Nat /\ a >= 8 /\ 4 * a < PageSize
  <2>1. \A b \in Sizes : b \in Nat /\ b >= 8 /\ 4 * b < PageSize
    <3> TAKE b \in Sizes
    <3>1. b \in 1 .. PageSize \div 4 - 1 /\ b % 8 = 0 /\ PageSize \in Nat
      BY BTreeAssumption
    <3>2. \A x, p \in Nat : x \in 1 .. p \div 4 - 1 /\ x % 8 = 0 => x >= 8 /\ 4 * x < p
      OBVIOUS
    <3>3. b \in Nat
      <4>1. PageSize \div 4 - 1 \in Int
        BY <3>1
      <4> QED
        BY <3>1, <4>1
    <3> QED
      BY <3>1, <3>2, <3>3
  <2> QED
    BY <2>1
<1>3. PageSize - 48 - T - 16 * n <= size + 16
  <2>1. ~(PageSize - HeaderSize - T - MetaSize * n > size + MetaSize)
    BY DEF Fits, FreeSpace
  <2> HIDE DEF T, n
  <2> QED
    BY <1>1, <1>2, <2>1 DEF HeaderSize, MetaSize
<1>4. CASE \A b, c \in Sizes : b = c
  <2>1. n = 1 => T = a
    <3> SUFFICES ASSUME n = 1 PROVE T = a
      OBVIOUS
    <3>1. s[1] \in Record /\ T = s[1].size
      BY PayloadAtLeast
    <3> QED
      BY <1>4, <3>1, SizesAreEights
  <2>2. n >= 2 => T >= 2 * a
    <3> SUFFICES ASSUME n >= 2 PROVE T >= 2 * a
      OBVIOUS
    <3>1. s[n] \in Record /\ s[n - 1] \in Record
      BY <1>1
    <3>2. s[n].size = a /\ s[n - 1].size = a
      BY <1>4, <3>1, SizesAreEights
    <3>3. T >= s[n - 1].size + s[n].size
      BY PayloadAtLeast
    <3> QED
      BY <1>1, <1>2, <3>2, <3>3
  <2>3. n = 0 => T = 0
    BY PayloadNat
  <2>4. size = a
    BY <1>4
  <2> HIDE DEF T, n
  <2>5. n >= 2
    BY <1>1, <1>2, <1>3, <2>1, <2>3, <2>4
  <2> QED
    BY <1>4, <2>2, <2>5 DEF T, n
<1>5. CASE \A b \in Sizes : 13 * b + 64 <= PageSize
  <2>1. 13 * size + 64 <= PageSize /\ 13 * a + 64 <= PageSize
    BY <1>5
  <2>2. n = 1 => T <= size \/ 13 * T + 64 <= PageSize
    <3> SUFFICES ASSUME n = 1 PROVE 13 * T + 64 <= PageSize
      OBVIOUS
    <3>1. s[1] \in Record /\ T = s[1].size
      BY PayloadAtLeast
    <3> QED
      BY <1>5, <3>1, SizesAreEights
  <2>3. n = 0 => T = 0
    BY PayloadNat
  <2> HIDE DEF T, n
  <2>4. T >= 4 * a /\ T >= 2 * a
    BY <1>1, <1>2, <1>3, <2>1
  <2>5. n >= 2
    BY <1>1, <1>2, <1>3, <2>1, <2>2, <2>3
  <2> QED
    BY <2>4, <2>5 DEF T, n
<1> QED
  BY <1>4, <1>5 DEF SizesSplit

\* balance moves a record to the page behind as long as that has less than half.
LEMMA MovedShifts ==
    ASSUME NEW s \in Sorted, FreeSpace(s) > 0,
           NEW x \in [first : Sorted, last : Sorted], SharesOut(x, s),
           PayloadSize(x.last) < PayloadSize(s) \div 2,
           NEW y, y = Moving(FALSE, x)
    PROVE  /\ x.first # <<>> /\ SharesOut(y, s) /\ Len(y.first) = Len(x.first) - 1
           /\ \E a \in Sizes : PayloadSize(y.last) - a < PayloadSize(s) \div 2
<1>1. /\ x.first \in Sorted /\ x.last \in Sorted
      /\ s \in Seq(Record) /\ x.first \in Seq(Record) /\ x.last \in Seq(Record)
  BY SortedShape
<1>2. /\ PayloadSize(s) \in Nat /\ PayloadSize(x.first) \in Nat /\ PayloadSize(x.last) \in Nat
      /\ (Len(x.first) = 0 => PayloadSize(x.first) = 0) /\ Len(x.first) \in Nat
  BY <1>1, PayloadNat
<1>3. PayloadSize(x.first) + PayloadSize(x.last) = PayloadSize(s)
  BY DEF SharesOut
<1>4. x.first # <<>>
  <2>1. ASSUME x.first = <<>> PROVE FALSE
    <3>1. PayloadSize(x.last) = PayloadSize(s)
      BY <1>2, <1>3, <2>1
    <3>2. \A t \in Nat : t >= t \div 2
      OBVIOUS
    <3> QED
      BY <1>2, <3>1, <3>2
  <2> QED
    BY <2>1
<1>5. SharesOut(y, s)
  BY <1>4, MovedShares
<1> DEFINE t == Front(x.first)
           r == Last(x.first)
<1>6. t \in Sorted /\ r \in Record
  BY <1>1, <1>4, LastLeaves
<1>14. Len(x.first) = Len(t) + 1 /\ PayloadSize(x.first) = PayloadSize(t) + r.size
  BY <1>1, <1>4, LastLeaves
<1>7. y.first = t
  BY DEF Moving
<1> HIDE DEF t, r
<1>8. PayloadSize(t) \in Nat /\ Len(t) \in Nat /\ r.size \in Nat /\ r.size \in Sizes
  <2>1. t \in Seq(Record)
    BY <1>6, SortedShape
  <2> QED
    BY <1>6, <2>1, PayloadNat, SizesAreEights
<1>9. PayloadSize(t) + PayloadSize(y.last) = PayloadSize(s)
  BY <1>5, <1>7 DEF SharesOut
<1> DEFINE half == PayloadSize(s) \div 2
           pl   == PayloadSize(y.last)
<1>10. half \in Nat
  BY <1>2
<1>11. PayloadSize(y.last) = PayloadSize(x.last) + r.size
  <2>0. pl \in Nat
    <3>1. y.last \in Seq(Record)
      <4>1. x.last \in Sorted /\ r \in Record /\ Handed(x.last, r) \in Seq(Record)
        BY <1>1, <1>6, PlacedAmong DEF Handed
      <4> QED
        BY <4>1 DEF Moving, r
    <3> QED
      BY <3>1, PayloadNat
  <2> HIDE DEF pl
  <2>2. pl \in Nat /\ PayloadSize(t) + pl = PayloadSize(s)
    BY <1>9, <2>0 DEF pl
  <2>3. pl = PayloadSize(x.last) + r.size
    <3>1. r.size \in Nat /\ PayloadSize(t) \in Nat
      BY <1>8
    <3> DEFINE T  == PayloadSize(s)
               xf == PayloadSize(x.first)
               xl == PayloadSize(x.last)
               yf == PayloadSize(t)
               a  == r.size
    <3>2. /\ xf + xl = T /\ xf = yf + a /\ yf + pl = T
          /\ T \in Nat /\ xf \in Nat /\ xl \in Nat /\ yf \in Nat /\ a \in Nat /\ pl \in Nat
      BY <1>2, <1>3, <1>14, <2>2, <3>1, ZenonT(40)
    <3> HIDE DEF T, xf, xl, yf, a
    <3>3. pl = xl + a
      BY <3>2
    <3> QED
      BY <3>3 DEF xl, a
  <2> QED
    BY <2>3 DEF pl
<1>12. PayloadSize(y.last) - r.size < half
  <2>1. \A a, b, c \in Nat : b < c => (b + a) - a < c
    OBVIOUS
  <2>2. PayloadSize(x.last) < half
    OBVIOUS
  <2> HIDE DEF half
  <2> QED
    BY <1>2, <1>8, <1>10, <1>11, <2>1, <2>2
<1>13. Len(y.first) = Len(x.first) - 1
  <2>1. Len(t) \in Nat /\ Len(x.first) = Len(t) + 1 /\ y.first = t
    BY <1>7, <1>8, <1>14
  <2>2. \A a, b \in Nat : b = a + 1 => a = b - 1
    OBVIOUS
  <2> QED
    BY <1>2, <2>1, <2>2, ZenonT(40)
<1> QED
  BY <1>4, <1>5, <1>8, <1>12, <1>13

\* So many steps of balance into an empty page: the records are shared out, and the page
\* filled has half of the payload, but not more than half by a record.
Shifted(x, s, n) ==
    /\ SharesOut(x, s)
    /\ PayloadSize(x.last) >= PayloadSize(s) \div 2 \/ Len(x.first) = Len(s) - n
    /\ PayloadSize(x.last) = 0 \/ \E a \in Sizes : PayloadSize(x.last) - a < PayloadSize(s) \div 2

LEMMA ShiftedOnce ==
    ASSUME NEW s \in Sorted, FreeSpace(s) > 0, NEW n \in Nat,
           NEW x \in [first : Sorted, last : Sorted], Shifted(x, s, n),
           NEW y, y = IF PayloadSize(x.last) >= PayloadSize(s) \div 2 THEN x ELSE Moving(FALSE, x)
    PROVE  Shifted(y, s, n + 1)
<1>1. /\ PayloadSize(s) \in Nat /\ PayloadSize(x.last) \in Nat /\ Len(x.first) \in Nat /\ Len(s) \in Nat
  BY SortedShape, PayloadNat
<1>2. CASE PayloadSize(x.last) >= PayloadSize(s) \div 2
  BY <1>2 DEF Shifted
<1>3. CASE ~(PayloadSize(x.last) >= PayloadSize(s) \div 2)
  <2>1. y = Moving(FALSE, x) /\ SharesOut(x, s)
    BY <1>3 DEF Shifted
  <2>2. PayloadSize(x.last) < PayloadSize(s) \div 2
    <3>1. \A a, b \in Nat : ~(a >= b \div 2) => a < b \div 2
      OBVIOUS
    <3> QED
      BY <1>1, <1>3, <3>1, ZenonT(40)
  <2>3. /\ SharesOut(y, s) /\ Len(y.first) = Len(x.first) - 1
        /\ \E a \in Sizes : PayloadSize(y.last) - a < PayloadSize(s) \div 2
    BY <2>1, <2>2, MovedShifts
  <2>4. Len(x.first) = Len(s) - n
    BY <1>3 DEF Shifted
  <2>5. Len(y.first) = Len(s) - (n + 1)
    <3>1. \A a, b, c \in Nat : a = b - c => a - 1 = b - (c + 1)
      OBVIOUS
    <3>2. Len(x.first) - 1 = Len(s) - (n + 1)
      BY <1>1, <2>4, <3>1, ZenonT(40)
    <3> QED
      BY <2>3, <3>2, ZenonT(40)
  <2> QED
    BY <2>3, <2>5, ZenonT(40) DEF Shifted
<1> QED
  BY <1>2, <1>3

\* The other half leaves room for the record.
LEMMA RoomBeside ==
    ASSUME NEW most \in Nat, NEW sum \in Nat, NEW n \in Nat, NEW sum2 \in Nat, NEW n2 \in Nat, NEW size \in Nat,
           most - HeaderSize - (sum + sum2) - MetaSize * (n + n2) > 0, sum2 >= size, n2 >= 1
    PROVE  most - HeaderSize - sum - MetaSize * n > size + MetaSize
BY DEF HeaderSize, MetaSize

\* A leaf with no room for a record is split into two with records, in order, and each has
\* room for it.
LEMMA SplitWorks ==
    ASSUME SizesSplit, NEW s \in Sorted, FreeSpace(s) > 0, NEW size \in Sizes, ~Fits(s, size),
           NEW b, b = BalanceLeaves(s, <<>>)
    PROVE  /\ BalanceOk(b) /\ b.first # <<>> /\ b.last # <<>>
           /\ Fits(b.first, size) /\ Fits(b.last, size)
<1> DEFINE none == <<>>
           T == PayloadSize(s)
<1>1. none \in Sorted /\ Len(none) = 0 /\ RecordSet(none) = {} /\ KeySet(none) = {}
  BY DEF Sorted, Ascends, KeySet, RecordSet
<1> HIDE DEF none
<1>2. /\ s \in Seq(Record) /\ none \in Seq(Record)
      /\ PayloadSize(s) \in Nat /\ Len(s) \in Nat /\ PayloadSize(none) = 0
  <2>1. s \in Seq(Record) /\ none \in Seq(Record)
    BY <1>1, SortedShape
  <2> QED
    BY <1>1, <2>1, PayloadNat
<1>3. PICK toFirst \in BOOLEAN, N \in Nat : \E h :
          Run(s, none, b, toFirst, N, h) /\ Stops(s, none, b, toFirst, N, h)
  BY <1>1, BalanceSteps DEF none
<1>4. PICK h : Run(s, none, b, toFirst, N, h) /\ Stops(s, none, b, toFirst, N, h)
  BY <1>3
<1>5. /\ h \in [0 .. N -> [first : Sorted, last : Sorted]]
      /\ h[0] = [first |-> s, last |-> none]
      /\ b.first = h[N].first /\ b.last = h[N].last
  BY <1>4 DEF Run
<1>6. ~toFirst
  <2>1. toFirst = (PayloadSize(s) < PayloadSize(none))
    BY <1>4 DEF Run, none
  <2>2. ~(PayloadSize(s) < PayloadSize(none))
    BY <1>2
  <2> QED
    BY <2>1, <2>2, ZenonT(40)
<1>7. Halfway(s, none) = T \div 2
  <2>1. T + PayloadSize(none) = T
    BY <1>2
  <2> QED
    BY <2>1 DEF Halfway
<1>8. /\ N = Len(s)
      /\ \A n \in 1 .. N :
            h[n] = IF PayloadSize(h[n - 1].last) >= T \div 2 THEN h[n - 1] ELSE Moving(FALSE, h[n - 1])
      /\ PayloadSize(h[N].last) >= T \div 2 => b.ok
  <2> HIDE DEF T
  <2>1. toFirst = FALSE /\ h[0].first = s
    BY <1>5, <1>6
  <2> QED
    BY <1>4, <1>7, <2>1 DEF Stops, Giving, Filling
<1> DEFINE S == {n \in 0 .. N : Shifted(h[n], s, n)}
<1>9. 0 \in S
  <2>1. h[0].first = s /\ h[0].last = none
    BY <1>5
  <2>2. SharesOut(h[0], s)
    BY <1>1, <1>2, <2>1 DEF SharesOut
  <2>3. Len(h[0].first) = Len(s) - 0 /\ PayloadSize(h[0].last) = 0
    BY <1>2, <2>1
  <2>4. Shifted(h[0], s, 0)
    BY <2>2, <2>3 DEF Shifted
  <2> QED
    BY <2>4
<1>10. \A n \in 0 .. N - 1 : n \in S => n + 1 \in S
  <2> TAKE n \in 0 .. N - 1
  <2> HAVE n \in S
  <2> DEFINE m == n + 1
  <2>1. m \in 1 .. N /\ m - 1 = n /\ m \in 0 .. N /\ n \in 0 .. N /\ n \in Nat /\ m = n + 1
    OBVIOUS
  <2>2. Shifted(h[n], s, n)
    OBVIOUS
  <2> HIDE DEF m, T
  <2>3. h[n] \in [first : Sorted, last : Sorted]
    BY <1>5, <2>1
  <2>4. h[m] = IF PayloadSize(h[n].last) >= T \div 2 THEN h[n] ELSE Moving(FALSE, h[n])
    BY <1>8, <2>1
  <2>5. Shifted(h[m], s, n + 1)
    BY <2>1, <2>2, <2>3, <2>4, ShiftedOnce DEF T
  <2>6. m \in S
    BY <2>1, <2>5
  <2> QED
    BY <2>6 DEF m
<1>11. Shifted(h[N], s, N) /\ h[N] \in [first : Sorted, last : Sorted]
  <2>1. \A n \in 0 .. N : n \in S
    <3> HIDE DEF S
    <3> QED
      BY <1>9, <1>10, UpTo
  <2> QED
    BY <1>5, <2>1
<1> DEFINE pf == PayloadSize(b.first)
           pl == PayloadSize(b.last)
           nf == Len(b.first)
           nl == Len(b.last)
<1>12. b.first \in Sorted /\ b.last \in Sorted /\ b.first \in Seq(Record) /\ b.last \in Seq(Record)
  <2>1. b.first \in Sorted /\ b.last \in Sorted
    BY <1>5, <1>11
  <2> QED
    BY <2>1, SortedShape
<1>13. /\ pf \in Nat /\ pl \in Nat /\ nf \in Nat /\ nl \in Nat
       /\ (nf = 0 => pf = 0) /\ (nl = 0 => pl = 0)
  BY <1>12, PayloadNat
<1>14. /\ nf + nl = Len(s) /\ pf + pl = T
       /\ pl >= T \div 2 \/ nf = Len(s) - N
       /\ pl = 0 \/ \E a \in Sizes : pl - a < T \div 2
       /\ \A k \in KeySet(b.first), l \in KeySet(b.last) : k < l
  BY <1>5, <1>11 DEF Shifted, SharesOut
<1>15. T \in Nat /\ size \in Nat /\ PageSize \in Nat /\ size >= 8 /\ \A a \in Sizes : a \in Nat
  <2>1. \A a \in Sizes : a \in Nat /\ a >= 8
    <3> TAKE a \in Sizes
    <3>1. a \in 1 .. PageSize \div 4 - 1 /\ a % 8 = 0 /\ PageSize \in Nat
      BY BTreeAssumption
    <3>2. \A x, p \in Nat : x \in 1 .. p \div 4 - 1 /\ x % 8 = 0 => x >= 8
      OBVIOUS
    <3>3. PageSize \div 4 - 1 \in Int
      BY <3>1
    <3>4. a \in Nat
      BY <3>1, <3>3
    <3> QED
      BY <3>1, <3>2, <3>4
  <2> QED
    BY <1>2, <2>1, BTreeAssumption
<1> HIDE DEF T, pf, pl, nf, nl
<1>16. pl >= T \div 2
  <2>1. CASE nf = Len(s) - N
    <3>1. nf = 0
      BY <1>2, <1>8, <2>1
    <3>2. pl = T
      BY <1>13, <1>14, <1>15, <3>1
    <3> QED
      BY <1>15, <3>2
  <2> QED
    BY <1>14, <2>1
<1>17. b.ok
  <2>1. PayloadSize(h[N].last) >= T \div 2
    BY <1>5, <1>16 DEF pl
  <2> QED
    BY <1>8, <2>1
<1>18. /\ \A a \in Sizes : T >= 2 * a
       /\ (\A a, c \in Sizes : a = c) \/ (\A a \in Sizes : T >= 4 * a)
  <2>1. \A a \in Sizes : T >= 2 * a /\ ((\A d, c \in Sizes : d = c) \/ T >= 4 * a)
    BY <1>2, FullIsHeavy DEF T
  <2> QED
    BY <2>1
<1>19. pl > 0 /\ pf > 0
  <2>1. T >= 2 * size
    BY <1>18
  <2>2. pl > 0
    BY <1>13, <1>15, <1>16, <2>1
  <2>3. PICK a \in Sizes : pl - a < T \div 2
    BY <1>14, <2>2
  <2>4. T >= 2 * a /\ a \in Nat
    BY <1>15, <1>18
  <2>5. pf > 0
    BY <1>13, <1>14, <1>15, <2>3, <2>4
  <2> QED
    BY <2>2, <2>5
<1>20. nf >= 1 /\ nl >= 1
  BY <1>13, <1>19
<1>21. pl >= size /\ pf >= size
  <2>1. CASE \A a, c \in Sizes : a = c
    <3>1. \A t \in Seq(Record) : Len(t) >= 1 => PayloadSize(t) >= size
      <4> TAKE t \in Seq(Record)
      <4> HAVE Len(t) >= 1
      <4>1. t[Len(t)] \in Record /\ PayloadSize(t) >= t[Len(t)].size
        BY PayloadAtLeast
      <4>2. t[Len(t)].size = size
        BY <2>1, <4>1, SizesAreEights
      <4> QED
        BY <4>1, <4>2
    <3> QED
      BY <1>12, <1>20, <3>1 DEF pf, pl, nf, nl
  <2>2. CASE \A a \in Sizes : T >= 4 * a
    <3>1. T >= 4 * size
      BY <2>2
    <3>2. pl >= size
      BY <1>13, <1>15, <1>16, <3>1
    <3>3. PICK a \in Sizes : pl - a < T \div 2
      BY <1>14, <1>19
    <3>4. T >= 4 * a /\ a \in Nat
      BY <1>15, <2>2
    <3>5. pf >= size
      BY <1>13, <1>14, <1>15, <3>1, <3>3, <3>4
    <3> QED
      BY <3>2, <3>5
  <2> QED
    BY <1>18, <2>1, <2>2
<1>22. PageSize - HeaderSize - (pf + pl) - MetaSize * (nf + nl) > 0
  <2>1. PageSize - HeaderSize - PayloadSize(s) - MetaSize * Len(s) > 0
    BY DEF FreeSpace
  <2> QED
    BY <1>14, <2>1 DEF T
<1>23. Fits(b.first, size)
  <2>1. PageSize - HeaderSize - pf - MetaSize * nf > size + MetaSize
    BY <1>13, <1>15, <1>20, <1>21, <1>22, RoomBeside
  <2> QED
    BY <2>1 DEF Fits, FreeSpace, pf, nf
<1>24. Fits(b.last, size)
  <2>1. pl + pf = pf + pl /\ nl + nf = nf + nl
    BY <1>13
  <2>2. PageSize - HeaderSize - (pl + pf) - MetaSize * (nl + nf) > 0
    BY <1>22, <2>1
  <2>3. PageSize - HeaderSize - pl - MetaSize * nl > size + MetaSize
    BY <1>13, <1>15, <1>20, <1>21, <2>2, RoomBeside
  <2> QED
    BY <2>3 DEF Fits, FreeSpace, pl, nl
<1>25. b.first # <<>> /\ b.last # <<>>
  <2>1. Len(<<>>) = 0
    OBVIOUS
  <2> QED
    BY <1>20, <2>1 DEF nf, nl
<1>26. Last(b.first).key < b.last[1].key
  <2>1. Last(b.first).key \in KeySet(b.first) /\ b.last[1].key \in KeySet(b.last)
    BY <1>12, <1>25, EndsSorted
  <2> QED
    BY <1>14, <2>1
<1> QED
  BY <1>17, <1>23, <1>24, <1>25, <1>26 DEF BalanceOk

-----------------------------------------------------------------------------
(* Leaves without records                                                  *)

\* Only the root may be a leaf without records, and it is not one in the middle of a
\* split.
Empties(pages, only) == \A p \in LeavesOf(pages) : pages[p].recs = <<>> => p \in only

HoldInv ==
    OnlyInserts =>
        /\ Empties(page, IF pc = "insert_up" THEN {} ELSE {root})
        /\ Empties(disk.page, {disk.root})

LEMMA SameEmpties ==
    ASSUME NEW pages, NEW now, SameLeaves(pages, now), NEW only, Empties(pages, only)
    PROVE  Empties(now, only)
BY DEF SameLeaves, Empties, LeavesOf

\* A place among records is never left empty.
LEMMA PlacedHolds ==
    ASSUME NEW s \in Sorted, NEW r \in Record
    PROVE  Place(s, r) # <<>>
<1>1. Place(s, r) \in Seq(Record) /\ Len(Place(s, r)) = Len(s) + 1 /\ Len(s) \in Nat
  BY PlacedAmong, SortedShape
<1>2. Len(<<>>) = 0
  OBVIOUS
<1>3. \A n \in Nat : n + 1 # 0
  OBVIOUS
<1> QED
  BY <1>1, <1>2, <1>3, ZenonT(40)

\* The leaf that takes in a record has one; where it is split both halves have.
LEMMA InsertLeafHolds ==
    ASSUME SizesSplit, IInv, ~broken, OnlyInserts, Roomy(page), Empties(page, {root}), InsertIntoLeaf \/ SplitLeaf
    PROVE  /\ InsertIntoLeaf => root' = root /\ pc' = "idle" /\ Empties(page', {root})
           /\ SplitLeaf => Empties(page', {})
<1> DEFINE rec  == [key |-> op.key, size |-> op.size]
           recs == page[Top].recs
<1>1. PICK range, level : Calling(range, level)
  BY DEF IInv
<1>2. pc = "search" /\ page[Top].type = "leaf" /\ op.kind = "insert"
  BY DEF InsertIntoLeaf, SplitLeaf, LeafFull, IsType
<1>3. SearchOK(page, stack, op, range) /\ Tree(page, root, carry, range, level) /\ Path(page, stack, root, level)
  BY <1>1, <1>2, CallingAt DEF Searching
<1>4. FileOK /\ stack # <<>>
  BY <1>3 DEF IInv, SearchOK
<1>5. Top \in UsedIn(page) /\ Top \in PageNo
  BY <1>3, <1>4, AtTop
<1>6. /\ page[Top] \in LeafPages /\ recs \in Sorted /\ page \in [PageNo -> Pages]
  BY <1>2, <1>3, <1>5, TreeKnows
<1>7. rec \in Record /\ rec.key = op.key /\ rec.size = op.size /\ op.size \in Sizes
      /\ op.key \notin KeySet(recs)
  <2>1. op.key \in Keys /\ op.size \in Sizes /\ Top \in LeavesOf(page)
    BY <1>2, <1>3, <1>5 DEF SearchOK, LeavesOf
  <2>2. op.key \notin KeySet(recs)
    BY <1>2, <1>3, <2>1 DEF SearchOK
  <2> QED
    BY <2>1, <2>2 DEF Record
<1>8. FreeSpace(recs) > 0
  BY <1>2, <1>5 DEF Roomy, LeavesOf
<1> HIDE DEF rec, recs
<1>9. \A s \in Sorted : Place(s, rec) # <<>>
  BY <1>7, PlacedHolds
<1>10. ASSUME InsertIntoLeaf PROVE root' = root /\ pc' = "idle" /\ Empties(page', {root})
  <2> DEFINE new == Place(recs, rec)
  <2>1. page' = [page EXCEPT ![Top].recs = new] /\ root' = root /\ pc' = "idle"
    BY <1>10 DEF InsertIntoLeaf, Return, rec, recs
  <2>2. new # <<>>
    BY <1>6, <1>9
  <2> HIDE DEF new
  <2>3. /\ page'[Top].type = "leaf" /\ page'[Top].recs = new
        /\ \A q \in PageNo : q # Top => page'[q] = page[q]
    BY <1>2, <1>5, <1>6, <2>1 DEF LeafPages
  <2> QED
    BY <2>1, <2>2, <2>3 DEF Empties, LeavesOf
<1>11. ASSUME SplitLeaf PROVE Empties(page', {})
  <2> DEFINE no   == Allocated
             b    == BalanceLeaves(recs, <<>>)
             mid  == b.last[1].key
             new1 == IF op.key > mid THEN b.first ELSE Place(b.first, rec)
             new2 == IF op.key > mid THEN Place(b.last, rec) ELSE b.last
  <2>1. /\ CanAllocate /\ Allocate /\ ~Fits(recs, op.size)
        /\ page' = [page EXCEPT ![Top] = [@ EXCEPT !.next = no, !.recs = new1],
                                ![no] = NewLeaf(Top, page[Top].next, new2)]
    BY <1>7, <1>11 DEF SplitLeaf, LeafFull, rec, recs
  <2>2. b.first \in Sorted /\ b.last \in Sorted /\ b.first # <<>> /\ b.last # <<>>
    BY <1>6, <1>7, <1>8, <2>1, SplitKeeps, SplitWorks
  <2>3. no \in PageNo /\ no # Top /\ no \notin LeavesOf(page)
    <3>1. no \in PageNo /\ no \notin UsedIn(page)
      BY <1>4, <1>6, <2>1, Allocates
    <3> QED
      BY <1>5, <3>1 DEF UsedIn, LeavesOf
  <2>4. new1 # <<>> /\ new2 # <<>>
    <3> HIDE DEF b, mid
    <3> QED
      BY <1>9, <2>2
  <2> HIDE DEF b, mid, no, new1, new2
  <2>5. /\ page'[Top].type = "leaf" /\ page'[Top].recs = new1
        /\ page'[no].type = "leaf" /\ page'[no].recs = new2
        /\ \A q \in PageNo : q # Top /\ q # no => page'[q] = page[q]
    BY <1>2, <1>5, <1>6, <2>1, <2>3 DEF LeafPages, NewLeaf, Leaf
  <2>6. page[root].type = "leaf" => root = Top
    <3> SUFFICES ASSUME page[root].type = "leaf" PROVE root = Top
      OBVIOUS
    <3>1. /\ Len(stack) \in Nat /\ Len(stack) > 0 /\ Top = stack[Len(stack)]
          /\ level[Top] + Len(stack) = level[root] + 1
      <4>1. Top = stack[Len(stack)]
        BY <1>3, <1>4, AtTop
      <4> QED
        BY <1>3, <1>4, <4>1, PathTop
    <3>2. root \in UsedIn(page) /\ stack[1] = root
      <4>1. stack[1] = root /\ stack[1] \in UsedIn(page)
        BY <1>3, <1>4, <3>1 DEF Path
      <4> QED
        BY <4>1
    <3>3. level[root] = 0 /\ level[Top] = 0
      BY <1>2, <1>3, <1>5, <3>2, TreeSteps
    <3>4. Len(stack) = 1
      BY <3>1, <3>3
    <3> QED
      BY <3>1, <3>2, <3>4
  <2> SUFFICES ASSUME NEW q \in LeavesOf(page') PROVE page'[q].recs # <<>>
    BY DEF Empties
  <2>7. q = Top \/ q = no \/ (q \in LeavesOf(page) /\ q # root /\ page'[q] = page[q])
    BY <2>5, <2>6 DEF LeavesOf
  <2> QED
    BY <2>4, <2>5, <2>7 DEF Empties
<1> QED
  BY <1>10, <1>11

\* As long as records are only inserted, and are split well, no leaf but the root is ever
\* without records, in memory or in the file.
THEOREM HoldInvariant == ASSUME ~Repeats, SizesSplit PROVE Spec => []HoldInv
<1>1. Init => HoldInv
  <2> SUFFICES ASSUME Init
               PROVE  /\ Empties(page, IF pc = "insert_up" THEN {} ELSE {root})
                      /\ Empties(disk.page, {disk.root})
    BY DEF HoldInv
  <2>1. /\ page = [p \in PageNo |-> IF p = 1 THEN Leaf(0, 0, <<>>) ELSE Unused] /\ disk.page = page
        /\ root = 1 /\ disk.root = root /\ pc = "idle"
    BY DEF Init
  <2>2. LeavesOf(page) \subseteq {1}
    BY <2>1 DEF LeavesOf, Leaf, Unused
  <2> QED
    BY <2>1, <2>2 DEF Empties
<1>2. ASSUME IInv, InsertsInv, RoomInv, HoldInv, [Next]_vars PROVE HoldInv'
  <2> SUFFICES ASSUME OnlyInserts
               PROVE  /\ Empties(page', IF pc' = "insert_up" THEN {} ELSE {root'})
                      /\ Empties(disk'.page, {disk'.root})
    BY DEF HoldInv, OnlyInserts
  <2>1. /\ Roomy(page) /\ Empties(disk.page, {disk.root}) /\ Empties(page, {root})
        /\ pc = "insert_up" => Empties(page, {})
        /\ ~broken
    BY <1>2 DEF RoomInv, HoldInv, InsertsInv, Empties
  <2>2. Nothing \/ Keeping \/ BackTo \/ Upwards \/ Accepts
    BY <1>2, <2>1, LeafSteps
  <2>3. CASE Nothing
    BY <2>1, <2>3 DEF Nothing
  <2>4. CASE Keeping \/ BackTo
    BY <2>1, <2>4 DEF Keeping, BackTo
  <2>5. CASE Upwards
    <3>1. Empties(page', {}) /\ disk' = disk
      BY <2>1, <2>5, SameEmpties DEF Upwards, Running
    <3> QED
      BY <2>1, <3>1 DEF Empties
  <2>6. CASE Accepts
    <3>1. /\ InsertIntoLeaf => root' = root /\ pc' = "idle" /\ Empties(page', {root})
          /\ SplitLeaf => Empties(page', {})
      BY <1>2, <2>1, <2>6, InsertLeafHolds DEF Accepts
    <3>2. disk' = disk /\ (InsertIntoLeaf \/ SplitLeaf)
      BY <2>6 DEF Accepts, Running
    <3>3. CASE InsertIntoLeaf
      BY <2>1, <3>1, <3>2, <3>3
    <3>4. CASE SplitLeaf
      BY <2>1, <3>1, <3>2, <3>4 DEF Empties
    <3> QED
      BY <3>2, <3>3, <3>4
  <2> QED
    BY <2>2, <2>3, <2>4, <2>5, <2>6
<1> QED
  BY <1>1, <1>2, BTreeInvariant, InsertsInvariant, RoomInvariant, PTL DEF Spec

\* ScanComplete: a run of inserts with records of one size, or of sizes far below the
\* page's, never leaves a leaf without records that next could come to.
THEOREM ScanCompleteAlways == ASSUME ~Repeats, OnlyInserts, SizesSplit PROVE Spec => []ScanComplete
<1>1. ScanInOrder /\ HoldInv => ScanComplete
  <2> SUFFICES ASSUME ScanInOrder, HoldInv, pc = "idle", NEW p \in LeavesOf(page) \ {root}
               PROVE  page[p].recs # <<>>
    BY DEF ScanComplete, Idle
  <2>1. Empties(page, {root})
    BY DEF HoldInv
  <2> QED
    BY <2>1 DEF Empties
<1> QED
  BY <1>1, ScanInOrderAlways, HoldInvariant, PTL

-----------------------------------------------------------------------------
(* Keys of internal pages, and assertions                                  *)

\* Every internal page is keyed within its range by keys of records, and what a split
\* hands up is one, with keys of the range on both sides.
AllKeyed(pages, range, c) ==
    /\ \A p \in InternalsOf(pages) : Keyed(pages[p], range[p], Keys)
    /\ c # NoCarry => range[c.front] # {} /\ c.key \in range[c.back] /\ c.key \in Keys

\* The key that is handed up parts what the split page held.
LEMMA CarryParts ==
    ASSUME NEW pages, NEW r, NEW c, NEW range, NEW level, Tree(pages, r, c, range, level),
           AllKeyed(pages, range, c), c # NoCarry
    PROVE  /\ c.key \in Nat /\ c.front \in PageNo /\ c.back \in PageNo
           /\ Parts(c.key, Whole(c, range)[c.front]) /\ Parts(c.key, Nat) /\ c.key \in Keys
<1>1. /\ Shaped(UsedIn(pages), KidsOf(pages), r, c, range, level)
      /\ range \in [PageNo -> SUBSET Nat] /\ UsedIn(pages) \subseteq PageNo \ {0}
  BY TreeKnows
<1>2. /\ c.front \in UsedIn(pages) /\ c.back \in UsedIn(pages) /\ c.key \in Nat
      /\ \A k \in range[c.front] : k < c.key
  BY <1>1, ShapeKids
<1>3. c.front \in PageNo /\ c.back \in PageNo
  BY <1>1, <1>2
<1>4. PICK k \in range[c.front] : k < c.key
  BY <1>2 DEF AllKeyed
<1>5. k \in Nat
  BY <1>1, <1>3, <1>4
<1>6. Whole(c, range)[c.front] = range[c.front] \cup range[c.back]
  BY <1>3, WholeOf
<1> QED
  BY <1>2, <1>3, <1>4, <1>5, <1>6 DEF Parts, AllKeyed

\* So a page with room takes it in at its child, unless it finds it behind its last key in
\* a word that was left there.
LEMMA CarryTakenIn ==
    ASSUME NEW pages, NEW r, NEW c, NEW range, NEW level, Tree(pages, r, c, range, level),
           AllKeyed(pages, range, c), c # NoCarry,
           NEW pg \in InternalPages(PageNo), Formed(pg), pg.count < KeyCapacity,
           NEW part \in SUBSET Nat, Keyed(pg, part, Keys), Divides(pg, part, Whole(c, range)),
           c.front \in Kids(pg), NEW taken, taken = InsertKey(pg, c.key, c.front, c.back)
    PROVE  /\ c.key \notin LeftKeys => taken.status = "ok"
           /\ taken.status = "ok" => Keyed(taken.page, part, Keys)
           /\ Parts(c.key, part)
<1>1. /\ c.key \in Nat /\ c.front \in PageNo /\ c.back \in PageNo
      /\ Parts(c.key, Whole(c, range)[c.front]) /\ c.key \in Keys
  BY CarryParts
<1>2. PICK at \in DOMAIN pg.kids : pg.kids[at] = c.front
  BY DEF Kids
<1>3. Whole(c, range)[c.front] = Share(part, pg, at)
  BY <1>2 DEF Divides
<1>4. Parts(c.key, Share(part, pg, at))
  BY <1>1, <1>3
<1>5. /\ c.key \notin LeftKeys => taken.status = "ok"
      /\ taken.status = "ok" => Keyed(taken.page, part, Keys)
  BY <1>1, <1>2, <1>4, TakesIn
<1>6. Parts(c.key, part)
  BY <1>4 DEF Parts, Share
<1> QED
  BY <1>5, <1>6

\* A full page is split, over what was left in the buffer of the new one: the half with
\* the child takes in what was split below it, unless it finds it in such a word.
LEMMA HalfTakes ==
    ASSUME NEW pages, NEW r, NEW c, NEW range, NEW level, Tree(pages, r, c, range, level),
           AllKeyed(pages, range, c), c # NoCarry,
           NEW p \in PageNo, pages[p].type = "internal", pages[p].count = KeyCapacity,
           c.front \in Kids(pages[p]), NEW no \in Nat,
           NEW old \in Leftovers, NEW s, s = SplitPage(pages[p], p, no, old),
           NEW half, half = IF c.key > s.key THEN s.back ELSE s.front,
           NEW taken, taken = InsertKey(half, c.key, c.front, c.back)
    PROVE  /\ c.key \notin LeftKeys => taken.status = "ok"
           /\ taken.status = "ok" =>
                 /\ Keyed(IF c.key > s.key THEN s.front ELSE taken.page, Below(range[p], s.key), Keys)
                 /\ Keyed(IF c.key > s.key THEN taken.page ELSE s.back, From(range[p], s.key), Keys)
           /\ Parts(s.key, range[p]) /\ s.key \in Keys
<1>1. /\ pages[p] \in InternalPages(PageNo) /\ Formed(pages[p])
      /\ range \in [PageNo -> SUBSET Nat] /\ Divides(pages[p], range[p], Whole(c, range))
  BY TreeKnows
<1>2. Keyed(pages[p], range[p], Keys) /\ range[p] \in SUBSET Nat
  BY <1>1 DEF AllKeyed, InternalsOf
<1>3. pages[p].count >= 3 /\ KeyCapacity \in Nat
  BY InternalPageAssumption
<1>4. p \in Nat
  BY BTreeAssumption DEF PageNo
<1>5. old \in [Slots -> Nat]
  BY LeftoversAssumption
<1>6. /\ s.key \in Nat /\ s.front \in InternalPages(PageNo) /\ s.back \in InternalPages(PageNo)
      /\ s.front.count < pages[p].count /\ s.back.count < pages[p].count
      /\ Formed(s.front) /\ Formed(s.back)
      /\ Kids(s.front) \cup Kids(s.back) = Kids(pages[p])
      /\ Divides(s.front, Below(range[p], s.key), Whole(c, range))
      /\ Divides(s.back, From(range[p], s.key), Whole(c, range))
  BY <1>1, <1>2, <1>3, <1>4, <1>5, SplitPageDivides
<1>7. /\ Keyed(s.front, Below(range[p], s.key), Keys) /\ Keyed(s.back, From(range[p], s.key), Keys)
      /\ Parts(s.key, range[p]) /\ s.key \in Keys
  BY <1>1, <1>2, <1>3, <1>4, SplitKeyed
<1>8. Below(range[p], s.key) \in SUBSET Nat /\ From(range[p], s.key) \in SUBSET Nat
  BY <1>2 DEF Below, From
<1>9. c.key \in Nat
  BY CarryParts
<1>10. CASE c.front \in Kids(s.front)
  <2> DEFINE t == InsertKey(s.front, c.key, c.front, c.back)
  <2>1. s.front.count < KeyCapacity
    BY <1>6
  <2> HIDE DEF t
  <2>2. /\ c.key \notin LeftKeys => t.status = "ok"
        /\ t.status = "ok" => Keyed(t.page, Below(range[p], s.key), Keys)
        /\ Parts(c.key, Below(range[p], s.key))
    BY <1>6, <1>7, <1>8, <1>10, <2>1, CarryTakenIn DEF t
  <2>3. c.key < s.key
    BY <2>2 DEF Parts, Below
  <2>4. ~(c.key > s.key)
    BY <1>6, <1>9, <2>3
  <2>5. taken = t
    BY <2>4 DEF t
  <2> QED
    BY <1>7, <2>2, <2>4, <2>5
<1>11. CASE c.front \in Kids(s.back)
  <2> DEFINE t == InsertKey(s.back, c.key, c.front, c.back)
  <2>1. s.back.count < KeyCapacity
    BY <1>6
  <2> HIDE DEF t
  <2>2. /\ c.key \notin LeftKeys => t.status = "ok"
        /\ t.status = "ok" => Keyed(t.page, From(range[p], s.key), Keys)
        /\ Parts(c.key, From(range[p], s.key))
    BY <1>6, <1>7, <1>8, <1>11, <2>1, CarryTakenIn DEF t
  <2>3. PICK k \in From(range[p], s.key) : k < c.key
    BY <2>2 DEF Parts
  <2>4. k \in Nat /\ s.key <= k
    BY <1>8, <2>3 DEF From
  <2>5. c.key > s.key
    BY <1>6, <1>9, <2>3, <2>4
  <2>6. taken = t
    BY <2>5 DEF t
  <2> QED
    BY <1>7, <2>2, <2>5, <2>6
<1> QED
  BY <1>6, <1>10, <1>11

\* While nothing is removed, no page is free, and the pages in memory and those of the
\* file are keyed.  The one assertion that can fail is that of insert, and it does so on a
\* key that a cache slot held where the page has not written yet.
KeyInv ==
    OnlyInserts =>
        /\ fail # "none" => fail = "insert" /\ carry.key \in Keys \cap LeftKeys
        /\ free = 0 /\ disk.free = 0
        /\ pc # "aborted" => \E range, level : Calling(range, level) /\ AllKeyed(page, range, carry)
        /\ \E range, level : Resting(disk.page, disk.root, range, level) /\ AllKeyed(disk.page, range, NoCarry)

\* A step of a call that goes on.
LEMMA KeysGoOn ==
    ASSUME IInv, ~broken, pc # "aborted", KeyInv, OnlyInserts, pc' # "aborted", Quiet, free' = 0,
           NEW range, NEW level, Calling(range, level)', AllKeyed(page', range, carry')
    PROVE  KeyInv'
<1>1. /\ fail = "none" /\ disk.free = 0
      /\ \E range2, level2 : Resting(disk.page, disk.root, range2, level2) /\ AllKeyed(disk.page, range2, NoCarry)
  BY DEF KeyInv, IInv, FailOK
<1>2. fail' = "none" /\ disk' = disk
  BY <1>1 DEF Quiet
<1>3. \E range2, level2 : (Calling(range2, level2) /\ AllKeyed(page, range2, carry))'
  OBVIOUS
<1> QED
  BY <1>1, <1>2, <1>3 DEF KeyInv

\* As none is free, a page is taken from the end of the file, in a slot with what was left.
LEMMA NewPage ==
    ASSUME free = 0, NEW used, FileOK
    PROVE  /\ CanAllocate /\ OldKeys(Allocated) = Leftovers
           /\ Allocate => free' = 0
BY DEF FileOK, CanAllocate, OldKeys, Exists, Allocated, Allocate

\* The leaf an insert has come to, when it has no room for the record.
LEMMA FullLeaf ==
    ASSUME SizesSplit, IInv, ~broken, OnlyInserts, RoomInv, LeafFull,
           NEW range, NEW level, Calling(range, level),
           NEW recs, recs = page[Top].recs, NEW b, b = BalanceLeaves(recs, <<>>)
    PROVE  /\ Top \in PageNo /\ Top # 0 /\ page[Top].type = "leaf" /\ carry = NoCarry
           /\ Tree(page, root, NoCarry, range, level)
           /\ op.key \notin KeySet(recs) /\ KeySet(recs) \subseteq range[Top]
           /\ b.first \in Sorted /\ b.last \in Sorted /\ b.first # <<>> /\ b.last # <<>>
           /\ KeySet(b.first) \cup KeySet(b.last) \subseteq KeySet(recs)
           /\ BalanceOk(b) /\ Fits(b.first, op.size) /\ Fits(b.last, op.size)
<1>1. pc = "search" /\ page[Top].type = "leaf" /\ op.kind = "insert"
  BY DEF LeafFull, IsType
<1>2. /\ SearchOK(page, stack, op, range) /\ Tree(page, root, carry, range, level)
      /\ Path(page, stack, root, level) /\ carry = NoCarry
  BY <1>1, CallingAt DEF Searching
<1>3. FileOK /\ stack # <<>>
  BY <1>2 DEF IInv, SearchOK
<1>4. Top \in PageNo /\ Top # 0
  BY <1>2, <1>3, AtTop
<1>5. recs \in Sorted /\ KeySet(recs) \subseteq range[Top]
  BY <1>1, <1>2, <1>4, TreeKnows
<1>6. op.size \in Sizes /\ op.key \notin KeySet(recs)
  BY <1>1, <1>2, <1>4 DEF SearchOK, LeavesOf
<1>7. ~Fits(recs, op.size)
  BY <1>6 DEF LeafFull
<1>8. FreeSpace(recs) > 0
  BY <1>1, <1>4 DEF RoomInv, Roomy, LeavesOf
<1>9. /\ BalanceOk(b) /\ b.first # <<>> /\ b.last # <<>>
      /\ Fits(b.first, op.size) /\ Fits(b.last, op.size)
  BY <1>5, <1>6, <1>7, <1>8, SplitWorks
<1>10. /\ b.first \in Sorted /\ b.last \in Sorted
       /\ KeySet(b.first) \cup KeySet(b.last) \subseteq KeySet(recs)
  <2>1. <<>> \in Sorted /\ KeySet(<<>>) = {}
    BY DEF Sorted, Ascends, KeySet
  <2> QED
    BY <1>5, <2>1, BalancedSorted
<1> QED
  BY <1>1, <1>2, <1>4, <1>5, <1>6, <1>9, <1>10

\* What is known of the internal page an insert is at.
LEMMA KeyedAtTop ==
    ASSUME IInv, ~broken, pc = "insert_up", stack # <<>>,
           NEW range, NEW level, Calling(range, level), AllKeyed(page, range, carry)
    PROVE  /\ Tree(page, root, carry, range, level) /\ carry # NoCarry /\ FileOK
           /\ Top \in PageNo /\ Top # 0 /\ IsType(Top, "internal") /\ page[Top].type = "internal"
           /\ page[Top] \in InternalPages(PageNo) /\ Formed(page[Top])
           /\ page[Top].count > 0 /\ carry.front \in Kids(page[Top])
           /\ page \in [PageNo -> Pages] /\ range \in [PageNo -> SUBSET Nat] /\ range[Top] \in SUBSET Nat
           /\ Keyed(page[Top], range[Top], Keys) /\ Divides(page[Top], range[Top], Whole(carry, range))
<1>1. /\ Tree(page, root, carry, range, level) /\ Path(page, stack, root, level)
      /\ carry # NoCarry /\ Follows(page, stack, root, carry.front) /\ FileOK
  BY CallingAt DEF InsertingUp, IInv
<1>2. /\ Top = stack[Len(stack)] /\ Top \in PageNo /\ Top # 0
      /\ \A type : IsType(Top, type) <=> page[Top].type = type
  BY <1>1, AtTop
<1>3. page[Top].type = "internal" /\ page[Top].count > 0 /\ carry.front \in Kids(page[Top])
  BY <1>1, <1>2 DEF Follows, HasKid
<1>4. /\ page[Top] \in InternalPages(PageNo) /\ Formed(page[Top]) /\ page \in [PageNo -> Pages]
      /\ range \in [PageNo -> SUBSET Nat] /\ Divides(page[Top], range[Top], Whole(carry, range))
  BY <1>1, <1>2, <1>3, TreeKnows
<1>5. Keyed(page[Top], range[Top], Keys)
  BY <1>2, <1>3 DEF AllKeyed, InternalsOf
<1> QED
  BY <1>1, <1>2, <1>3, <1>4, <1>5

\* Assertions fail in calls.
LEMMA FailsInCall == Aborts => pc # "aborted"
<1> SUFFICES ASSUME Aborts PROVE pc # "aborted"
  OBVIOUS
<1>1. SearchFails \/ AllocateFails \/ LeafBalanceFails \/ SplitLeafFails \/ InsertFails \/ MergeFails \/ AdjustUpFails
  BY DEF Aborts, Fails
<1>2. SearchFails => pc # "aborted"
  BY DEF SearchFails
<1>3. AllocateFails \/ SplitLeafFails => pc # "aborted"
  BY DEF AllocateFails, SplitLeafFails, LeafFull, InternalFull
<1>4. LeafBalanceFails => pc # "aborted"
  BY DEF LeafBalanceFails, LeafFull
<1>5. InsertFails \/ MergeFails \/ AdjustUpFails => pc # "aborted"
  BY DEF InsertFails, MergeFails, AdjustUpFails, AdjustUp
<1> QED
  BY <1>1, <1>2, <1>3, <1>4, <1>5

\* A run of inserts ends in no assertion, as a search meets keys on its way, a full leaf is
\* split into two with room, and the pages above have the child and lack the key, except
\* in the one that finds the key behind the last of a page.
LEMMA FailsOnLeftover ==
    ASSUME SizesSplit, IInv, ~broken, OnlyInserts, RoomInv, KeyInv, pc # "aborted",
           NEW function \in DOMAIN Fails, Fails[function]
    PROVE  function = "insert" /\ carry.key \in Keys \cap LeftKeys
<1>1. PICK range, level : Calling(range, level) /\ AllKeyed(page, range, carry)
  BY DEF KeyInv
<1>2. FileOK /\ free = 0
  BY DEF IInv, KeyInv
<1>3. CanAllocate /\ OldKeys(Allocated) = Leftovers
  BY <1>2, NewPage
<1>4. pc # "adjust_leaf" /\ pc # "adjust_up"
  BY <1>1, CallingAt DEF AdjustingLeaf, AdjustingUp
<1>5. ~SearchFails
  <2>1. \A p \in InternalsOf(page) : page[p].count # 0
    <3> SUFFICES ASSUME NEW p \in InternalsOf(page) PROVE page[p].count # 0
      OBVIOUS
    <3>1. page[p].count > 0
      BY <1>1 DEF AllKeyed, Keyed
    <3> QED
      BY <3>1
  <2> QED
    BY <2>1, SearchFailsStarved DEF Starved
<1>6. ~AllocateFails
  BY <1>3 DEF AllocateFails
<1>7. ASSUME LeafFull PROVE /\ ~MayFail(BalanceLeaves(page[Top].recs, <<>>)) /\ ~SplitLeafFails
  <2> DEFINE recs == page[Top].recs
             b    == BalanceLeaves(recs, <<>>)
  <2>1. /\ op.key \notin KeySet(recs) /\ b.first # <<>> /\ KeySet(b.first) \cup KeySet(b.last) \subseteq KeySet(recs)
        /\ BalanceOk(b) /\ Fits(b.first, op.size) /\ Fits(b.last, op.size)
    BY <1>1, <1>7, FullLeaf
  <2>2. ~MayFail(b)
    BY <2>1 DEF MayFail
  <2> HIDE DEF b
  <2>3. ~SplitLeafFails
    BY <2>1 DEF SplitLeafFails, b
  <2> QED
    BY <2>2, <2>3 DEF b
<1>8. ~LeafBalanceFails
  BY <1>4, <1>7 DEF LeafBalanceFails
<1>9. ~SplitLeafFails
  BY <1>7 DEF SplitLeafFails
<1>10. InsertFails => carry.key \in Keys \cap LeftKeys
  <2> SUFFICES ASSUME pc = "insert_up", stack # <<>>, ~(carry.key \in Keys \cap LeftKeys)
               PROVE  ~InsertFails
    BY DEF InsertFails
  <2>1. /\ Tree(page, root, carry, range, level) /\ carry # NoCarry
        /\ Top \in PageNo /\ IsType(Top, "internal") /\ page[Top].type = "internal"
        /\ page[Top] \in InternalPages(PageNo) /\ Formed(page[Top])
        /\ carry.front \in Kids(page[Top]) /\ page \in [PageNo -> Pages]
        /\ range[Top] \in SUBSET Nat
        /\ Keyed(page[Top], range[Top], Keys) /\ Divides(page[Top], range[Top], Whole(carry, range))
    BY <1>1, KeyedAtTop
  <2>0. carry.key \notin LeftKeys
    BY <1>1, <2>1 DEF AllKeyed
  <2> DEFINE taken == InsertKey(page[Top], carry.key, carry.front, carry.back)
  <2>2. taken.status # "assert"
    <3>1. CASE page[Top].count = KeyCapacity
      BY <3>1 DEF InsertKey, NoSpace
    <3>2. CASE page[Top].count # KeyCapacity
      <4>1. page[Top].count < KeyCapacity
        BY <2>1, <3>2, PageShape
      <4> HIDE DEF taken
      <4>2. taken.status = "ok"
        BY <1>1, <2>0, <2>1, <4>1, CarryTakenIn DEF taken
      <4> QED
        BY <4>2
    <3> QED
      BY <3>1, <3>2
  <2>3. ASSUME InternalFull, NEW old \in OldKeys(Allocated)
        PROVE  SplitHalves(old).front.status = "ok" /\ SplitHalves(old).back.status = "ok"
    <3> DEFINE no == Allocated
               s  == SplitPage(page[Top], Top, no, old)
    <3>1. page[Top].count = KeyCapacity
      BY <2>3 DEF InternalFull
    <3>2. SplitHalves(old).front = IF carry.key > s.key THEN Ok(s.front) ELSE InsertKey(s.front, carry.key, carry.front, carry.back)
      BY DEF SplitHalves
    <3>3. SplitHalves(old).back = IF carry.key > s.key THEN InsertKey(s.back, carry.key, carry.front, carry.back) ELSE Ok(s.back)
      BY DEF SplitHalves
    <3>4. no \in Nat /\ old \in Leftovers
      BY <1>2, <1>3, <2>3 DEF FileOK, Allocated
    <3> DEFINE half == IF carry.key > s.key THEN s.back ELSE s.front
               t    == InsertKey(half, carry.key, carry.front, carry.back)
    <3>5. t.status = "ok"
      <4>1. s = SplitPage(page[Top], Top, no, old) /\ half = (IF carry.key > s.key THEN s.back ELSE s.front)
            /\ t = InsertKey(half, carry.key, carry.front, carry.back)
        OBVIOUS
      <4> HIDE DEF t, half, s, no
      <4> QED
        BY <1>1, <2>0, <2>1, <3>1, <3>4, <4>1, HalfTakes
    <3> HIDE DEF s, no
    <3>6. CASE carry.key > s.key
      BY <3>2, <3>3, <3>5, <3>6 DEF Ok
    <3>7. CASE ~(carry.key > s.key)
      BY <3>2, <3>3, <3>5, <3>7 DEF Ok
    <3> QED
      BY <3>6, <3>7
  <2> QED
    BY <2>1, <2>2, <2>3 DEF InsertFails
<1>11. ~MergeFails /\ ~AdjustUpFails
  BY <1>4 DEF MergeFails, AdjustUpFails, AdjustUp
<1> QED
  BY <1>5, <1>6, <1>8, <1>9, <1>10, <1>11 DEF Fails

LEMMA AbortKeyed ==
    ASSUME SizesSplit, IInv, ~broken, OnlyInserts, RoomInv, KeyInv, Aborts
    PROVE  KeyInv'
<1>1. PICK function \in DOMAIN Fails : Fails[function] /\ Abort(function)
  BY DEF Aborts
<1>2. function = "insert" /\ carry.key \in Keys \cap LeftKeys
  BY <1>1, FailsInCall, FailsOnLeftover
<1>3. /\ pc' = "aborted" /\ fail' = function /\ carry' = carry /\ free' = free /\ disk' = disk
  BY <1>1 DEF Abort, treeVars
<1>4. /\ free = 0 /\ disk.free = 0
      /\ \E range, level : Resting(disk.page, disk.root, range, level) /\ AllKeyed(disk.page, range, NoCarry)
  BY DEF KeyInv
<1> QED
  BY <1>2, <1>3, <1>4 DEF KeyInv

\* Steps that leave the internal pages and their ranges as they are.
LEMMA KeyedStay ==
    ASSUME NEW pages, NEW range, NEW c, AllKeyed(pages, range, c), NEW now, NEW range2,
           \A p \in InternalsOf(now) : p \in InternalsOf(pages) /\ now[p] = pages[p] /\ range2[p] = range[p]
    PROVE  AllKeyed(now, range2, NoCarry)
BY DEF AllKeyed

\* A leaf that takes in a record, or is split, leaves them: the key handed up is the first
\* one of the new leaf.
LEMMA InsertLeafKeyed ==
    ASSUME SizesSplit, IInv, ~broken, OnlyInserts, RoomInv, KeyInv, InsertIntoLeaf \/ SplitLeaf
    PROVE  KeyInv'
<1>0. pc = "search"
  BY DEF InsertIntoLeaf, SplitLeaf, LeafFull
<1>1. PICK range, level : Calling(range, level) /\ AllKeyed(page, range, carry)
  BY <1>0 DEF KeyInv
<1>2. FileOK /\ free = 0
  BY DEF IInv, KeyInv
<1>3. page \in [PageNo -> Pages] /\ range \in [PageNo -> SUBSET Nat] /\ UsedIn(page) \subseteq PageNo \ {0}
  BY <1>1, CallingAt, TreeKnows
<1>4. CASE InsertIntoLeaf
  <2>1. /\ pc' # "aborted" /\ Quiet /\ carry' = NoCarry /\ Calling(range, level)'
    BY <1>1, <1>4, InsertIntoLeafTree
  <2>2. /\ page[Top].type = "leaf" /\ free' = 0
        /\ page' = [page EXCEPT ![Top].recs = Place(@, [key |-> op.key, size |-> op.size])]
    BY <1>2, <1>4 DEF InsertIntoLeaf, IsType
  <2>3. \A p \in InternalsOf(page') : p \in InternalsOf(page) /\ page'[p] = page[p]
    <3> SUFFICES ASSUME NEW p \in PageNo, page'[p].type = "internal"
                 PROVE  page[p].type = "internal" /\ page'[p] = page[p]
      BY DEF InternalsOf
    <3>1. p = Top => page'[p].type = "leaf"
      BY <1>3, <2>2, PageTypes DEF LeafPages
    <3> QED
      BY <1>3, <2>2, <3>1
  <2>4. AllKeyed(page', range, carry')
    BY <1>1, <2>1, <2>3, KeyedStay
  <2> QED
    BY <1>0, <2>1, <2>2, <2>4, KeysGoOn
<1>5. CASE SplitLeaf
  <2> DEFINE no   == Allocated
             recs == page[Top].recs
             b    == BalanceLeaves(recs, <<>>)
             mid  == b.last[1].key
             rec  == [key |-> op.key, size |-> op.size]
             new1 == IF op.key > mid THEN b.first ELSE Place(b.first, rec)
             new2 == IF op.key > mid THEN Place(b.last, rec) ELSE b.last
  <2>1. /\ pc' # "aborted" /\ Quiet
        /\ \E range2, level2 : range2 = SplitRange(range, Top, no, carry'.key) /\ Calling(range2, level2)'
    BY <1>1, <1>5, SplitLeafTree
  <2>2. /\ LeafFull /\ CanAllocate /\ Allocate /\ carry' = [key |-> mid, front |-> Top, back |-> no]
        /\ page' = [page EXCEPT ![Top] = [@ EXCEPT !.next = no, !.recs = new1],
                                ![no] = NewLeaf(Top, page[Top].next, new2)]
    BY <1>5 DEF SplitLeaf
  <2>3. /\ Top \in PageNo /\ Top # 0 /\ page[Top].type = "leaf"
        /\ KeySet(recs) \subseteq range[Top]
        /\ b.first \in Sorted /\ b.last \in Sorted /\ b.first # <<>> /\ b.last # <<>>
        /\ KeySet(b.first) \cup KeySet(b.last) \subseteq KeySet(recs) /\ BalanceOk(b)
    BY <1>1, <2>2, FullLeaf
  <2> HIDE DEF b
  <2>4. /\ mid \in KeySet(b.last) /\ mid \in Nat /\ \A k \in KeySet(b.first) : k < mid
    BY <2>3, BalancedApart
  <2>5. no \in PageNo /\ no \notin UsedIn(page) /\ free' = 0
    BY <1>2, <1>3, <2>2, Allocates, NewPage
  <2>6. no # Top
    BY <2>3, <2>5 DEF UsedIn
  <2> HIDE DEF no, recs, mid, new1, new2, rec
  <2>7. PICK range2, level2 : range2 = SplitRange(range, Top, no, carry'.key) /\ Calling(range2, level2)'
    BY <2>1
  <2>8. carry'.key = mid /\ carry'.front = Top /\ carry'.back = no
    BY <2>2
  <2>9. /\ range2[Top] = Below(range[Top], mid) /\ range2[no] = From(range[Top], mid)
        /\ \A p \in PageNo : p # Top /\ p # no => range2[p] = range[p]
    BY <1>3, <2>3, <2>5, <2>6, <2>7, <2>8 DEF SplitRange
  <2>10. /\ page'[Top].type = "leaf" /\ page'[no].type = "leaf"
         /\ \A p \in PageNo : p # Top /\ p # no => page'[p] = page[p]
    <3>1. page[Top] \in LeafPages
      BY <1>3, <2>3, PageTypes
    <3> QED
      BY <1>3, <2>2, <2>3, <2>5, <2>6, <3>1 DEF NewLeaf, Leaf, LeafPages
  <2>11. \A p \in InternalsOf(page') : p \in InternalsOf(page) /\ page'[p] = page[p] /\ range2[p] = range[p]
    BY <2>9, <2>10 DEF InternalsOf
  <2>12. mid \in range2[no]
    BY <2>3, <2>4, <2>9 DEF From
  <2>13. range2[Top] # {}
    <3>1. 1 \in DOMAIN b.first /\ b.first[1].key \in KeySet(b.first)
      BY <2>3, SortedShape DEF KeySet
    <3>2. b.first[1].key \in range[Top] /\ b.first[1].key < mid
      BY <2>3, <2>4, <3>1
    <3> QED
      BY <2>9, <3>2 DEF Below
  <2>16. mid \in Keys
    <3>1. PICK i \in DOMAIN b.last : b.last[i].key = mid
      BY <2>4 DEF KeySet
    <3>2. b.last \in Seq(Record)
      BY <2>3 DEF Sorted
    <3>3. b.last[i] \in Record
      BY <3>1, <3>2
    <3>4. b.last[i].key \in Keys
      BY <3>3 DEF Record
    <3> QED
      BY <3>1, <3>4
  <2>14. AllKeyed(page', range2, NoCarry)
    BY <1>1, <2>11, KeyedStay
  <2>15. AllKeyed(page', range2, carry')
    BY <2>8, <2>12, <2>13, <2>14, <2>16 DEF AllKeyed
  <2> QED
    BY <1>0, <2>1, <2>5, <2>7, <2>15, KeysGoOn
<1> QED
  BY <1>4, <1>5

\* An internal page takes in the key.
LEMMA InsertInternalKeyed ==
    ASSUME IInv, ~broken, OnlyInserts, KeyInv, InsertIntoInternal
    PROVE  KeyInv'
<1>1. PICK range, level : Calling(range, level) /\ AllKeyed(page, range, carry)
  BY DEF KeyInv, InsertIntoInternal
<1> DEFINE taken == InsertKey(page[Top], carry.key, carry.front, carry.back)
<1>2. /\ pc = "insert_up" /\ stack # <<>> /\ taken.status = "ok"
      /\ page' = [page EXCEPT ![Top] = taken.page] /\ free' = free
  BY DEF InsertIntoInternal
<1>3. /\ Tree(page, root, carry, range, level) /\ carry # NoCarry
      /\ Top \in PageNo /\ page[Top].type = "internal"
      /\ page[Top] \in InternalPages(PageNo) /\ Formed(page[Top])
      /\ carry.front \in Kids(page[Top]) /\ page \in [PageNo -> Pages]
      /\ range[Top] \in SUBSET Nat
      /\ Keyed(page[Top], range[Top], Keys) /\ Divides(page[Top], range[Top], Whole(carry, range))
  BY <1>1, <1>2, KeyedAtTop
<1>4. page[Top].count < KeyCapacity
  <2>1. page[Top].count # KeyCapacity
    BY <1>2 DEF InsertKey, NoSpace
  <2> QED
    BY <1>3, <2>1, PageShape
<1>5. taken = InsertKey(page[Top], carry.key, carry.front, carry.back)
  OBVIOUS
<1> HIDE DEF taken
<1>6. Keyed(taken.page, range[Top], Keys)
  BY <1>1, <1>2, <1>3, <1>4, <1>5, CarryTakenIn
<1>7. pc' # "aborted" /\ Quiet /\ carry' = NoCarry /\ Calling(range, level)'
  BY <1>1, InsertIntoInternalTree
<1>8. page'[Top] = taken.page /\ \A p \in PageNo : p # Top => page'[p] = page[p]
  BY <1>2, <1>3
<1>9. AllKeyed(page', range, carry')
  <2> SUFFICES ASSUME NEW p \in InternalsOf(page') PROVE Keyed(page'[p], range[p], Keys)
    BY <1>7 DEF AllKeyed
  <2>1. CASE p = Top
    BY <1>6, <1>8, <2>1
  <2>2. CASE p # Top
    BY <1>1, <1>8, <2>2 DEF AllKeyed, InternalsOf
  <2> QED
    BY <2>1, <2>2
<1>10. free' = 0
  BY <1>2 DEF KeyInv
<1> QED
  BY <1>2, <1>7, <1>9, <1>10, KeysGoOn

\* A full one is split, and the key between the halves goes on up.
LEMMA SplitInternalKeyed ==
    ASSUME IInv, ~broken, OnlyInserts, KeyInv, SplitInternal
    PROVE  KeyInv'
<1>0. PICK old \in OldKeys(Allocated) :
          LET h == SplitHalves(old)
          IN  /\ h.front.status = "ok" /\ h.back.status = "ok"
              /\ page' = [page EXCEPT ![Top] = h.front.page, ![h.no] = h.back.page]
              /\ dirty' = dirty \cup {Top, h.no}
              /\ carry' = [key |-> h.key, front |-> Top, back |-> h.no]
  BY DEF SplitInternal
<1> DEFINE no    == Allocated
           s     == SplitPage(page[Top], Top, no, old)
           half  == IF carry.key > s.key THEN s.back ELSE s.front
           taken == InsertKey(half, carry.key, carry.front, carry.back)
           pg1   == IF carry.key > s.key THEN s.front ELSE taken.page
           pg2   == IF carry.key > s.key THEN taken.page ELSE s.back
<1>1. PICK range, level : Calling(range, level) /\ AllKeyed(page, range, carry)
  BY DEF KeyInv, SplitInternal, InternalFull
<1>2. FileOK /\ free = 0
  BY DEF IInv, KeyInv
<1>3. /\ pc = "insert_up" /\ stack # <<>> /\ page[Top].count = KeyCapacity
      /\ CanAllocate /\ Allocate /\ old \in Leftovers
  BY <1>0, <1>2, NewPage DEF SplitInternal, InternalFull
<1>4. /\ Tree(page, root, carry, range, level) /\ carry # NoCarry
      /\ Top \in PageNo /\ page[Top].type = "internal"
      /\ carry.front \in Kids(page[Top]) /\ page \in [PageNo -> Pages]
      /\ range \in [PageNo -> SUBSET Nat]
  BY <1>1, <1>3, KeyedAtTop
<1>5. no \in PageNo /\ no \notin UsedIn(page) /\ free' = 0
  BY <1>2, <1>3, <1>4, Allocates, NewPage
<1>6. no # Top /\ no \in Nat
  <2>1. Top \in UsedIn(page)
    BY <1>4 DEF UsedIn
  <2> QED
    BY <1>5, <2>1, BTreeAssumption DEF PageNo
<1>7. /\ page' = [page EXCEPT ![Top] = pg1, ![no] = pg2]
      /\ carry' = [key |-> s.key, front |-> Top, back |-> no] /\ taken.status = "ok"
  <2>1. /\ page' = [page EXCEPT ![Top] = SplitHalves(old).front.page, ![no] = SplitHalves(old).back.page]
        /\ carry' = [key |-> s.key, front |-> Top, back |-> no]
    BY <1>0 DEF SplitHalves
  <2>2. SplitHalves(old).front.page = pg1
    BY DEF SplitHalves, Ok
  <2>3. SplitHalves(old).back.page = pg2
    BY DEF SplitHalves, Ok
  <2>4. taken.status = "ok"
    BY <1>0 DEF SplitHalves
  <2> HIDE DEF no, s, pg1, pg2, taken
  <2> QED
    BY <2>1, <2>2, <2>3, <2>4
<1>8. /\ s = SplitPage(page[Top], Top, no, old) /\ half = (IF carry.key > s.key THEN s.back ELSE s.front)
      /\ taken = InsertKey(half, carry.key, carry.front, carry.back)
  OBVIOUS
<1>9. /\ Keyed(pg1, Below(range[Top], s.key), Keys) /\ Keyed(pg2, From(range[Top], s.key), Keys)
      /\ Parts(s.key, range[Top]) /\ s.key \in Keys
  <2> HIDE DEF taken, half, s, no
  <2> QED
    BY <1>1, <1>3, <1>4, <1>6, <1>7, <1>8, HalfTakes
<1>10. /\ pc' # "aborted" /\ Quiet
       /\ \E range2, level2 : range2 = SplitRange(range, Top, no, carry'.key) /\ Calling(range2, level2)'
  BY <1>1, SplitInternalTree
<1> HIDE DEF pg1, pg2, taken, half, s, no
<1>11. PICK range2, level2 : range2 = SplitRange(range, Top, no, carry'.key) /\ Calling(range2, level2)'
  BY <1>10
<1>12. carry'.key = s.key /\ carry'.front = Top /\ carry'.back = no
  BY <1>7
<1>13. /\ range2[Top] = Below(range[Top], s.key) /\ range2[no] = From(range[Top], s.key)
       /\ \A p \in PageNo : p # Top /\ p # no => range2[p] = range[p]
  BY <1>4, <1>5, <1>6, <1>11, <1>12 DEF SplitRange
<1>14. page'[Top] = pg1 /\ page'[no] = pg2 /\ \A p \in PageNo : p # Top /\ p # no => page'[p] = page[p]
  BY <1>4, <1>5, <1>6, <1>7
<1>15. s.key \in range2[no] /\ range2[Top] # {} /\ s.key \in Keys
  <2>1. s.key \in range[Top] /\ \E k \in range[Top] : k < s.key
    BY <1>9 DEF Parts
  <2>2. s.key \in Nat
    BY <1>4, <2>1
  <2> QED
    BY <1>9, <1>13, <2>1, <2>2 DEF Below, From
<1>16. \A p \in InternalsOf(page') : Keyed(page'[p], range2[p], Keys)
  <2> TAKE p \in InternalsOf(page')
  <2>1. CASE p = Top
    BY <1>9, <1>13, <1>14, <2>1
  <2>2. CASE p = no
    BY <1>9, <1>13, <1>14, <2>2
  <2>3. CASE p # Top /\ p # no
    BY <1>1, <1>13, <1>14, <2>3 DEF AllKeyed, InternalsOf
  <2> QED
    BY <2>1, <2>2, <2>3
<1>17. AllKeyed(page', range2, carry')
  BY <1>12, <1>15, <1>16 DEF AllKeyed
<1> QED
  BY <1>3, <1>5, <1>10, <1>11, <1>17, KeysGoOn

\* A new root has one key, with keys on both sides.
LEMMA NewRootKeyed ==
    ASSUME IInv, ~broken, OnlyInserts, KeyInv, NewRoot
    PROVE  KeyInv'
<1>0. PICK old \in OldKeys(Allocated) :
          page' = [page EXCEPT ![Allocated] =
                      InsertKey(InitPage(0, 0, old), carry.key, carry.front, carry.back).page]
  BY DEF NewRoot
<1> DEFINE no == Allocated
           np == InsertKey(InitPage(0, 0, old), carry.key, carry.front, carry.back).page
<1>1. PICK range, level : Calling(range, level) /\ AllKeyed(page, range, carry)
  BY DEF KeyInv, NewRoot
<1>2. FileOK /\ free = 0
  BY DEF IInv, KeyInv
<1>3. pc = "insert_up" /\ CanAllocate /\ Allocate /\ old \in Leftovers
  BY <1>0, <1>2, NewPage DEF NewRoot
<1>4. page' = [page EXCEPT ![no] = np]
  BY <1>0 DEF NewRoot
<1>5. Tree(page, root, carry, range, level) /\ carry # NoCarry
  BY <1>1, <1>3, CallingAt DEF InsertingUp
<1>6. page \in [PageNo -> Pages] /\ range \in [PageNo -> SUBSET Nat]
  BY <1>5, TreeKnows
<1>7. no \in PageNo /\ free' = 0
  BY <1>2, <1>3, <1>6, Allocates, NewPage
<1>8. carry.key \in Nat /\ carry.front \in PageNo /\ carry.back \in PageNo /\ Parts(carry.key, Nat) /\ carry.key \in Keys
  BY <1>1, <1>5, CarryParts
<1>9. Keyed(np, Nat, Keys)
  BY <1>3, <1>8, NewPageKeyed
<1>10. /\ pc' # "aborted" /\ Quiet /\ carry' = NoCarry
       /\ \E range2, level2 : range2 = RootRange(range, no) /\ Calling(range2, level2)'
  BY <1>1, NewRootTree
<1> HIDE DEF no, np
<1>11. PICK range2, level2 : range2 = RootRange(range, no) /\ Calling(range2, level2)'
  BY <1>10
<1>12. range2[no] = Nat /\ \A p \in PageNo : p # no => range2[p] = range[p]
  BY <1>6, <1>7, <1>11 DEF RootRange
<1>13. page'[no] = np /\ \A p \in PageNo : p # no => page'[p] = page[p]
  BY <1>4, <1>6, <1>7
<1>14. AllKeyed(page', range2, carry')
  <2> SUFFICES ASSUME NEW p \in InternalsOf(page') PROVE Keyed(page'[p], range2[p], Keys)
    BY <1>10 DEF AllKeyed
  <2>1. CASE p = no
    BY <1>9, <1>12, <1>13, <2>1
  <2>2. CASE p # no
    BY <1>1, <1>12, <1>13, <2>2 DEF AllKeyed, InternalsOf
  <2> QED
    BY <2>1, <2>2
<1> QED
  BY <1>3, <1>7, <1>10, <1>11, <1>14, KeysGoOn

\* A call begins, or a search goes on.
LEMMA SearchKeyed ==
    ASSUME ~Repeats, IInv, ~broken, OnlyInserts, KeyInv,
           Descend \/ \E k \in Keys, size \in Sizes : Insert(k, size)
    PROVE  KeyInv'
<1>0. pc # "aborted" /\ fail = "none"
  BY DEF Descend, Insert, Start, IInv, FailOK
<1>1. PICK range, level : Calling(range, level) /\ AllKeyed(page, range, carry)
  BY <1>0 DEF KeyInv
<1>2. CASE Descend
  <2>1. /\ pc' # "aborted" /\ Quiet /\ Calling(range, level)'
    BY <1>1, <1>2, DescendTree
  <2>2. page' = page /\ carry' = carry /\ free' = 0
    BY <1>2 DEF Descend, treeVars, KeyInv
  <2>3. AllKeyed(page', range, carry')
    BY <1>1, <2>2
  <2> QED
    BY <1>0, <2>1, <2>2, <2>3, KeysGoOn
<1>3. ASSUME NEW k \in Keys, NEW size \in Sizes, Insert(k, size) PROVE KeyInv'
  <2>1. Start("insert", k, size) /\ k \notin Stored
    BY <1>3 DEF Insert
  <2>2. \A p \in LeavesOf(page) : k \notin KeySet(page[p].recs)
    BY <2>1 DEF Stored, LeavesOf
  <2>3. Calling(range, level)'
    BY <1>1, <2>1, <2>2, StartTree
  <2>4. /\ pc' # "aborted" /\ page' = page /\ carry' = carry /\ free' = free /\ fail' = fail /\ disk' = disk
    BY <2>1 DEF Start, treeVars
  <2>5. (Calling(range, level) /\ AllKeyed(page, range, carry))'
    BY <1>1, <2>3, <2>4
  <2>6. \E range2, level2 : (Calling(range2, level2) /\ AllKeyed(page, range2, carry))'
    BY <2>5
  <2> QED
    BY <1>0, <2>4, <2>6 DEF KeyInv
<1> QED
  BY <1>2, <1>3

\* Between two calls: a commit that leaves out nothing puts the pages as they are into the
\* file, and a restart brings back those of the file.
LEMMA FileKeyed ==
    ASSUME IInv, ~broken, InsertsInv, OnlyInserts, KeyInv, EnableWrite \/ Commit \/ Reopen \/ UNCHANGED vars
    PROVE  KeyInv'
<1>2. PICK range2, level2 : Resting(disk.page, disk.root, range2, level2) /\ AllKeyed(disk.page, range2, NoCarry)
  BY DEF KeyInv
<1>3. /\ free = 0 /\ disk.free = 0
      /\ fail # "none" => fail = "insert" /\ carry.key \in Keys \cap LeftKeys
  BY DEF KeyInv
<1>4. ASSUME UNCHANGED <<page, root, free, callVars, fail>>
      PROVE  /\ fail' # "none" => fail' = "insert" /\ carry'.key \in Keys \cap LeftKeys
             /\ free' = 0
             /\ pc' # "aborted" => \E x, y : (Calling(x, y) /\ AllKeyed(page, x, carry))'
  <2>1. ASSUME pc # "aborted" PROVE \E x, y : (Calling(x, y) /\ AllKeyed(page, x, carry))'
    <3>1. PICK range, level : Calling(range, level) /\ AllKeyed(page, range, carry)
      BY <2>1 DEF KeyInv
    <3>2. (Calling(range, level) /\ AllKeyed(page, range, carry))'
      BY <1>4, <3>1 DEF Calling, Searching, InsertingUp, AdjustingLeaf, AdjustingUp, callVars
    <3> QED
      BY <3>2
  <2> QED
    BY <1>3, <1>4, <2>1 DEF callVars
<1>5. ASSUME disk' = disk
      PROVE  disk'.free = 0 /\ \E x, y : (Resting(disk.page, disk.root, x, y) /\ AllKeyed(disk.page, x, NoCarry))'
  <2>1. (Resting(disk.page, disk.root, range2, level2) /\ AllKeyed(disk.page, range2, NoCarry))'
    BY <1>2, <1>5
  <2> QED
    BY <1>3, <1>5, <2>1
<1>6. CASE EnableWrite \/ UNCHANGED vars
  <2>1. UNCHANGED <<page, root, free, callVars, fail>> /\ disk' = disk
    BY <1>6 DEF EnableWrite, vars, treeVars
  <2> QED
    BY <1>4, <1>5, <2>1 DEF KeyInv
<1>7. CASE Commit
  <2>1. /\ UNCHANGED <<page, root, free, callVars, fail>> /\ pc = "idle"
        /\ disk'.page = [p \in PageNo |-> IF p \in dirty THEN page[p] ELSE disk.page[p]]
        /\ disk'.root = root /\ disk'.free = free
    BY <1>7 DEF Commit
  <2>0. PICK range, level : Calling(range, level) /\ AllKeyed(page, range, carry)
    BY <2>1 DEF KeyInv
  <2>2. Resting(page, root, range, level) /\ carry = NoCarry
    BY <2>0, <2>1, CallingAt
  <2>3. page \in [PageNo -> Pages]
    BY <2>2, TreeKnows DEF Resting
  <2>4. disk'.page = page
    <3>1. \A p \in PageNo \ dirty : page[p] = disk.page[p]
      BY DEF InsertsInv
    <3> QED
      BY <2>1, <2>3, <3>1
  <2>5. (Resting(disk.page, disk.root, range, level) /\ AllKeyed(disk.page, range, NoCarry))'
    BY <2>0, <2>1, <2>2, <2>4
  <2>6. disk'.free = 0
    BY <1>3, <2>1
  <2> QED
    BY <1>4, <2>1, <2>5, <2>6 DEF KeyInv
<1>8. CASE Reopen
  <2>1. /\ page' = disk.page /\ root' = disk.root /\ free' = disk.free /\ fail' = "none"
        /\ Return /\ disk' = disk
    BY <1>8 DEF Reopen
  <2>2. Resting(page, root, range2, level2)'
    BY <1>2, <2>1
  <2>3. pc' = "idle" /\ carry' = NoCarry /\ Calling(range2, level2)'
    BY <2>1, <2>2, Returned
  <2>4. (Calling(range2, level2) /\ AllKeyed(page, range2, carry))'
    BY <1>2, <2>1, <2>3
  <2>5. pc' # "aborted" /\ free' = 0
    BY <1>3, <2>1, <2>3
  <2> QED
    BY <1>5, <2>1, <2>4, <2>5 DEF KeyInv
<1> QED
  BY <1>6, <1>7, <1>8

LEMMA KeysStep ==
    ASSUME ~Repeats, SizesSplit, IInv, InsertsInv, RoomInv, KeyInv, [Next]_vars
    PROVE  KeyInv'
<1> SUFFICES ASSUME OnlyInserts PROVE KeyInv'
  BY DEF KeyInv, OnlyInserts
<1>1. /\ ~broken /\ \A p \in PageNo \ dirty : page[p] = disk.page[p]
  BY DEF InsertsInv
<1>2. PICK range, level : Calling(range, level)
  BY <1>1 DEF IInv
<1>3. pc # "adjust_leaf" /\ pc # "adjust_up" /\ (pc = "search" => op.kind # "remove")
  BY <1>2, CallingAt DEF Searching, SearchOK, AdjustingLeaf, AdjustingUp
<1>4. CASE EnableWrite \/ Commit \/ Reopen \/ UNCHANGED vars
  BY <1>1, <1>4, FileKeyed
<1>5. CASE Descend \/ \E k \in Keys, size \in Sizes : Insert(k, size)
  BY <1>1, <1>5, SearchKeyed
<1>6. ASSUME NEW k \in Keys, RemoveKey(k) PROVE KeyInv'
  BY <1>1, <1>6, Removing
<1>7. CASE InsertIntoLeaf \/ SplitLeaf
  BY <1>1, <1>7, InsertLeafKeyed
<1>8. CASE RemoveFromLeaf
  BY <1>3, <1>8 DEF RemoveFromLeaf
<1>9. CASE InsertUp
  BY <1>1, <1>9, InsertInternalKeyed, SplitInternalKeyed, NewRootKeyed DEF InsertUp
<1>10. CASE Adjust
  BY <1>3, <1>10 DEF Adjust, MergeLeaves, BalanceLeafPair, EnoughKeys, MergeInternal, AdjustUp, BalanceInternal, TopReached
<1>11. CASE Aborts
  BY <1>1, <1>11, AbortKeyed
<1>12. ASSUME NEW p \in PageNo, Evict(p) PROVE KeyInv'
  BY <1>1, <1>12 DEF Evict
<1> QED
  BY <1>4, <1>5, <1>6, <1>7, <1>8, <1>9, <1>10, <1>11, <1>12 DEF Next

LEMMA KeysInit == Init => KeyInv
<1> SUFFICES ASSUME Init PROVE KeyInv
  OBVIOUS
<1>1. /\ page = [p \in PageNo |-> IF p = 1 THEN Leaf(0, 0, <<>>) ELSE Unused]
      /\ root = 1 /\ free = 0 /\ disk.page = page /\ disk.root = root /\ disk.free = free
      /\ pc = "idle" /\ stack = <<>> /\ carry = NoCarry /\ fail = "none"
  BY DEF Init
<1>2. PICK range, level : Resting(page, 1, range, level)
  BY <1>1, InitResting
<1>3. Calling(range, level)
  <2>1. Path(page, <<>>, root, level)
    BY DEF Path
  <2> QED
    BY <1>1, <1>2, <2>1 DEF Calling
<1>4. AllKeyed(page, range, NoCarry)
  <2>1. InternalsOf(page) = {}
    BY <1>1 DEF InternalsOf, Leaf, Unused
  <2> QED
    BY <2>1 DEF AllKeyed
<1>5. Resting(disk.page, disk.root, range, level) /\ AllKeyed(disk.page, range, NoCarry)
  BY <1>1, <1>2, <1>4
<1>6. pc # "aborted" /\ fail = "none" /\ free = 0 /\ disk.free = 0 /\ AllKeyed(page, range, carry)
  BY <1>1, <1>4
<1> QED
  BY <1>3, <1>5, <1>6 DEF KeyInv

\* As long as records are only inserted, and are split well, no page is ever freed, and
\* the keys of every internal page, in memory and in the file, ascend within its range and
\* leave some of it before the first.  Whatever the cache slots of new pages hold, no
\* assertion fails but the one that compares the key with the word behind the last one.
THEOREM KeyInvariant == ASSUME ~Repeats, SizesSplit PROVE Spec => []KeyInv
<1>1. Init => KeyInv
  BY KeysInit
<1>2. ASSUME IInv, InsertsInv, RoomInv, KeyInv, [Next]_vars PROVE KeyInv'
  BY <1>2, KeysStep
<1> QED
  BY <1>1, <1>2, BTreeInvariant, InsertsInvariant, RoomInvariant, PTL DEF Spec

\* No key of a caller is among the words that the slot of a new page may hold.  The code
\* gives this as long as the file fits into the cache, as a slot is zero before its first
\* page; a slot that had another page holds that one's words.
LeftoversHarmless == LeftKeys \cap Keys = {}

\* InsertNeverAborts: from such slots, a run of inserts of new keys with records of one
\* size, or of sizes far below the page's, ends in none of the assertions of search_page,
\* allocate_page, balance and insert, whatever the order of the keys and however high the
\* tree gets.  Without LeftoversHarmless this is false.
THEOREM InsertNeverAbortsAlways ==
    ASSUME ~Repeats, OnlyInserts, SizesSplit, LeftoversHarmless PROVE Spec => []InsertNeverAborts
<1>1. KeyInv => InsertNeverAborts
  BY DEF KeyInv, LeftoversHarmless, InsertNeverAborts
<1> QED
  BY <1>1, KeyInvariant, PTL

\* Keys that part the shares of a page's children lie between the keys of those children.
LEMMA KeysBetween ==
    ASSUME NEW pages, NEW r, NEW range, NEW level, Tree(pages, r, NoCarry, range, level),
           AllKeyed(pages, range, NoCarry), NEW p \in InternalsOf(pages), NEW i \in 1 .. pages[p].count,
           NEW f, f = pages[p].kids[i], NEW b, b = pages[p].kids[i + 1],
           pages[f].type = "internal", pages[b].type = "internal"
    PROVE  /\ pages[f].keys[pages[f].count] < pages[p].keys[i]
           /\ pages[p].keys[i] < pages[b].keys[1]
<1> DEFINE key == pages[p].keys[i]
<1>1. p \in PageNo /\ pages[p].type = "internal"
  BY DEF InternalsOf
<1>2. /\ pages[p] \in InternalPages(PageNo) /\ Formed(pages[p])
      /\ range \in [PageNo -> SUBSET Nat] /\ Divides(pages[p], range[p], Whole(NoCarry, range))
  BY <1>1, TreeKnows
<1>3. /\ pages[p].count \in Nat /\ key \in Nat /\ i \in Nat /\ i >= 1 /\ i <= pages[p].count
      /\ DOMAIN pages[p].kids = 1 .. pages[p].count + 1
      /\ \A j \in DOMAIN pages[p].kids : pages[p].kids[j] \in PageNo
  BY <1>2, PageShape DEF Formed
<1>4. i \in DOMAIN pages[p].kids /\ i + 1 \in DOMAIN pages[p].kids
  BY <1>3
<1>5. f \in PageNo /\ b \in PageNo
  BY <1>3, <1>4
<1>6. range[f] = Share(range[p], pages[p], i) /\ range[b] = Share(range[p], pages[p], i + 1)
  <2>1. Whole(NoCarry, range) = range
    BY <1>2, WholeSame
  <2> QED
    BY <1>2, <1>4, <2>1 DEF Divides
<1>7. Keyed(pages[f], range[f], Keys) /\ Keyed(pages[b], range[b], Keys)
  BY <1>5 DEF AllKeyed, InternalsOf
<1>8. pages[f] \in InternalPages(PageNo) /\ pages[b] \in InternalPages(PageNo)
  BY <1>5, TreeKnows
<1>8a. /\ pages[f].count \in Nat /\ pages[f].count > 0
       /\ pages[b].count \in Nat /\ pages[b].count > 0
  <2>1. pages[f].count \in Nat /\ pages[b].count \in Nat
    BY <1>8, PageShape
  <2> QED
    BY <1>7, <2>1 DEF Keyed
<1>9. pages[f].keys[pages[f].count] < key
  <2>1. pages[f].count \in 1 .. pages[f].count
    BY <1>8a
  <2>2. pages[f].keys[pages[f].count] \in range[f]
    BY <1>7, <2>1 DEF Keyed
  <2> QED
    BY <1>3, <1>6, <2>2 DEF Share
<1>10. key < pages[b].keys[1]
  <2>1. PICK k \in range[b] : k < pages[b].keys[1]
    BY <1>7 DEF Keyed
  <2>2. 1 \in 1 .. pages[b].count
    BY <1>8a
  <2>3. pages[b].keys[1] \in Nat
    BY <1>8, <2>2, PageShape
  <2>4. i + 1 > 1 /\ i + 1 - 1 = i
    BY <1>3
  <2>5. key <= k /\ k \in Nat
    BY <1>2, <1>5, <1>6, <2>1, <2>4 DEF Share
  <2>6. key \in Nat
    BY <1>3
  <2> HIDE DEF key
  <2> DEFINE first == pages[b].keys[1]
  <2>7. first \in Nat /\ k < first
    BY <2>1, <2>3
  <2> HIDE DEF first
  <2>8. key < first
    BY <2>5, <2>6, <2>7
  <2> QED
    BY <2>8 DEF first
<1> QED
  BY <1>9, <1>10

\* KeysOrdered: while nothing is removed the keys of every internal page ascend strictly,
\* and those of the root lie strictly between the keys of its children.
THEOREM KeysOrderedAlways == ASSUME ~Repeats, OnlyInserts, SizesSplit PROVE Spec => []KeysOrdered
<1>1. IInv /\ InsertsInv /\ KeyInv => KeysOrdered
  <2> SUFFICES ASSUME IInv, InsertsInv, KeyInv PROVE KeysOrdered
    OBVIOUS
  <2>1. TypeOK
    BY TypesHold DEF InsertsInv
  <2>2. ASSUME pc = "idle"
        PROVE  /\ \A p \in Internals : \A i \in 1 .. page[p].count - 1 : page[p].keys[i] < page[p].keys[i + 1]
               /\ root \in Internals =>
                     \A i \in 1 .. page[root].count :
                        LET f == page[page[root].kids[i]]
                            b == page[page[root].kids[i + 1]]
                        IN  f.type = "internal" /\ b.type = "internal" =>
                              f.keys[f.count] < page[root].keys[i] /\ page[root].keys[i] < b.keys[1]
    <3>1. PICK range, level : Calling(range, level) /\ AllKeyed(page, range, carry)
      BY <2>2 DEF KeyInv
    <3>2. Tree(page, root, NoCarry, range, level) /\ AllKeyed(page, range, NoCarry)
      BY <2>2, <3>1, CallingAt DEF Resting
    <3>3. ASSUME NEW p \in Internals, NEW i \in 1 .. page[p].count - 1 PROVE page[p].keys[i] < page[p].keys[i + 1]
      <4>1. page[p] \in InternalPages(PageNo)
        BY <3>2, TreeKnows DEF Internals, InternalsOf
      <4>2. i \in 1 .. page[p].count /\ i + 1 \in 1 .. page[p].count /\ i < i + 1
        BY <4>1, PageShape
      <4>3. Keyed(page[p], range[p], Keys)
        BY <3>2 DEF AllKeyed, Internals
      <4> QED
        BY <4>2, <4>3 DEF Keyed
    <3>4. ASSUME root \in Internals, NEW i \in 1 .. page[root].count,
                 page[page[root].kids[i]].type = "internal", page[page[root].kids[i + 1]].type = "internal"
          PROVE  /\ page[page[root].kids[i]].keys[page[page[root].kids[i]].count] < page[root].keys[i]
                 /\ page[root].keys[i] < page[page[root].kids[i + 1]].keys[1]
      BY <3>2, <3>4, KeysBetween DEF Internals
    <3> QED
      BY <3>3, <3>4
  <2> QED
    BY <2>1, <2>2 DEF KeysOrdered
<1> QED
  BY <1>1, BTreeInvariant, InsertsInvariant, KeyInvariant, PTL
=============================================================================
