---------------------------- MODULE InternalPage ----------------------------
(***************************************************************************)
(* An internal page of the B-tree (src/btree_internal_page.cpp) as a value *)
(* and its operations as operators.                                        *)
(*                                                                         *)
(* keys is the whole array: entries past count keep what they held, because*)
(* insert reads one of them.  kids are the page numbers in use, count + 1  *)
(* of them; later entries of pages_no are never read.  Sequences start at  *)
(* 1, so keys[i] is the code's keys[i - 1].                                *)
(***************************************************************************)
EXTENDS Integers, Sequences, SequencesExt

CONSTANTS
    KeyCapacity,    \* key_capacity
    Leftovers       \* arrays of keys a cache slot may hold when a page is put into it

ASSUME InternalPageAssumption == KeyCapacity \in Nat /\ KeyCapacity >= 8

Slots == 1 .. KeyCapacity

ASSUME LeftoversAssumption == Leftovers # {} /\ Leftovers \subseteq [Slots -> Nat]

\* What an operation reports: an assertion of the code that does not hold ends
\* the process.
Ok(pg)  == [status |-> "ok", page |-> pg]
NoSpace == [status |-> "no_space"]
Failed  == [status |-> "assert"]

\* The page's keys and the keys after them in the array.
KeysOf(pg) == SubSeq(pg.keys, 1, pg.count)

\* btree_internal_page::init on a buffer whose key array holds old.
InitPage(prev, next, old) ==
    [type |-> "internal", next |-> next, prev |-> prev, count |-> 0,
     keys |-> old, kids |-> <<>>]

\* The array after writing the sequence s at position i.
Overwrite(keys, i, s) ==
    [j \in Slots |-> IF j \in i .. i + Len(s) - 1 THEN s[j - i + 1] ELSE keys[j]]

\* The first position whose key is at least key, count + 1 if there is none.
Position(pg, key) ==
    CHOOSE i \in 1 .. pg.count + 1 :
        /\ i = pg.count + 1 \/ key <= pg.keys[i]
        /\ \A j \in 1 .. i - 1 : pg.keys[j] < key

\* insert: the assertion reads keys[index] also when index is key_count.
InsertKey(pg, key, front, back) ==
    IF pg.count = KeyCapacity THEN NoSpace
    ELSE IF pg.count = 0
    THEN Ok([pg EXCEPT !.count = 1, !.keys[1] = key, !.kids = <<front, back>>])
    ELSE LET i == Position(pg, key)
         IN  IF pg.keys[i] = key \/ pg.kids[i] # front THEN Failed
             ELSE Ok([pg EXCEPT
                        !.count = @ + 1,
                        !.keys = Overwrite(@, i, <<key>> \o SubSeq(@, i, pg.count)),
                        !.kids = InsertAt(@, i + 1, back)])

\* search(key): the child whose range holds key.
ChildFor(pg, key) ==
    pg.kids[CHOOSE i \in 1 .. pg.count + 1 :
                /\ i = pg.count + 1 \/ key < pg.keys[i]
                /\ \A j \in 1 .. i - 1 : pg.keys[j] <= key]

\* The position of a child among the kids, 0 if it is not there.
KidPosition(kids, no) ==
    IF \E i \in DOMAIN kids : kids[i] = no
    THEN CHOOSE i \in DOMAIN kids : kids[i] = no /\ \A j \in 1 .. i - 1 : kids[j] # no
    ELSE 0

\* search(front, back, key) and update: the position of the pair, 0 where the
\* code returns status_not_found or asserts.
PairPosition(pg, front, back) ==
    LET i == KidPosition(SubSeq(pg.kids, 1, pg.count), front)
    IN  IF i # 0 /\ pg.kids[i + 1] = back THEN i ELSE 0

UpdateKey(pg, key, front, back) ==
    LET i == PairPosition(pg, front, back)
    IN  IF i = 0 THEN Failed ELSE Ok([pg EXCEPT !.keys[i] = key])

\* Variant: the key after the child goes instead of the one before it.
RemoveKidKeyAfter(pg, no) ==
    LET i == KidPosition(pg.kids, no)
    IN  IF i = 1 THEN Failed
        ELSE IF i = 0 THEN Ok(pg)
        ELSE Ok([pg EXCEPT
                   !.count = @ - 1,
                   !.keys = Overwrite(@, i, SubSeq(@, i + 1, pg.count)),
                   !.kids = RemoveAt(@, i)])

\* remove: the child and the key before it; a first child fails the assertion.
RemoveKid(pg, no) ==
    LET i == KidPosition(pg.kids, no)
    IN  IF i = 1 THEN Failed
        ELSE IF i = 0 THEN Ok(pg)
        ELSE Ok([pg EXCEPT
                   !.count = @ - 1,
                   !.keys = Overwrite(@, i - 1, SubSeq(@, i, pg.count)),
                   !.kids = RemoveAt(@, i)])

\* Variant: the page keeps the first child that moves.
SplitPageKeepsKid(pg, frontNo, backNo, old) ==
    LET at == pg.count \div 2
    IN  [key   |-> pg.keys[at + 1],
         front |-> [pg EXCEPT !.count = at, !.next = backNo,
                              !.kids = SubSeq(@, 1, at + 2)],
         back  |-> [InitPage(frontNo, pg.next, old) EXCEPT
                       !.count = pg.count - at - 1,
                       !.keys = Overwrite(@, 1, SubSeq(pg.keys, at + 2, pg.count)),
                       !.kids = SubSeq(pg.kids, at + 2, pg.count + 1)]]

\* split: the upper half goes to the new page, the key between moves up.
SplitPage(pg, frontNo, backNo, old) ==
    LET at == pg.count \div 2
    IN  [key   |-> pg.keys[at + 1],
         front |-> [pg EXCEPT !.count = at, !.next = backNo,
                              !.kids = SubSeq(@, 1, at + 1)],
         back  |-> [InitPage(frontNo, pg.next, old) EXCEPT
                       !.count = pg.count - at - 1,
                       !.keys = Overwrite(@, 1, SubSeq(pg.keys, at + 2, pg.count)),
                       !.kids = SubSeq(pg.kids, at + 2, pg.count + 1)]]

\* The assertions merge and balance have in common.
Mergeable(front, back, key) ==
    /\ front.count > 0 /\ back.count > 0
    /\ front.keys[front.count] < key
    /\ back.keys[1] > key

\* merge, when the keys fit into one page.
MergePages(front, back, key) ==
    [front EXCEPT
        !.count = @ + back.count + 1,
        !.keys = Overwrite(@, front.count + 1, <<key>> \o KeysOf(back)),
        !.kids = @ \o back.kids,
        !.next = back.next]

\* Variant: the middle key is the last one of the front page.
BalancePagesKeyBefore(front, back, key) ==
    LET all    == KeysOf(front) \o <<key>> \o KeysOf(back)
        target == (front.count + back.count) \div 2
    IN  [key   |-> all[target],
         front |-> [front EXCEPT !.count = target,
                                 !.keys = Overwrite(@, 1, SubSeq(all, 1, target))],
         back  |-> [back EXCEPT !.count = Len(all) - target - 1,
                                !.keys = Overwrite(@, 1, SubSeq(all, target + 2, Len(all)))]]

\* balance: the keys are shared out; the page numbers are copied from the
\* buffer of keys instead of into it, so each is one half of a 64 bit key.
BalancePages(front, back, key) ==
    LET all    == KeysOf(front) \o <<key>> \o KeysOf(back)
        target == (front.count + back.count) \div 2
        ints   == [i \in 1 .. 2 * Len(all) |->
                      IF i % 2 = 1 THEN all[(i + 1) \div 2] ELSE 0]
    IN  [key   |-> all[target + 1],
         front |-> [front EXCEPT !.count = target,
                                 !.keys = Overwrite(@, 1, SubSeq(all, 1, target)),
                                 !.kids = SubSeq(ints, 1, target + 1)],
         back  |-> [back EXCEPT !.count = Len(all) - target - 1,
                                !.keys = Overwrite(@, 1, SubSeq(all, target + 2, Len(all))),
                                !.kids = SubSeq(ints, target + 2, Len(all) + 1)]]
=============================================================================
