------------------------------ MODULE LeafPage ------------------------------
(***************************************************************************)
(* Leaf pages byte by byte (src/btree_leaf_page.cpp and its cursor in      *)
(* src/btree_page-btree_cursor.cpp), as far as offsets and sizes go: the   *)
(* metas grow up from the header, the data zone grows down from the end of *)
(* the page, freed space goes back to the zone or onto a list of fragments.*)
(*                                                                         *)
(* Two neighbouring leaves: the front one, and the back one from the split *)
(* that makes it to the merge that releases it.  A third page, and with it *)
(* a second split, belongs to BTree.tla.  Payload bytes are left out: a    *)
(* record is its key, the size the caller gave and its offset.             *)
(***************************************************************************)
EXTENDS Integers, Sequences, SequencesExt

CONSTANTS
    Keys,       \* keys callers use
    Sizes,      \* sizes in bytes of the payloads callers pass
    PageSize,   \* page_size
    Setup,      \* the inserts a run begins with
    MaxOps      \* bound: inserts, updates and deletes after those

HeaderSize == 48    \* sizeof(btree_leaf_page)
MetaSize   == 16    \* sizeof(payload_meta)

\* allocate_space asserts the bound on sizes.
ASSUME LeafAssumption ==
    /\ Keys \subseteq Nat
    /\ PageSize \in Nat /\ PageSize % 8 = 0 /\ PageSize > HeaderSize
    /\ Sizes \subseteq 1 .. PageSize \div 4 - 1
    /\ Setup \in Seq([key : Keys, size : Sizes])
    /\ MaxOps \in Nat

VARIABLES
    leaf,       \* the two pages
    split,      \* the back page is in use
    middle,     \* the key that separates them in the page above
    due,        \* delete_payload asked for an adjustment
    ops,        \* calls made
    fail        \* the function whose assertion ended the process

vars == <<leaf, split, middle, due, ops, fail>>

Sides == {"front", "back"}

-----------------------------------------------------------------------------
(* Space                                                                   *)

Align(size) == ((size + 7) \div 8) * 8

\* init.
EmptyPage == [recs |-> <<>>, frags |-> <<>>, dataZone |-> PageSize,
              payload |-> 0, fragment |-> 0]

FreeZone(pg) == HeaderSize + MetaSize * Len(pg.recs)

\* compute_free_space and compute_max_free_space.
StackSpace(pg) == pg.dataZone - FreeZone(pg)
MaxFree(pg)    == StackSpace(pg) + pg.fragment

KeysOf(pg) == {pg.recs[i].key : i \in DOMAIN pg.recs}

\* The place of a new record: before the first one with a greater key.
PlaceOf(recs, r) ==
    CHOOSE i \in 1 .. Len(recs) + 1 :
        /\ i <= Len(recs) => recs[i].key > r.key
        /\ \A j \in 1 .. i - 1 : recs[j].key <= r.key

\* Variant: the metas behind the new one are shifted one too few.
PlaceShiftsShort(recs, r) ==
    LET i == PlaceOf(recs, r)
    IN  SubSeq(recs, 1, i - 1) \o <<r>> \o SubSeq(recs, i + 1, Len(recs))

\* insert_payload_meta.
Place(recs, r) == InsertAt(recs, PlaceOf(recs, r), r)

\* Variant: the meta's own bytes are forgotten.
StackFitsBare(pg, size) == size <= StackSpace(pg)

\* allocate_stack_space.
StackFits(pg, size) == size <= StackSpace(pg) - MetaSize
FromStack(pg, key, size) ==
    LET at == pg.dataZone - Align(size)
    IN  [pg EXCEPT !.dataZone = at,
                   !.payload = @ + Align(size),
                   !.recs = Place(@, [key |-> key, size |-> size, offset |-> at])]

\* allocate_fragment_space: the first fragment of exactly this size.
FragmentsFor(pg, size) ==
    {i \in DOMAIN pg.frags :
        /\ StackSpace(pg) >= MetaSize
        /\ pg.frags[i].size = Align(size)
        /\ \A j \in 1 .. i - 1 : pg.frags[j].size # Align(size)}

FromFragment(pg, i, key, size) ==
    [pg EXCEPT !.frags = RemoveAt(@, i),
               !.fragment = @ - Align(size),
               !.payload = @ + Align(size),
               !.recs = Place(@, [key |-> key, size |-> size,
                                  offset |-> pg.frags[i].offset])]

\* vacuum: the records one after the other onto a fresh page, in key order.
Vacuum(pg) ==
    LET new[n \in 0 .. Len(pg.recs)] ==
            IF n = 0 THEN EmptyPage
            ELSE FromStack(new[n - 1], pg.recs[n].key, pg.recs[n].size)
    IN  new[Len(pg.recs)]

\* Its assertion: insert_payload refuses the last record if no byte would be left.
VacuumOk(pg) == pg.recs # <<>> => MaxFree(Vacuum(pg)) > 0

\* Variant: the last byte may be used.
FitsToTheLastByte(pg, size) == MaxFree(pg) >= Align(size) + MetaSize

\* insert_payload: room for the payload and its meta, with a byte to spare.
Fits(pg, size) == MaxFree(pg) > Align(size) + MetaSize

\* insert_payload on a page where key is new and Fits: allocate_space, then the meta.
Put(pg, key, size) ==
    IF FragmentsFor(pg, size) # {}
    THEN FromFragment(pg, CHOOSE i \in FragmentsFor(pg, size) : TRUE, key, size)
    ELSE IF StackFits(pg, Align(size)) THEN FromStack(pg, key, size)
    ELSE FromStack(Vacuum(pg), key, size)

\* Variant: the fragment's bytes are not counted.
DropUncounted(pg, i) ==
    LET r == pg.recs[i]
    IN  [pg EXCEPT !.recs = RemoveAt(@, i),
                   !.payload = @ - Align(r.size),
                   !.frags = <<[offset |-> r.offset, size |-> Align(r.size)]>> \o @]

\* delete_payload: free_space, then the meta.
Drop(pg, i) ==
    LET r      == pg.recs[i]
        atTop  == r.offset = pg.dataZone
        rest   == [pg EXCEPT !.recs = RemoveAt(@, i), !.payload = @ - Align(r.size)]
    IN  IF atTop THEN [rest EXCEPT !.dataZone = @ + Align(r.size)]
        ELSE [rest EXCEPT !.frags = <<[offset |-> r.offset, size |-> Align(r.size)]>> \o @,
                          !.fragment = @ + Align(r.size)]

-----------------------------------------------------------------------------
(* Two pages                                                               *)

\* merge: refused when the records do not fit, into a vacuumed front page.
MergeFits(front, back) ==
    HeaderSize + MetaSize * (Len(front.recs) + Len(back.recs))
        + front.payload + back.payload < PageSize
Merged(front, back) ==
    LET pg[n \in 0 .. Len(back.recs)] ==
            IF n = 0 THEN Vacuum(front)
            ELSE Put(pg[n - 1], back.recs[n].key, back.recs[n].size)
    IN  pg[Len(back.recs)]

\* The record balance moves next: the last page's first or the first page's last.
Mover(recs, toFirst) == IF toFirst THEN 1 ELSE Len(recs)

\* balance: records move to the page with less payload until it has half of all.
\* The result of insert_payload is ignored, so one that does not fit is lost.
Balanced(first, last) ==
    LET target  == (first.payload + last.payload) \div 2
        toFirst == first.payload < last.payload
        Move(s) ==
            IF s.to.payload >= target \/ s.from.recs = <<>> THEN s
            ELSE LET i == Mover(s.from.recs, toFirst)
                     r == s.from.recs[i]
                 IN  [to   |-> IF Fits(s.to, r.size) THEN Put(s.to, r.key, r.size) ELSE s.to,
                      from |-> Drop(s.from, i)]
        start == IF toFirst THEN [to |-> Vacuum(first), from |-> Vacuum(last)]
                            ELSE [to |-> Vacuum(last), from |-> Vacuum(first)]
        state[n \in 0 .. Len(start.from.recs)] == IF n = 0 THEN start ELSE Move(state[n - 1])
        end   == state[Len(start.from.recs)]
    IN  [first |-> Vacuum(IF toFirst THEN end.to ELSE end.from),
         last  |-> Vacuum(IF toFirst THEN end.from ELSE end.to),
         ok    |-> end.to.payload >= target]

\* Its assertions; with an empty first page the last one compares header bytes,
\* with either outcome.
Outcomes(b) ==
    LET sound == b.ok /\ b.last.recs # <<>>
    IN  IF ~sound THEN {"aborts"}
        ELSE IF b.first.recs = <<>> THEN {"returns", "aborts"}
        ELSE IF Last(b.first.recs).key < b.last.recs[1].key THEN {"returns"} ELSE {"aborts"}

MergeWanted == leaf["front"].payload + leaf["back"].payload < (PageSize \div 4) * 3

-----------------------------------------------------------------------------
Init ==
    /\ leaf = [s \in Sides |-> EmptyPage]
    /\ split = FALSE /\ middle = 0 /\ due = FALSE
    /\ ops = 0 /\ fail = "none"

Call ==
    /\ fail = "none" /\ ~due
    /\ ops < Len(Setup) + MaxOps
    /\ ops' = ops + 1

Insertion(key, size) ==
    /\ Call
    /\ ops < Len(Setup) => Setup[ops + 1] = [key |-> key, size |-> size]

Change == Call /\ ops >= Len(Setup)

SideOf(key) == IF split /\ key >= middle THEN "back" ELSE "front"

\* insert_payload succeeds; status_key_exists changes nothing.
InsertPayload(key, size) ==
    LET s == SideOf(key)
    IN  /\ Insertion(key, size)
        /\ key \notin KeysOf(leaf[s]) /\ Fits(leaf[s], size)
        /\ leaf' = [leaf EXCEPT ![s] = Put(@, key, size)]
        /\ UNCHANGED <<split, middle, due, fail>>

\* status_no_space with one leaf: insert_to_full_leaf_page balances with a new
\* page and inserts into the right one of them.
SplitAndInsert(key, size) ==
    LET b    == Balanced(leaf["front"], EmptyPage)
        m    == b.last.recs[1].key
        goal == IF key > m THEN b.last ELSE b.first
    IN  /\ Insertion(key, size) /\ ~split
        /\ key \notin KeysOf(leaf["front"]) /\ ~Fits(leaf["front"], size)
        /\ \E outcome \in Outcomes(b) :
              IF outcome = "returns" /\ Fits(goal, size)
              THEN /\ leaf' = IF key > m
                              THEN [front |-> b.first, back |-> Put(goal, key, size)]
                              ELSE [front |-> Put(goal, key, size), back |-> b.last]
                   /\ middle' = m
                   /\ split' = TRUE
                   /\ UNCHANGED fail
              ELSE /\ fail' = IF outcome = "aborts" THEN "balance" ELSE "insert_to_full_leaf_page"
                   /\ UNCHANGED <<leaf, middle, split>>
        /\ UNCHANGED due

\* update_payload where the aligned size stays.
UpdateInPlace(s, i, size) ==
    /\ Change
    /\ Align(size) = Align(leaf[s].recs[i].size)
    /\ leaf' = [leaf EXCEPT ![s].recs[i].size = size]
    /\ UNCHANGED <<split, middle, due, fail>>

\* update_payload otherwise: the check compares sizes before alignment, then the
\* record is deleted and must be inserted again.
UpdateMoves(s, i, size) ==
    LET r    == leaf[s].recs[i]
        rest == Drop(leaf[s], i)
    IN  /\ Change
        /\ Align(size) # Align(r.size)
        /\ MaxFree(leaf[s]) + r.size > size
        /\ IF Fits(rest, size)
           THEN /\ leaf' = [leaf EXCEPT ![s] = Put(rest, r.key, size)]
                /\ UNCHANGED fail
           ELSE /\ fail' = "update_payload"
                /\ UNCHANGED leaf
        /\ UNCHANGED <<split, middle, due>>

\* delete_payload: with less than a quarter of a page left, and a neighbour, the
\* tree adjusts the two.
DeletePayload(s, i) ==
    /\ Change
    /\ LET rest == Drop(leaf[s], i)
       IN  /\ leaf' = [leaf EXCEPT ![s] = rest]
           /\ due' = (split /\ rest.payload < PageSize \div 4)
    /\ UNCHANGED <<split, middle, fail>>

\* adjust_nearby_leaf_page merges; the back page is released.
Merge ==
    /\ fail = "none" /\ due /\ MergeWanted
    /\ IF MergeFits(leaf["front"], leaf["back"])
       THEN /\ leaf' = [front |-> Merged(leaf["front"], leaf["back"]), back |-> EmptyPage]
            /\ split' = FALSE
            /\ UNCHANGED fail
       ELSE /\ fail' = "merge"
            /\ UNCHANGED <<leaf, split>>
    /\ due' = FALSE
    /\ UNCHANGED <<middle, ops>>

\* Or balances; the key that separates them changes with it.
Balance ==
    LET b == Balanced(leaf["front"], leaf["back"])
    IN  /\ fail = "none" /\ due /\ ~MergeWanted
        /\ \E outcome \in Outcomes(b) :
              IF outcome = "returns"
              THEN /\ leaf' = [front |-> b.first, back |-> b.last]
                   /\ middle' = b.last.recs[1].key
                   /\ UNCHANGED fail
              ELSE /\ fail' = "balance"
                   /\ UNCHANGED <<leaf, middle>>
        /\ due' = FALSE
        /\ UNCHANGED <<split, ops>>

Next ==
    \/ \E key \in Keys, size \in Sizes : InsertPayload(key, size) \/ SplitAndInsert(key, size)
    \/ \E s \in Sides : \E i \in DOMAIN leaf[s].recs :
          \/ DeletePayload(s, i)
          \/ \E size \in Sizes : UpdateInPlace(s, i, size) \/ UpdateMoves(s, i, size)
    \/ Merge \/ Balance

Spec == Init /\ [][Next]_vars

-----------------------------------------------------------------------------
(* Properties                                                              *)

SumOf(sizes) ==
    LET sum[n \in 0 .. Len(sizes)] == IF n = 0 THEN 0 ELSE sum[n - 1] + sizes[n]
    IN  sum[Len(sizes)]

RecordSizes(pg)   == [i \in DOMAIN pg.recs |-> Align(pg.recs[i].size)]
FragmentSizes(pg) == [i \in DOMAIN pg.frags |-> pg.frags[i].size]

\* The areas of a page: records, then fragments.
Areas(pg) ==
    [i \in DOMAIN pg.recs |->
        [from |-> pg.recs[i].offset, to |-> pg.recs[i].offset + Align(pg.recs[i].size)]]
      \o [i \in DOMAIN pg.frags |->
            [from |-> pg.frags[i].offset, to |-> pg.frags[i].offset + pg.frags[i].size]]

Offset == HeaderSize .. PageSize - 8
Page   == [recs     : Seq([key : Keys, size : Sizes, offset : Offset]),
           frags    : Seq([offset : Offset, size : 8 .. Align(PageSize \div 4)]),
           dataZone : HeaderSize .. PageSize,
           payload  : 0 .. PageSize,
           fragment : 0 .. PageSize]

\* Type invariant.
TypeOK ==
    /\ leaf \in [Sides -> Page]
    /\ split \in BOOLEAN /\ due \in BOOLEAN
    /\ middle \in Keys \cup {0}

\* The counters of the header agree with the records and the fragment list, so
\* that the free space of a page is a function of its records' sizes alone: the
\* abstraction BTree.tla is built on; offsets and counters stay within the page.
Accounting ==
    /\ TypeOK
    /\ \A s \in Sides :
          /\ leaf[s].payload = SumOf(RecordSizes(leaf[s]))
          /\ leaf[s].fragment = SumOf(FragmentSizes(leaf[s]))
          /\ leaf[s].dataZone = PageSize - leaf[s].payload - leaf[s].fragment

\* No two records, and no record and fragment, share a byte; none lies outside
\* the data zone, and the metas have not grown into it.
NoOverlap ==
    \A s \in Sides :
        LET a == Areas(leaf[s])
        IN  /\ FreeZone(leaf[s]) <= leaf[s].dataZone
            /\ \A i \in DOMAIN a : leaf[s].dataZone <= a[i].from /\ a[i].to <= PageSize
            /\ \A i, j \in DOMAIN a : i # j => a[i].to <= a[j].from \/ a[j].to <= a[i].from

\* The records of a page without their places.
RecordsOf(pg) == [i \in DOMAIN pg.recs |-> [key |-> pg.recs[i].key, size |-> pg.recs[i].size]]

List == INSTANCE RecordList WITH
            records <- RecordsOf(leaf["front"]) \o RecordsOf(leaf["back"]), calls <- ops

\* The two pages are one list of records in the order of their keys: a call changes
\* one of them, and a split, a merge, a balance or a vacuum none.
ImplementsRecordList == List!Spec

\* vacuum puts the records of a page back one by one through insert_payload, in
\* the middle of an insertion, a merge or a balance, and asserts that each is
\* taken: whatever page it is called on, it finds room for all of them.
VacuumAlwaysFits == \A s \in Sides : VacuumOk(leaf[s])

\* "Keep moving data to first" (btree_leaf_page.cpp:356): balance moves records
\* and loses none.
BalanceKeepsRecords ==
    [][Balance => KeysOf(leaf'["front"]) \cup KeysOf(leaf'["back"])
                    = KeysOf(leaf["front"]) \cup KeysOf(leaf["back"])]_vars
=============================================================================
