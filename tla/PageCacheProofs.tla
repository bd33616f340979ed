-------------------------- MODULE PageCacheProofs --------------------------
(***************************************************************************)
(* Proofs about PageCache.tla, for every number of slots, pages and        *)
(* references: the map and the list of modified pages are exact, a page    *)
(* read back is as it was last modified, and the cache implements          *)
(* PageStore.tla.                                                          *)
(*                                                                         *)
(* Coherent is not inductive.  Taking a slot erases the map's entry for    *)
(* the number the slot carries, which for a new slot is page 0 whoever     *)
(* holds it; so a slot of page 0 may be out of the map, and what makes     *)
(* this harmless is that page 0 is modified only between the last get_page *)
(* of a transaction and its end.  IInv says so (HeaderOK), next to what    *)
(* holds for the other pages (PagesOK) and for the references (RefsOK).    *)
(***************************************************************************)
EXTENDS PageCache, FiniteSetTheorems, WellFoundedInduction, TLAPS

\* The list has each slot once; slots are taken in their order.
SlotsOK ==
    /\ InUse = 1 .. Len(pages)
    /\ \A i, j \in DOMAIN pages : pages[i] = pages[j] => i = j
    /\ \A s \in InUse : slot[s].no < pageCount
    /\ \A s \in Slot \ InUse : slot[s].no = 0

\* A reference names a slot in use; page 0 is the header's alone.
RefsOK ==
    /\ \A r \in Holders : refs[r].slot = NoSlot => refs[r] = NoRef
    /\ \A r \in Holders : refs[r].slot # NoSlot =>
          /\ refs[r].slot \in InUse
          /\ refs[r].no < pageCount
          /\ refs[r].no = 0 <=> r = "header"
          /\ Stale(r) => Len(pages) = MaxCache
          /\ breach = {} /\ refs[r].marked => ~Stale(r) /\ slot[refs[r].slot].writable

\* Pages are modified in transactions only; the journal is open until pages are
\* written early, after which the transaction does not end.
ControlOK ==
    /\ status = "normal" => writable = <<>> /\ journal = "normal"
    /\ pc \in {"opening", "ready", "format"} \/ status = "write"
    /\ pc = "opening" => status = "normal" /\ pages = <<>>
    /\ pc \in {"marked", "header", "flush"} => refs["header"].marked
    /\ "steal" \in breach =>
          /\ status = "write"
          /\ journal = "normal" \/ pc = "aborted"
          /\ pc \notin {"opening", "format", "formatted", "marked"}

\* Every page but page 0 is found through the map where it is, and agrees with
\* the file unless it is marked.
PagesOK ==
    /\ \A s \in InUse : slot[s].no # 0 => map[slot[s].no] = s
    /\ breach = {} =>
          /\ \A p \in 1 .. pageCount - 1 : Served(p) = truth[p]
          /\ \A s \in InUse : slot[s].no # 0 /\ ~slot[s].writable => slot[s].data = file[slot[s].no]
          /\ \A p \in pageCount .. MaxPages - 1 : file[p] = truth[p]

\* Page 0 is modified in one slot, the header's, and only until the commit.
HeaderOK ==
    breach = {} =>
        /\ \A s \in InUse : slot[s].no = 0 /\ slot[s].writable =>
              pc \in {"marked", "header", "flush"} /\ s = refs["header"].slot
        /\ pc # "flush" => file[0] = truth[0]
        /\ pc \in {"format", "formatted", "marked", "commit", "header", "flush"} =>
              map[0] \in {NoSlot, refs["header"].slot}
        /\ pc # "flush" /\ Cached(0) => slot[map[0]].data = truth[0]
        /\ pc = "flush" => slot[refs["header"].slot].data = truth[0]

\* What every operation on the cache keeps, whoever calls it.
Core == TypeOK /\ SlotsOK /\ MapIsExact /\ WritableIsExact /\ RefsOK /\ PagesOK

IInv == Core /\ ControlOK /\ HeaderOK

-----------------------------------------------------------------------------
(* Facts about sequences of slots                                            *)

\* A non-empty set of positions has a last one.
LEMMA HasLast ==
    ASSUME NEW n \in Nat, NEW S \in SUBSET (1 .. n), S # {}
    PROVE  Last(S) \in S /\ \A j \in S : j <= Last(S)
<1> DEFINE Less == OpToRel(<, Nat)
           T == {n - i : i \in S}
<1>1. IsWellFoundedOn(Less, Nat)
  BY NatLessThanWellFounded
<1>2. T \subseteq Nat
  OBVIOUS
<1>3. T # {}
  <2>1. PICK i \in S : TRUE
    OBVIOUS
  <2>2. n - i \in T
    OBVIOUS
  <2> QED
    BY <2>2
<1>4. PICK x \in T : \A y \in T : ~ (<<y, x>> \in Less)
  <2> HIDE DEF T, Less
  <2> QED
    BY <1>1, <1>2, <1>3, WFMin
<1>5. \A y \in T : ~ (y < x)
  BY <1>2, <1>4 DEF OpToRel
<1>6. PICK i \in S : x = n - i
  OBVIOUS
<1>7. ASSUME NEW j \in S PROVE j <= i
  <2>1. n - j \in T
    OBVIOUS
  <2>2. ~ (n - j < n - i)
    BY <2>1, <1>5, <1>6
  <2>3. i \in Int /\ j \in Int
    OBVIOUS
  <2> QED
    BY <2>2, <2>3
<1> QED
  BY <1>7 DEF Last

\* Moving a slot to the front of the list keeps its slots.
LEMMA ToFrontKeeps ==
    ASSUME NEW q \in Seq(Slot), NEW i \in DOMAIN q
    PROVE  /\ ToFront(q, i) \in Seq(Slot)
           /\ Len(ToFront(q, i)) = Len(q)
           /\ DOMAIN ToFront(q, i) = DOMAIN q
           /\ {ToFront(q, i)[j] : j \in DOMAIN q} = {q[j] : j \in DOMAIN q}
           /\ (\A j, k \in DOMAIN q : q[j] = q[k] => j = k) =>
                 \A j, k \in DOMAIN q : ToFront(q, i)[j] = ToFront(q, i)[k] => j = k
<1> DEFINE t == ToFront(q, i)
<1>1. DOMAIN q = 1 .. Len(q) /\ Len(q) \in Nat /\ i \in 1 .. Len(q)
  OBVIOUS
<1>2. t = [j \in 1 .. Len(q) |-> IF j = 1 THEN q[i] ELSE IF j <= i THEN q[j - 1] ELSE q[j]]
  BY <1>1 DEF ToFront
<1>3. \A j \in 1 .. Len(q) : t[j] \in Slot
  BY <1>1, <1>2
<1>4. t \in Seq(Slot) /\ Len(t) = Len(q) /\ DOMAIN t = 1 .. Len(q)
  BY <1>1, <1>2, <1>3
<1>5. \A j \in 1 .. Len(q) : \E k \in 1 .. Len(q) : t[j] = q[k]
  BY <1>1, <1>2
<1>6. ASSUME NEW j \in 1 .. Len(q) PROVE \E k \in 1 .. Len(q) : t[k] = q[j]
  <2>1. CASE j = i
    BY <2>1, <1>1, <1>2
  <2>2. CASE j < i
    <3>1. j + 1 \in 1 .. Len(q) /\ t[j + 1] = q[j]
      BY <2>2, <1>1, <1>2
    <3> QED
      BY <3>1
  <2>3. CASE j > i
    BY <2>3, <1>1, <1>2
  <2> QED
    BY <2>1, <2>2, <2>3, <1>1
<1>7. {t[j] : j \in DOMAIN q} = {q[j] : j \in DOMAIN q}
  <2> HIDE DEF t
  <2>1. ASSUME NEW x \in {t[j] : j \in DOMAIN q} PROVE x \in {q[j] : j \in DOMAIN q}
    <3>1. PICK j \in 1 .. Len(q) : x = t[j]
      BY <1>1
    <3>2. PICK k \in 1 .. Len(q) : t[j] = q[k]
      BY <1>5
    <3> QED
      BY <1>1, <3>1, <3>2
  <2>2. ASSUME NEW x \in {q[j] : j \in DOMAIN q} PROVE x \in {t[j] : j \in DOMAIN q}
    <3>1. PICK j \in 1 .. Len(q) : x = q[j]
      BY <1>1
    <3>2. PICK k \in 1 .. Len(q) : t[k] = q[j]
      BY <1>6
    <3> QED
      BY <1>1, <3>1, <3>2
  <2> QED
    BY <2>1, <2>2
<1>8. ASSUME \A j, k \in DOMAIN q : q[j] = q[k] => j = k,
             NEW j \in 1 .. Len(q), NEW k \in 1 .. Len(q), t[j] = t[k]
      PROVE  j = k
  <2> DEFINE At(n) == IF n = 1 THEN i ELSE IF n <= i THEN n - 1 ELSE n
  <2>1. At(j) \in 1 .. Len(q) /\ At(k) \in 1 .. Len(q)
    BY <1>1
  <2>2. t[j] = q[At(j)] /\ t[k] = q[At(k)]
    BY <1>1, <1>2
  <2>3. At(j) = At(k)
    <3> HIDE DEF At
    <3> QED
      BY <1>1, <1>8, <2>1, <2>2
  <2> QED
    BY <1>1, <2>3
<1> QED
  BY <1>1, <1>4, <1>7, <1>8

\* A list of different slots is not longer than the number of slots it is from.
LEMMA DifferentSlots ==
    ASSUME NEW q \in Seq(Slot), NEW n \in Nat,
           \A i \in DOMAIN q : q[i] \in 1 .. n,
           \A i, j \in DOMAIN q : q[i] = q[j] => i = j
    PROVE  Len(q) <= n
<1>1. DOMAIN q = 1 .. Len(q) /\ Len(q) \in Nat
  OBVIOUS
<1>2. IsFiniteSet(1 .. n) /\ Cardinality(1 .. n) = n
  BY FS_Interval
<1>3. IsFiniteSet(1 .. Len(q)) /\ Cardinality(1 .. Len(q)) = Len(q)
  BY <1>1, FS_Interval, SMTT(30)
<1>4. SUFFICES ASSUME n < Len(q) PROVE FALSE
  BY <1>1
<1> DEFINE g == [i \in 1 .. Len(q) |-> q[i]]
<1>5. g \in [1 .. Len(q) -> 1 .. n]
  BY <1>1
<1>6. \E i, j \in 1 .. Len(q) : i # j /\ g[i] = g[j]
  <2>1. Cardinality(1 .. n) < Cardinality(1 .. Len(q))
    BY <1>2, <1>3, <1>4
  <2> DEFINE D == 1 .. Len(q)
             R == 1 .. n
  <2>2. IsFiniteSet(D) /\ IsFiniteSet(R) /\ Cardinality(R) < Cardinality(D) /\ g \in [D -> R]
    BY <1>2, <1>3, <1>5, <2>1
  <2>3. \E i, j \in D : i # j /\ g[i] = g[j]
    <3> HIDE DEF g, D, R
    <3> QED
      BY <2>2, FS_PigeonHole, Zenon
  <2> QED
    BY <2>3
<1> QED
  BY <1>1, <1>6

-----------------------------------------------------------------------------
(* GetNewDbPage                                                              *)

\* What WritePages leaves in the slots: everything but the marks.
LEMMA CleanSlotsKeep ==
    ASSUME TypeOK
    PROVE  /\ CleanSlots \in [Slot -> [no : PageNo, writable : BOOLEAN, data : Content]]
           /\ \A s \in Slot : /\ CleanSlots[s].no = slot[s].no
                              /\ CleanSlots[s].data = slot[s].data
                              /\ CleanSlots[s].writable => slot[s].writable
           /\ WritableIsExact => \A s \in InUse : ~CleanSlots[s].writable
<1>1. \A s \in Slot : slot[s] \in [no : PageNo, writable : BOOLEAN, data : Content]
  BY DEF TypeOK
<1>2. \A s \in Slot : /\ CleanSlots[s] \in [no : PageNo, writable : BOOLEAN, data : Content]
                      /\ CleanSlots[s].no = slot[s].no
                      /\ CleanSlots[s].data = slot[s].data
                      /\ CleanSlots[s].writable => slot[s].writable
  BY <1>1 DEF CleanSlots
<1>3. DOMAIN CleanSlots = Slot
  BY DEF CleanSlots
<1>4. ASSUME WritableIsExact, NEW s \in InUse PROVE ~CleanSlots[s].writable
  <2>1. s \in Slot
    BY DEF InUse, TypeOK
  <2>2. CASE slot[s].writable
    <3>1. s \in Dirty
      BY <2>2 DEF Dirty
    <3>2. \E i \in DOMAIN writable : writable[i] = s
      BY <3>1, <1>4 DEF WritableIsExact
    <3> QED
      BY <1>1, <2>1, <3>2 DEF CleanSlots
  <2>3. CASE ~slot[s].writable
    BY <1>2, <2>1, <2>3
  <2> QED
    BY <2>2, <2>3
<1>5. CleanSlots \in [Slot -> [no : PageNo, writable : BOOLEAN, data : Content]]
  BY <1>2 DEF CleanSlots
<1> QED
  BY <1>2, <1>4, <1>5

\* WritePages writes to each page what a slot of it holds, if one is marked.
LEMMA WrittenFileIs ==
    ASSUME TypeOK, NEW p \in PageNo
    PROVE  /\ Copies(p) = {} => WrittenFile[p] = file[p]
           /\ Copies(p) # {} =>
                 \E i \in DOMAIN writable :
                    slot[writable[i]].no = p /\ WrittenFile[p] = slot[writable[i]].data
<1>1. CASE Copies(p) = {}
  BY <1>1 DEF WrittenFile
<1>2. CASE Copies(p) # {}
  <2>1. Copies(p) \in SUBSET (1 .. Len(writable)) /\ Len(writable) \in Nat
    BY DEF Copies, TypeOK
  <2>2. Last(Copies(p)) \in Copies(p)
    BY <1>2, <2>1, HasLast
  <2>3. WrittenFile[p] = slot[writable[Last(Copies(p))]].data
    BY <1>2 DEF WrittenFile
  <2> QED
    BY <1>2, <2>2, <2>3 DEF Copies
<1> QED
  BY <1>1, <1>2

\* What is written is content of pages.
LEMMA WrittenFileType ==
    TypeOK => WrittenFile \in [PageNo -> Content]
<1> SUFFICES ASSUME TypeOK, NEW p \in PageNo PROVE WrittenFile[p] \in Content
  BY DEF WrittenFile
<1>1. CASE Copies(p) = {}
  BY <1>1, WrittenFileIs DEF TypeOK
<1>2. CASE Copies(p) # {}
  <2>1. PICK i \in DOMAIN writable : WrittenFile[p] = slot[writable[i]].data
    BY <1>2, WrittenFileIs
  <2>2. writable[i] \in Slot
    BY DEF TypeOK
  <2> QED
    BY <2>1, <2>2 DEF TypeOK
<1> QED
  BY <1>1, <1>2

\* The slot that is taken, and the list afterwards.
LEMMA UseSlotShape ==
    ASSUME TypeOK, SlotsOK,
           NEW p \in PageNo, NEW content, NEW mark, UseSlot(p, content, mark)
    PROVE  /\ Taken \in Slot
           /\ pages' \in Seq(Slot) /\ Len(pages') <= MaxCache
           /\ InUse' = InUse \cup {Taken}
           /\ InUse' = 1 .. Len(pages')
           /\ \A i, j \in DOMAIN pages' : pages'[i] = pages'[j] => i = j
           /\ Len(pages) <= Len(pages')
           /\ Taken \in InUse =>
                 /\ Len(pages) = MaxCache /\ Len(pages') = MaxCache
                 /\ MustSteal \/ ~slot[Taken].writable
           /\ Taken \notin InUse => ~MustSteal
<1>1. pages \in Seq(Slot) /\ Len(pages) \in Nat /\ Len(pages) <= MaxCache
      /\ DOMAIN pages = 1 .. Len(pages) /\ MaxCache \in Nat
  BY CacheAssumption DEF TypeOK
<1> DEFINE n == Len(pages)
<1>0. n \in Nat /\ n <= MaxCache /\ MaxCache \in Nat
  BY <1>1
<1> HIDE DEF n
<1>2. CASE HasNew
  <2>1. Taken = Len(pages) + 1 /\ Taken \in Slot
    BY <1>1, <1>2 DEF Taken, HasNew, Slot
  <2>2. Taken \notin InUse
    BY <1>1, <2>1 DEF SlotsOK
  <2>3. pages' = <<Taken>> \o pages
    BY <1>2 DEF UseSlot
  <2>4. /\ pages' \in Seq(Slot) /\ Len(pages') = Len(pages) + 1
        /\ DOMAIN pages' = 1 .. Len(pages) + 1
        /\ pages'[1] = Taken
        /\ \A i \in 2 .. Len(pages) + 1 : pages'[i] = pages[i - 1]
    BY <1>1, <2>1, <2>3
  <2>5. InUse' = {pages'[i] : i \in DOMAIN pages'}
    BY DEF InUse
  <2>6. ASSUME NEW x \in InUse' PROVE x \in InUse \cup {Taken}
    <3>1. PICK i \in DOMAIN pages' : x = pages'[i]
      BY <2>5
    <3>2. CASE i = 1
      BY <3>1, <3>2, <2>4
    <3>3. CASE i # 1
      <4>1. i - 1 \in DOMAIN pages /\ x = pages[i - 1]
        BY <1>1, <3>1, <3>3, <2>4
      <4> QED
        BY <4>1 DEF InUse
    <3> QED
      BY <3>2, <3>3
  <2>7. ASSUME NEW x \in InUse \cup {Taken} PROVE x \in InUse'
    <3>1. CASE x = Taken
      BY <3>1, <2>4, <2>5
    <3>2. CASE x \in InUse
      <4>1. PICK i \in DOMAIN pages : x = pages[i]
        BY <3>2 DEF InUse
      <4>2. i + 1 \in DOMAIN pages' /\ pages'[i + 1] = x
        BY <1>1, <4>1, <2>4
      <4> QED
        BY <4>2, <2>5
    <3> QED
      BY <3>1, <3>2
  <2>8. InUse' = InUse \cup {Taken}
    BY <2>6, <2>7
  <2>9. InUse' = 1 .. Len(pages')
    BY <1>1, <2>1, <2>4, <2>8 DEF SlotsOK
  <2>10. ASSUME NEW i \in DOMAIN pages', NEW j \in DOMAIN pages', pages'[i] = pages'[j]
         PROVE  i = j
    <3>1. \A k \in 2 .. Len(pages) + 1 : k - 1 \in DOMAIN pages /\ pages'[k] \in InUse
      <4> SUFFICES ASSUME NEW k \in 2 .. Len(pages) + 1
                   PROVE  k - 1 \in DOMAIN pages /\ pages'[k] \in InUse
        OBVIOUS
      <4>1. k - 1 \in DOMAIN pages
        BY <1>1
      <4> QED
        BY <4>1, <2>4 DEF InUse
    <3>2. CASE i = 1 \/ j = 1
      BY <3>1, <3>2, <2>2, <2>4, <2>10
    <3>3. CASE i # 1 /\ j # 1
      <4>1. pages[i - 1] = pages[j - 1] /\ i - 1 \in DOMAIN pages /\ j - 1 \in DOMAIN pages
        BY <3>1, <3>3, <2>4, <2>10
      <4>2. i - 1 = j - 1
        BY <4>1 DEF SlotsOK
      <4> QED
        BY <4>2, <2>4
    <3> QED
      BY <3>2, <3>3
  <2>11. n < MaxCache
    BY <1>2 DEF HasNew, n
  <2>12. ~MustSteal
    BY <1>0, <2>11 DEF MustSteal, n
  <2>13. Len(pages) <= Len(pages') /\ Len(pages') <= MaxCache
    BY <1>0, <2>4, <2>11 DEF n
  <2> QED
    BY <2>1, <2>2, <2>4, <2>8, <2>9, <2>10, <2>12, <2>13
<1>3. CASE ~HasNew
  <2>1. Clean # {} /\ Clean \in SUBSET (1 .. Len(pages))
    BY <1>1, <1>3 DEF UseSlot, Clean
  <2>2. Last(Clean) \in Clean
    BY <1>1, <2>1, HasLast
  <2>3. Last(Clean) \in DOMAIN pages /\ Taken = pages[Last(Clean)]
    BY <1>1, <1>3, <2>2 DEF Taken, Clean
  <2>4. MustSteal \/ ~slot[Taken].writable
    BY <2>2, <2>3 DEF Clean
  <2>5. pages' = ToFront(pages, Last(Clean))
    BY <1>3 DEF UseSlot
  <2>6. /\ pages' \in Seq(Slot) /\ Len(pages') = Len(pages) /\ DOMAIN pages' = DOMAIN pages
        /\ {pages'[j] : j \in DOMAIN pages} = {pages[j] : j \in DOMAIN pages}
        /\ (\A j, k \in DOMAIN pages : pages[j] = pages[k] => j = k) =>
              \A j, k \in DOMAIN pages : pages'[j] = pages'[k] => j = k
    <3> DEFINE i == Last(Clean)
               t == ToFront(pages, i)
    <3>1. pages \in Seq(Slot) /\ i \in DOMAIN pages /\ pages' = t
      BY <1>1, <2>3, <2>5
    <3> HIDE DEF i
    <3>2. /\ t \in Seq(Slot) /\ Len(t) = Len(pages) /\ DOMAIN t = DOMAIN pages
          /\ {t[j] : j \in DOMAIN pages} = {pages[j] : j \in DOMAIN pages}
          /\ (\A j, k \in DOMAIN pages : pages[j] = pages[k] => j = k) =>
                \A j, k \in DOMAIN pages : t[j] = t[k] => j = k
      BY <3>1, ToFrontKeeps
    <3> QED
      BY <3>1, <3>2
  <2>7. InUse' = InUse
    BY <2>6 DEF InUse
  <2>8. Taken \in InUse /\ Taken \in Slot
    BY <1>1, <2>3 DEF InUse
  <2>9. \A i, j \in DOMAIN pages' : pages'[i] = pages'[j] => i = j
    BY <2>6 DEF SlotsOK
  <2>10. Len(pages) = MaxCache
    <3>1. ~(n < MaxCache)
      BY <1>3 DEF HasNew, n
    <3> QED
      BY <1>0, <3>1 DEF n
  <2>11. InUse' = InUse \cup {Taken}
    BY <2>7, <2>8
  <2>12. InUse' = 1 .. Len(pages')
    BY <2>6, <2>7 DEF SlotsOK
  <2> QED
    BY <1>1, <2>4, <2>6, <2>8, <2>9, <2>10, <2>11, <2>12
<1> QED
  BY <1>2, <1>3

\* The slots and the map after slot Taken was taken for page p.
UsedFor(p, content, mark) ==
    /\ slot' \in [Slot -> [no : PageNo, writable : BOOLEAN, data : Content]]
    /\ slot'[Taken] = [no |-> p, writable |-> mark, data |-> content]
    /\ \A t \in Slot \ {Taken} :
          /\ slot'[t].no = slot[t].no
          /\ slot'[t].data = slot[t].data
          /\ ~MustSteal => slot'[t].writable = slot[t].writable
    /\ MustSteal /\ WritableIsExact => \A t \in InUse \ {Taken} : ~slot'[t].writable
    /\ map' \in [PageNo -> Slot \cup {NoSlot}]
    /\ map'[p] = Taken
    /\ \A q \in PageNo \ {p} : map'[q] = IF q = slot[Taken].no THEN NoSlot ELSE map[q]

\* UseSlot makes them so.
LEMMA UseSlotSlots ==
    ASSUME TypeOK, SlotsOK,
           NEW p \in PageNo, NEW content \in Content, NEW mark \in BOOLEAN,
           UseSlot(p, content, mark)
    PROVE  UsedFor(p, content, mark)
<1>1. Taken \in Slot
  BY UseSlotShape
<1> DEFINE clean == IF MustSteal THEN CleanSlots ELSE slot
<1>2. /\ clean \in [Slot -> [no : PageNo, writable : BOOLEAN, data : Content]]
      /\ \A t \in Slot : clean[t].no = slot[t].no /\ clean[t].data = slot[t].data
      /\ ~MustSteal => clean = slot
      /\ MustSteal /\ WritableIsExact => \A t \in InUse : ~clean[t].writable
  BY CleanSlotsKeep DEF TypeOK
<1>3. slot' = [clean EXCEPT ![Taken] = [no |-> p, writable |-> mark, data |-> content]]
  BY DEF UseSlot
<1>4. map' = [map EXCEPT ![slot[Taken].no] = NoSlot, ![p] = Taken]
  BY DEF UseSlot, Unmapped
<1>5. map \in [PageNo -> Slot \cup {NoSlot}] /\ slot[Taken].no \in PageNo
  BY <1>1 DEF TypeOK
<1>6. /\ map' \in [PageNo -> Slot \cup {NoSlot}]
      /\ map'[p] = Taken
      /\ \A q \in PageNo \ {p} : map'[q] = IF q = slot[Taken].no THEN NoSlot ELSE map[q]
  BY <1>1, <1>4, <1>5
<1> HIDE DEF clean
<1>7. InUse \subseteq Slot
  BY DEF InUse, TypeOK
<1> QED
  BY <1>1, <1>2, <1>3, <1>6, <1>7 DEF UsedFor

\* Taking a slot keeps the map exact.
LEMMA UseSlotMap ==
    ASSUME TypeOK, SlotsOK, MapIsExact,
           NEW p \in PageNo, NEW content \in Content, NEW mark \in BOOLEAN,
           UseSlot(p, content, mark)
    PROVE  MapIsExact'
<1> USE DEF MapIsExact, Cached
<1>1. InUse' = InUse \cup {Taken}
  BY UseSlotShape
<1>0. UsedFor(p, content, mark)
  BY UseSlotSlots
<1>2. SUFFICES ASSUME NEW q \in PageNo, map'[q] # NoSlot
               PROVE  map'[q] \in InUse' /\ slot'[map'[q]].no = q
  OBVIOUS
<1>3. CASE q = p
  BY <1>0, <1>1, <1>3 DEF UsedFor
<1>4. CASE q # p
  <2>1. q # slot[Taken].no /\ map'[q] = map[q]
    BY <1>0, <1>2, <1>4 DEF UsedFor
  <2>2. map[q] \in InUse /\ slot[map[q]].no = q /\ map[q] # Taken
    BY <1>2, <2>1
  <2>3. map[q] \in Slot
    BY <2>2 DEF InUse, TypeOK
  <2>4. slot'[map[q]].no = slot[map[q]].no
    BY <1>0, <2>2, <2>3 DEF UsedFor
  <2> QED
    BY <1>1, <2>1, <2>2, <2>4
<1> QED
  BY <1>3, <1>4

\* The third part of WritableIsExact follows from the others.
LEMMA WritableLength ==
    ASSUME NEW q \in Seq(Slot), NEW w \in Seq(Slot),
           \A i \in DOMAIN w : w[i] \in 1 .. Len(q),
           \A i, j \in DOMAIN w : w[i] = w[j] => i = j
    PROVE  Len(w) <= Len(q)
<1>1. Len(q) \in Nat
  OBVIOUS
<1> QED
  BY <1>1, DifferentSlots

\* And the list of modified pages.
LEMMA UseSlotWritable ==
    ASSUME TypeOK, SlotsOK, WritableIsExact,
           NEW p \in PageNo, NEW content \in Content, NEW mark \in BOOLEAN,
           UseSlot(p, content, mark)
    PROVE  WritableIsExact' /\ writable' \in Seq(Slot)
<1>1. /\ Taken \in Slot
      /\ InUse' = InUse \cup {Taken} /\ InUse' = 1 .. Len(pages')
      /\ pages' \in Seq(Slot)
      /\ Taken \in InUse => MustSteal \/ ~slot[Taken].writable
      /\ Taken \notin InUse => ~MustSteal
  BY UseSlotShape
<1>2. /\ slot'[Taken].writable = mark
      /\ \A t \in Slot \ {Taken} : ~MustSteal => slot'[t].writable = slot[t].writable
      /\ MustSteal => \A t \in InUse \ {Taken} : ~slot'[t].writable
  <2>1. UsedFor(p, content, mark)
    BY UseSlotSlots
  <2> QED
    BY <2>1 DEF UsedFor
<1>3. InUse \subseteq Slot
  BY DEF InUse, TypeOK
<1>4. Dirty' = {s \in InUse' : slot'[s].writable}
  BY DEF Dirty
<1> DEFINE kept == IF MustSteal THEN <<>> ELSE writable
           new  == IF mark THEN <<Taken>> ELSE <<>>
           KeptSet == {kept[i] : i \in DOMAIN kept}
<1>5. writable' = kept \o new
  BY DEF UseSlot
<1>6. /\ kept \in Seq(Slot)
      /\ \A i, j \in DOMAIN kept : kept[i] = kept[j] => i = j
  BY DEF TypeOK, WritableIsExact
<1>7. KeptSet = IF MustSteal THEN {} ELSE Dirty
  BY DEF WritableIsExact
<1>8. Taken \notin KeptSet
  BY <1>1, <1>7 DEF Dirty
<1>9. Dirty' = KeptSet \cup (IF mark THEN {Taken} ELSE {})
  <2>1. CASE MustSteal
    BY <1>1, <1>2, <1>4, <1>7, <2>1
  <2>2. CASE ~MustSteal
    BY <1>1, <1>2, <1>3, <1>4, <1>7, <2>2 DEF Dirty
  <2> QED
    BY <2>1, <2>2
<1>12. ASSUME writable' \in Seq(Slot),
              \A i, j \in DOMAIN writable' : writable'[i] = writable'[j] => i = j,
              {writable'[i] : i \in DOMAIN writable'} = Dirty'
       PROVE  WritableIsExact' /\ writable' \in Seq(Slot)
  <2>1. \A i \in DOMAIN writable' : writable'[i] \in 1 .. Len(pages')
    BY <1>1, <1>4, <1>12
  <2>2. Len(writable') <= Len(pages')
    BY <1>1, <1>12, <2>1, WritableLength
  <2> QED
    BY <1>12, <2>2 DEF WritableIsExact
<1> HIDE DEF kept
<1>10. CASE mark
  <2>1. writable' = Append(kept, Taken)
    BY <1>1, <1>5, <1>6, <1>10
  <2>2. /\ writable' \in Seq(Slot) /\ DOMAIN writable' = 1 .. Len(kept) + 1
        /\ writable'[Len(kept) + 1] = Taken
        /\ \A i \in DOMAIN kept : writable'[i] = kept[i]
        /\ DOMAIN kept = 1 .. Len(kept) /\ Len(kept) \in Nat
    BY <1>1, <1>6, <2>1
  <2>3. \A i \in DOMAIN kept : kept[i] # Taken
    BY <1>8
  <2>4. \A i, j \in DOMAIN writable' : writable'[i] = writable'[j] => i = j
    BY <1>6, <2>2, <2>3
  <2>5. {writable'[i] : i \in DOMAIN writable'} = KeptSet \cup {Taken}
    <3>1. \A i \in DOMAIN writable' : writable'[i] \in KeptSet \cup {Taken}
      BY <2>2
    <3>2. \A x \in KeptSet \cup {Taken} : \E i \in DOMAIN writable' : x = writable'[i]
      <4>1. \A i \in DOMAIN kept : i \in DOMAIN writable'
        BY <2>2
      <4>2. Len(kept) + 1 \in DOMAIN writable'
        BY <2>2
      <4> QED
        BY <2>2, <4>1, <4>2
    <3> HIDE DEF KeptSet
    <3> QED
      BY <3>1, <3>2
  <2>6. {writable'[i] : i \in DOMAIN writable'} = Dirty'
    BY <1>9, <1>10, <2>5
  <2> QED
    BY <1>12, <2>2, <2>4, <2>6
<1>11. CASE ~mark
  <2>1. writable' = kept
    BY <1>5, <1>6, <1>11
  <2>2. {writable'[i] : i \in DOMAIN writable'} = Dirty'
    BY <1>9, <1>11, <2>1
  <2> QED
    BY <1>6, <1>12, <2>1, <2>2
<1> QED
  BY <1>10, <1>11

-----------------------------------------------------------------------------
(* What each operation keeps, whoever calls it                               *)

\* Taking a slot for page p keeps the slots and the pages.
LEMMA UseSlotPages ==
    ASSUME TypeOK, SlotsOK, MapIsExact, PagesOK,
           NEW p \in PageNo, NEW content \in Content, NEW mark \in BOOLEAN,
           UseSlot(p, content, mark), ~Cached(p),
           pageCount' \in 1 .. MaxPages, pageCount <= pageCount', p < pageCount',
           \A q \in PageNo : pageCount <= q /\ q < pageCount' => q = p,
           \A q \in PageNo \ {p} : truth'[q] = truth[q],
           breach = {} /\ p # 0 => truth'[p] = content,
           breach = {} /\ p # 0 /\ ~mark => content = file[p]
    PROVE  SlotsOK' /\ PagesOK'
<1>1. /\ Taken \in Slot
      /\ InUse' = InUse \cup {Taken} /\ InUse' = 1 .. Len(pages')
      /\ \A i, j \in DOMAIN pages' : pages'[i] = pages'[j] => i = j
      /\ Taken \in InUse => MustSteal \/ ~slot[Taken].writable
  BY UseSlotShape
<1>2. UsedFor(p, content, mark)
  BY UseSlotSlots
<1>3. InUse \subseteq Slot /\ pageCount \in 1 .. MaxPages /\ MaxPages \in Nat
  BY CacheAssumption DEF InUse, TypeOK
<1>10. pageCount' \in Int /\ pageCount' <= MaxPages
  BY <1>3
<1>4. slot'[Taken].no = p /\ slot'[Taken].writable = mark /\ slot'[Taken].data = content
  BY <1>2 DEF UsedFor
<1>5. \A t \in Slot \ {Taken} : slot'[t].no = slot[t].no /\ slot'[t].data = slot[t].data
  BY <1>2 DEF UsedFor
<1>6. slot[Taken].no \in PageNo /\ \A t \in InUse : slot[t].no \in PageNo
  BY <1>1, <1>3 DEF TypeOK
<1>7. SlotsOK'
  <2>1. ASSUME NEW s \in InUse' PROVE slot'[s].no < pageCount'
    <3>1. CASE s = Taken
      BY <1>4, <3>1
    <3>2. CASE s # Taken
      <4>1. s \in InUse /\ slot'[s].no = slot[s].no /\ slot[s].no < pageCount
        BY <1>1, <1>3, <1>5, <3>2 DEF SlotsOK
      <4> QED
        BY <1>3, <1>6, <4>1 DEF PageNo
    <3> QED
      BY <3>1, <3>2
  <2>2. ASSUME NEW s \in Slot \ InUse' PROVE slot'[s].no = 0
    BY <1>1, <1>5 DEF SlotsOK
  <2> QED
    BY <1>1, <2>1, <2>2 DEF SlotsOK
<1>8. ASSUME NEW s \in InUse', slot'[s].no # 0 PROVE map'[slot'[s].no] = s
  <2>1. CASE s = Taken
    BY <1>2, <1>4, <2>1 DEF UsedFor
  <2>2. CASE s # Taken
    <3> DEFINE q == slot[s].no
    <3>1. s \in InUse /\ slot'[s].no = q /\ q # 0 /\ q \in PageNo
      BY <1>1, <1>3, <1>5, <1>6, <1>8, <2>2
    <3>2. map[q] = s
      BY <3>1 DEF PagesOK
    <3>3. q # p
      BY <1>3, <3>1, <3>2 DEF Cached, Slot, NoSlot
    <3>4. q # slot[Taken].no
      BY <1>1, <2>2, <3>1, <3>2 DEF PagesOK, SlotsOK
    <3> QED
      BY <1>2, <3>1, <3>2, <3>3, <3>4 DEF UsedFor
  <2> QED
    BY <2>1, <2>2
<1>9. ASSUME breach' = {}
      PROVE  /\ \A q \in 1 .. pageCount' - 1 : Served(q)' = truth'[q]
             /\ \A s \in InUse' : slot'[s].no # 0 /\ ~slot'[s].writable => slot'[s].data = file'[slot'[s].no]
             /\ \A q \in pageCount' .. MaxPages - 1 : file'[q] = truth'[q]
  <2>1. ~MustSteal /\ breach = {} /\ file' = file
    BY <1>9 DEF UseSlot
  <2>2. ASSUME NEW q \in 1 .. pageCount' - 1 PROVE Served(q)' = truth'[q]
    <3>0. q \in Int /\ 1 <= q /\ q < pageCount' /\ pageCount' <= MaxPages
      <4> DEFINE c == pageCount'
      <4>1. c \in Int /\ c <= MaxPages /\ q \in 1 .. c - 1
        BY <1>10
      <4> HIDE DEF c
      <4>2. q \in Int /\ 1 <= q /\ q < c
        BY <4>1
      <4> QED
        BY <4>1, <4>2 DEF c
    <3>1. q \in PageNo /\ q # 0
      BY <1>3, <3>0 DEF PageNo
    <3>2. CASE q = p
      <4>1. map'[q] = Taken /\ Taken # NoSlot
        BY <1>1, <1>2, <3>2 DEF UsedFor, Slot, NoSlot
      <4> QED
        BY <1>4, <2>1, <3>1, <3>2, <4>1 DEF Served, Cached
    <3>3. CASE q # p
      <4>0. ~(pageCount <= q)
        BY <3>0, <3>1, <3>3
      <4>1. q \in 1 .. pageCount - 1
        BY <1>3, <3>0, <4>0
      <4>2. Served(q) = truth[q] /\ truth'[q] = truth[q]
        BY <2>1, <3>1, <3>3, <4>1 DEF PagesOK
      <4>3. CASE q = slot[Taken].no
        <5>1. map'[q] = NoSlot
          BY <1>2, <3>1, <3>3, <4>3 DEF UsedFor
        <5>2. Taken \in InUse
          BY <1>1, <3>1, <4>3 DEF SlotsOK
        <5>3. slot[Taken].data = file[q] /\ map[q] = Taken
          BY <1>1, <2>1, <3>1, <4>3, <5>2 DEF PagesOK
        <5>4. Served(q) = file[q]
          BY <5>3 DEF Served
        <5> QED
          BY <2>1, <4>2, <5>1, <5>4 DEF Served, Cached
      <4>4. CASE q # slot[Taken].no
        <5>1. map'[q] = map[q]
          BY <1>2, <3>1, <3>3, <4>4 DEF UsedFor
        <5>2. CASE map[q] = NoSlot
          BY <2>1, <4>2, <5>1, <5>2 DEF Served, Cached
        <5>3. CASE map[q] # NoSlot
          <6>1. map[q] \in InUse /\ slot[map[q]].no = q
            BY <3>1, <5>3 DEF MapIsExact, Cached
          <6>2. map[q] \in Slot \ {Taken}
            BY <1>3, <4>4, <6>1
          <6>3. slot'[map[q]].data = slot[map[q]].data
            BY <1>5, <6>2
          <6> QED
            BY <4>2, <5>1, <5>3, <6>3 DEF Served, Cached
        <5> QED
          BY <5>2, <5>3
      <4> QED
        BY <4>3, <4>4
    <3> QED
      BY <3>2, <3>3
  <2>3. ASSUME NEW s \in InUse', slot'[s].no # 0, ~slot'[s].writable
        PROVE  slot'[s].data = file'[slot'[s].no]
    <3>1. CASE s = Taken
      BY <1>4, <2>1, <2>3, <3>1
    <3>2. CASE s # Taken
      <4>1. s \in InUse /\ s \in Slot \ {Taken}
        BY <1>1, <1>3, <3>2
      <4>2. slot'[s].writable = slot[s].writable
        BY <1>2, <2>1, <4>1 DEF UsedFor
      <4> QED
        BY <1>5, <2>1, <2>3, <4>1, <4>2 DEF PagesOK
    <3> QED
      BY <3>1, <3>2
  <2>4. ASSUME NEW q \in pageCount' .. MaxPages - 1 PROVE file'[q] = truth'[q]
    <3>1. q \in PageNo /\ q \in pageCount .. MaxPages - 1 /\ q # p
      BY <1>3 DEF PageNo
    <3> QED
      BY <2>1, <3>1 DEF PagesOK
  <2> QED
    BY <2>2, <2>3, <2>4
<1> QED
  BY <1>7, <1>8, <1>9 DEF PagesOK

\* The part of TypeOK that is the callers'.
ControlType ==
    /\ status \in {"normal", "write"}
    /\ pc \in {"opening", "format", "formatted", "marked", "flush", "ready", "commit",
               "header", "aborted"}
    /\ clock \in Content

\* And keeps the other references, as a slot that is taken is not marked.
LEMMA UseSlotRefs ==
    ASSUME TypeOK, SlotsOK, RefsOK,
           NEW r \in Holders, NEW p \in PageNo, NEW content \in Content, NEW mark \in BOOLEAN,
           UseSlot(p, content, mark),
           refs' = [refs EXCEPT ![r] = Ref(Taken, p, mark)], p = 0 <=> r = "header",
           pageCount' \in 1 .. MaxPages, pageCount <= pageCount', p < pageCount'
    PROVE  RefsOK' /\ refs' \in [Holders -> [slot : Slot \cup {NoSlot}, no : PageNo, marked : BOOLEAN]]
<1>1. /\ Taken \in Slot /\ Taken # NoSlot
      /\ InUse' = InUse \cup {Taken}
      /\ pages' \in Seq(Slot) /\ Len(pages') <= MaxCache /\ Len(pages) <= Len(pages')
      /\ Taken \in InUse => Len(pages') = MaxCache /\ (MustSteal \/ ~slot[Taken].writable)
  BY UseSlotShape DEF Slot, NoSlot
<1>2. UsedFor(p, content, mark)
  BY UseSlotSlots
<1>3. slot'[Taken].no = p /\ slot'[Taken].writable = mark
  BY <1>2 DEF UsedFor
<1>4. breach \subseteq breach' /\ (breach' = {} => ~MustSteal)
  BY DEF UseSlot
<1>5. refs \in [Holders -> [slot : Slot \cup {NoSlot}, no : PageNo, marked : BOOLEAN]]
  BY DEF TypeOK
<1>6. refs' \in [Holders -> [slot : Slot \cup {NoSlot}, no : PageNo, marked : BOOLEAN]]
  BY <1>1, <1>5 DEF Ref
<1>7. /\ refs'[r].slot = Taken /\ refs'[r].no = p /\ refs'[r].marked = mark
      /\ \A o \in Holders \ {r} : refs'[o] = refs[o]
  BY <1>5 DEF Ref
<1>8. ASSUME NEW o \in Holders, refs'[o].slot = NoSlot PROVE refs'[o] = NoRef
  BY <1>1, <1>7, <1>8 DEF RefsOK
<1>9. ASSUME NEW o \in Holders, refs'[o].slot # NoSlot
      PROVE  /\ refs'[o].slot \in InUse'
             /\ refs'[o].no < pageCount'
             /\ refs'[o].no = 0 <=> o = "header"
             /\ Stale(o)' => Len(pages') = MaxCache
             /\ breach' = {} /\ refs'[o].marked => ~Stale(o)' /\ slot'[refs'[o].slot].writable
  <2>1. CASE o = r
    BY <1>1, <1>3, <1>7, <2>1 DEF Stale
  <2>2. CASE o # r
    <3> DEFINE s == refs[o].slot
    <3>1. refs'[o] = refs[o] /\ s \in InUse /\ s # NoSlot
      BY <1>7, <1>9, <2>2 DEF RefsOK
    <3>2. s \in Slot
      BY <1>5, <3>1
    <3>3. refs[o].no < pageCount' /\ (refs[o].no = 0 <=> o = "header")
      <4>1. refs[o].no < pageCount /\ (refs[o].no = 0 <=> o = "header")
        BY <3>1 DEF RefsOK
      <4>2. refs[o].no \in Int /\ pageCount \in Int /\ pageCount' \in Int
        BY CacheAssumption, <1>5 DEF PageNo, TypeOK
      <4> QED
        BY <4>1, <4>2
    <3>4. CASE s = Taken
      <4>1. Len(pages') = MaxCache
        BY <1>1, <3>1, <3>4
      <4>2. ~ (breach' = {} /\ refs'[o].marked)
        BY <1>1, <1>4, <3>1, <3>4 DEF RefsOK
      <4> QED
        BY <1>1, <3>1, <3>3, <4>1, <4>2
    <3>5. CASE s # Taken
      <4>1. slot'[s].no = slot[s].no /\ (~MustSteal => slot'[s].writable = slot[s].writable)
        BY <1>2, <3>2, <3>5 DEF UsedFor
      <4>2. Stale(o)' = Stale(o)
        BY <3>1, <4>1 DEF Stale
      <4>3. Stale(o)' => Len(pages') = MaxCache
        <5>1. Stale(o) => Len(pages) = MaxCache
          BY <3>1 DEF RefsOK
        <5>2. Len(pages) \in Int /\ Len(pages') \in Int /\ MaxCache \in Int
          BY CacheAssumption, <1>1 DEF TypeOK
        <5> QED
          BY <1>1, <4>2, <5>1, <5>2
      <4>4. breach' = {} /\ refs'[o].marked => ~Stale(o)' /\ slot'[s].writable
        BY <1>4, <3>1, <4>1, <4>2 DEF RefsOK
      <4> QED
        BY <1>1, <3>1, <3>3, <4>3, <4>4
    <3> QED
      BY <3>4, <3>5
  <2> QED
    BY <2>1, <2>2
<1> QED
  BY <1>6, <1>8, <1>9 DEF RefsOK

\* get_page.
LEMMA GetPageCore ==
    ASSUME Core, NEW r \in Holders, NEW p \in PageNo, p = 0 <=> r = "header",
           GetPage(r, p), pageCount' = pageCount, truth' = truth, ControlType'
    PROVE  Core'
<1> USE DEF Core
<1>1. CASE Cached(p) /\ refs' = [refs EXCEPT ![r] = Ref(map[p], p, FALSE)]
           /\ UNCHANGED <<cacheVars, file, journal, breach>>
  <2>1. map[p] \in InUse /\ slot[map[p]].no = p /\ map[p] # NoSlot /\ map[p] \in Slot \cup {NoSlot}
    BY <1>1 DEF MapIsExact, Cached, TypeOK
  <2>2. TypeOK'
    BY <1>1, <2>1 DEF TypeOK, ControlType, cacheVars, Ref
  <2>3. SlotsOK' /\ MapIsExact' /\ WritableIsExact' /\ PagesOK'
    BY <1>1 DEF cacheVars, SlotsOK, MapIsExact, WritableIsExact, PagesOK, InUse, Dirty,
        Cached, Served
  <2>4. /\ refs'[r].slot = map[p] /\ refs'[r].no = p /\ refs'[r].marked = FALSE
        /\ \A o \in Holders \ {r} : refs'[o] = refs[o]
    BY <1>1 DEF Ref, TypeOK
  <2>5. InUse' = InUse /\ pages' = pages /\ slot' = slot /\ breach' = breach
    BY <1>1 DEF cacheVars, InUse
  <2>6. \A o \in Holders \ {r} : Stale(o)' = Stale(o)
    BY <2>4, <2>5 DEF Stale
  <2>7. ~Stale(r)'
    BY <2>1, <2>4, <2>5 DEF Stale
  <2>8. p < pageCount
    BY DEF GetPage
  <2>9. RefsOK'
    BY <2>1, <2>4, <2>5, <2>6, <2>7, <2>8 DEF RefsOK
  <2> QED
    BY <2>2, <2>3, <2>9
<1>2. CASE ~Cached(p) /\ UseSlot(p, file[p], FALSE) /\ refs' = [refs EXCEPT ![r] = Ref(Taken, p, FALSE)]
  <2>1. file[p] \in Content /\ p < pageCount /\ pageCount \in 1 .. MaxPages /\ pageCount \in Int
    BY CacheAssumption DEF TypeOK, GetPage
  <2>2. breach = {} /\ p # 0 => truth[p] = file[p]
    <3>1. p # 0 => p \in 1 .. pageCount - 1
      BY <2>1 DEF PageNo
    <3> QED
      BY <1>2, <3>1 DEF PagesOK, Served
  <2>3. /\ pageCount' \in 1 .. MaxPages /\ pageCount <= pageCount' /\ p < pageCount'
        /\ \A q \in PageNo : pageCount <= q /\ q < pageCount' => q = p
        /\ \A q \in PageNo \ {p} : truth'[q] = truth[q]
        /\ breach = {} /\ p # 0 => truth'[p] = file[p]
        /\ breach = {} /\ p # 0 /\ ~FALSE => file[p] = file[p]
    BY <2>1, <2>2 DEF PageNo
  <2>4. SlotsOK' /\ PagesOK'
    <3> DEFINE content == file[p]
    <3>1. content \in Content
      BY <2>1
    <3>2. UseSlot(p, content, FALSE) /\ ~Cached(p)
      BY <1>2
    <3>3. /\ breach = {} /\ p # 0 => truth'[p] = content
          /\ breach = {} /\ p # 0 /\ ~FALSE => content = file[p]
      BY <2>3
    <3> HIDE DEF content
    <3> QED
      BY <2>3, <3>1, <3>2, <3>3, UseSlotPages
  <2>5. MapIsExact' /\ WritableIsExact' /\ writable' \in Seq(Slot)
    BY <1>2, <2>1, UseSlotMap, UseSlotWritable
  <2>6. RefsOK' /\ refs' \in [Holders -> [slot : Slot \cup {NoSlot}, no : PageNo, marked : BOOLEAN]]
    BY <1>2, <2>1, <2>3, UseSlotRefs
  <2>7. UsedFor(p, file[p], FALSE) /\ pages' \in Seq(Slot) /\ Len(pages') <= MaxCache
    BY <1>2, <2>1, UseSlotSlots, UseSlotShape
  <2>8. file' \in [PageNo -> Content] /\ journal' \in {"normal", "write"}
        /\ breach' \subseteq {"stale", "steal"}
    BY <1>2, WrittenFileType DEF UseSlot, EarlyJournal, TypeOK
  <2>9. TypeOK'
    BY <2>1, <2>5, <2>6, <2>7, <2>8 DEF TypeOK, ControlType, UsedFor
  <2> QED
    BY <2>4, <2>5, <2>6, <2>9
<1> QED
  BY <1>1, <1>2 DEF GetPage

\* get_new_page.
LEMMA GetNewPageCore ==
    ASSUME Core, NEW r \in Refs, GetNewPage(r), ControlType'
    PROVE  Core'
<1> USE DEF Core
<1> DEFINE p == pageCount
           content == Leftover
<1>1. /\ UseSlot(p, content, TRUE) /\ ~MustSteal /\ pageCount < MaxPages
      /\ pageCount' = pageCount + 1
      /\ refs' = [refs EXCEPT ![r] = Ref(Taken, p, TRUE)]
      /\ truth' = [truth EXCEPT ![p] = content]
  BY DEF GetNewPage
<1>2. pageCount \in 1 .. MaxPages /\ MaxPages \in Nat /\ pageCount \in Int /\ pageCount >= 1
  BY CacheAssumption DEF TypeOK
<1>3. p \in PageNo /\ p # 0
  BY <1>1, <1>2 DEF PageNo
<1>4. Taken \in Slot
  BY <1>1, <1>3, UseSlotShape
<1>5. content \in Content
  BY <1>4 DEF Leftover, TypeOK
<1>6. ~Cached(p)
  BY <1>2, <1>3 DEF MapIsExact, SlotsOK
<1>7. r \in Holders /\ r # "header"
  BY CacheAssumption DEF Holders
<1>8. /\ pageCount' \in 1 .. MaxPages /\ pageCount <= pageCount' /\ p < pageCount'
      /\ \A q \in PageNo : pageCount <= q /\ q < pageCount' => q = p
  BY <1>1, <1>2 DEF PageNo
<1>9. /\ \A q \in PageNo \ {p} : truth'[q] = truth[q]
      /\ truth' \in [PageNo -> Content]
      /\ truth'[p] = content
  BY <1>1, <1>3, <1>5 DEF TypeOK
<1>10. p = 0 <=> r = "header"
  BY <1>3, <1>7
<1> HIDE DEF p, content
<1>11. SlotsOK' /\ PagesOK'
  BY <1>1, <1>3, <1>5, <1>6, <1>8, <1>9, UseSlotPages
<1>12. MapIsExact' /\ WritableIsExact' /\ writable' \in Seq(Slot)
  BY <1>1, <1>3, <1>5, UseSlotMap, UseSlotWritable
<1>13. RefsOK' /\ refs' \in [Holders -> [slot : Slot \cup {NoSlot}, no : PageNo, marked : BOOLEAN]]
  BY <1>1, <1>3, <1>5, <1>7, <1>8, <1>10, UseSlotRefs
<1>14. UsedFor(p, content, TRUE) /\ pages' \in Seq(Slot) /\ Len(pages') <= MaxCache
  BY <1>1, <1>3, <1>5, UseSlotSlots, UseSlotShape
<1>15. /\ file' \in [PageNo -> Content] /\ journal' \in {"normal", "write"}
       /\ breach' \subseteq {"stale", "steal"}
  BY <1>1 DEF UseSlot, EarlyJournal, TypeOK
<1>16. TypeOK'
  BY <1>8, <1>9, <1>12, <1>13, <1>14, <1>15 DEF TypeOK, ControlType, UsedFor
<1> QED
  BY <1>11, <1>12, <1>13, <1>16

\* enable_write.
LEMMA EnableWriteCore ==
    ASSUME Core, NEW r \in Holders, EnableWrite(r),
           UNCHANGED <<file, pageCount, pages, map, journal, truth>>, ControlType'
    PROVE  Core'
<1> USE DEF Core
<1> DEFINE s == refs[r].slot
<1>1. s \in InUse /\ s # NoSlot
  BY DEF EnableWrite, RefsOK
<1>2. InUse \subseteq Slot
  BY DEF InUse, TypeOK
<1>3. /\ refs' = [refs EXCEPT ![r].marked = TRUE]
      /\ breach' = IF Stale(r) THEN breach \cup {"stale"} ELSE breach
      /\ \/ slot[s].writable /\ slot' = slot /\ writable' = writable
         \/ ~slot[s].writable /\ slot' = [slot EXCEPT ![s].writable = TRUE] /\ writable' = Append(writable, s)
  BY DEF EnableWrite
<1>4. /\ slot \in [Slot -> [no : PageNo, writable : BOOLEAN, data : Content]]
      /\ refs \in [Holders -> [slot : Slot \cup {NoSlot}, no : PageNo, marked : BOOLEAN]]
      /\ writable \in Seq(Slot) /\ pages \in Seq(Slot)
  BY DEF TypeOK
<1> HIDE DEF s
<1>5. /\ slot' \in [Slot -> [no : PageNo, writable : BOOLEAN, data : Content]]
      /\ \A t \in Slot : slot'[t].no = slot[t].no /\ slot'[t].data = slot[t].data
      /\ slot'[s].writable
      /\ \A t \in Slot \ {s} : slot'[t].writable = slot[t].writable
  <2>1. s \in Slot /\ slot[s] \in [no : PageNo, writable : BOOLEAN, data : Content]
    BY <1>1, <1>2, <1>4
  <2>2. CASE slot[s].writable /\ slot' = slot
    BY <1>4, <2>1, <2>2
  <2>3. CASE slot' = [slot EXCEPT ![s].writable = TRUE]
    BY <1>4, <2>1, <2>3
  <2> QED
    BY <1>3, <2>2, <2>3
<1>6. /\ refs' \in [Holders -> [slot : Slot \cup {NoSlot}, no : PageNo, marked : BOOLEAN]]
      /\ \A o \in Holders : refs'[o].slot = refs[o].slot /\ refs'[o].no = refs[o].no
      /\ \A o \in Holders \ {r} : refs'[o] = refs[o]
  BY <1>3, <1>4, ZenonT(40)
<1>7. InUse' = InUse /\ breach \subseteq breach' /\ breach' \subseteq {"stale", "steal"}
      /\ (breach' = {} => ~Stale(r))
  BY <1>3 DEF InUse, TypeOK
<1>8. WritableIsExact' /\ writable' \in Seq(Slot)
  <2>1. CASE slot[s].writable
    BY <1>3, <1>4, <2>1 DEF WritableIsExact, Dirty, InUse
  <2>2. CASE ~slot[s].writable
    <3>0. writable' = Append(writable, s) /\ s \in Slot
      BY <1>1, <1>2, <1>3, <2>2
    <3>1. /\ writable' \in Seq(Slot)
          /\ DOMAIN writable = 1 .. Len(writable) /\ Len(writable) \in Nat
          /\ DOMAIN writable' = 1 .. Len(writable) + 1
          /\ writable'[Len(writable) + 1] = s
          /\ \A i \in DOMAIN writable : writable'[i] = writable[i]
      BY <1>4, <3>0
    <3>2. \A i \in DOMAIN writable : writable[i] \in Dirty /\ writable[i] # s
      BY <2>2 DEF WritableIsExact, Dirty
    <3>3. \A i, j \in DOMAIN writable' : writable'[i] = writable'[j] => i = j
      BY <3>1, <3>2 DEF WritableIsExact
    <3>4. Dirty' = Dirty \cup {s}
      BY <1>1, <1>2, <1>5, <1>7 DEF Dirty
    <3>5. {writable'[i] : i \in DOMAIN writable'} = Dirty'
      <4>1. \A i \in DOMAIN writable' : writable'[i] \in Dirty'
        BY <3>1, <3>2, <3>4
      <4>2. \A x \in Dirty' : \E i \in DOMAIN writable' : x = writable'[i]
        <5>1. \A i \in DOMAIN writable : i \in DOMAIN writable'
          BY <3>1
        <5>2. Len(writable) + 1 \in DOMAIN writable'
          BY <3>1
        <5>3. \A x \in Dirty : \E i \in DOMAIN writable : x = writable[i]
          BY DEF WritableIsExact
        <5> QED
          BY <3>1, <3>4, <5>1, <5>2, <5>3
      <4> QED
        BY <4>1, <4>2
    <3>6. \A i \in DOMAIN writable' : writable'[i] \in 1 .. Len(pages)
      BY <1>1, <3>1, <3>2 DEF Dirty, SlotsOK
    <3>7. Len(writable') <= Len(pages)
      BY <1>4, <3>1, <3>3, <3>6, WritableLength
    <3> QED
      BY <3>1, <3>3, <3>5, <3>7 DEF WritableIsExact
  <2> QED
    BY <2>1, <2>2
<1>9. TypeOK'
  BY <1>5, <1>6, <1>7, <1>8 DEF TypeOK, ControlType
<1>10. SlotsOK' /\ MapIsExact'
  BY <1>2, <1>5, <1>7 DEF SlotsOK, MapIsExact, Cached
<1>11. RefsOK'
  <2>1. \A o \in Holders : refs[o].slot # NoSlot => (Stale(o)' <=> Stale(o))
    BY <1>2, <1>5, <1>6 DEF Stale, RefsOK
  <2>2. \A o \in Holders : refs'[o].slot = NoSlot => refs'[o] = NoRef
    BY <1>1, <1>6 DEF RefsOK, s
  <2>3. ASSUME NEW o \in Holders, refs'[o].slot # NoSlot, breach' = {}, refs'[o].marked
        PROVE  ~Stale(o)' /\ slot'[refs'[o].slot].writable
    <3>1. CASE o = r
      BY <1>1, <1>5, <1>6, <1>7, <2>1, <2>3, <3>1 DEF s
    <3>2. CASE o # r
      <4>1. ~Stale(o) /\ slot[refs[o].slot].writable /\ refs[o].slot \in Slot
        BY <1>2, <1>6, <1>7, <2>3, <3>2 DEF RefsOK
      <4> QED
        BY <1>5, <1>6, <2>1, <2>3, <3>2, <4>1
    <3> QED
      BY <3>1, <3>2
  <2>4. ASSUME NEW o \in Holders, refs'[o].slot # NoSlot
        PROVE  /\ refs'[o].slot \in InUse'
               /\ refs'[o].no < pageCount'
               /\ refs'[o].no = 0 <=> o = "header"
               /\ Stale(o)' => Len(pages') = MaxCache
    BY <1>6, <1>7, <2>1, <2>4 DEF RefsOK
  <2> QED
    BY <2>2, <2>3, <2>4 DEF RefsOK
<1>12. PagesOK'
  <2>1. \A t \in InUse : slot'[t].no # 0 => map'[slot'[t].no] = t
    BY <1>2, <1>5 DEF PagesOK
  <2>2. ASSUME breach' = {}
        PROVE  /\ \A p \in 1 .. pageCount - 1 : Served(p)' = truth[p]
               /\ \A t \in InUse : slot'[t].no # 0 /\ ~slot'[t].writable => slot'[t].data = file[slot'[t].no]
               /\ \A p \in pageCount .. MaxPages - 1 : file[p] = truth[p]
    <3>1. breach = {}
      BY <1>7, <2>2
    <3>2. ASSUME NEW p \in 1 .. pageCount - 1 PROVE Served(p)' = truth[p]
      <4>1. p \in PageNo
        BY CacheAssumption DEF TypeOK, PageNo
      <4>2. map[p] # NoSlot => map[p] \in Slot
        BY <4>1 DEF TypeOK
      <4> QED
        BY <1>5, <3>1, <4>2 DEF PagesOK, Served, Cached
    <3>3. \A t \in InUse : ~slot'[t].writable => ~slot[t].writable
      BY <1>2, <1>5
    <3> QED
      BY <1>2, <1>5, <3>1, <3>2, <3>3 DEF PagesOK
  <2> QED
    BY <1>7, <2>1, <2>2 DEF PagesOK
<1> QED
  BY <1>8, <1>9, <1>10, <1>11, <1>12

\* Modification of pages that are marked.
LEMMA ModifiedCore ==
    ASSUME Core, NEW rs \in SUBSET Holders, \A r \in rs : refs[r].marked,
           slot' = Modified(rs), truth' = Intended(rs), clock < MaxWrites, clock' = clock + 1,
           UNCHANGED <<file, pageCount, pages, map, writable, journal, refs, breach>>,
           ControlType'
    PROVE  Core'
<1> USE DEF Core
<1>1. /\ slot \in [Slot -> [no : PageNo, writable : BOOLEAN, data : Content]]
      /\ truth \in [PageNo -> Content]
      /\ InUse \subseteq Slot /\ InUse' = InUse
      /\ clock + 1 \in Content
  BY CacheAssumption DEF TypeOK, InUse, Content
<1>2. /\ slot' \in [Slot -> [no : PageNo, writable : BOOLEAN, data : Content]]
      /\ \A s \in Slot : slot'[s].no = slot[s].no /\ slot'[s].writable = slot[s].writable
      /\ \A s \in Slot : slot'[s].data = IF \E r \in rs : refs[r].slot = s THEN clock + 1
                                         ELSE slot[s].data
  BY <1>1 DEF Modified
<1>3. /\ truth' \in [PageNo -> Content]
      /\ \A p \in PageNo : truth'[p] = IF \E r \in rs : refs[r].no = p THEN clock + 1
                                       ELSE truth[p]
  BY <1>1 DEF Intended
<1>4. TypeOK'
  BY <1>1, <1>2, <1>3 DEF TypeOK, ControlType
<1>5. Dirty' = Dirty /\ \A o \in Holders : refs[o].slot # NoSlot => (Stale(o)' <=> Stale(o))
  BY <1>1, <1>2 DEF Dirty, Stale, RefsOK
<1>6. SlotsOK' /\ MapIsExact' /\ WritableIsExact' /\ RefsOK'
  <2>1. SlotsOK' /\ MapIsExact'
    BY <1>1, <1>2 DEF SlotsOK, MapIsExact, Cached
  <2>2. WritableIsExact'
    BY <1>5 DEF WritableIsExact
  <2>3. \A o \in Holders : refs[o].slot # NoSlot => refs[o].slot \in Slot
    BY <1>1 DEF RefsOK
  <2>4. RefsOK'
    BY <1>1, <1>2, <1>5, <2>3 DEF RefsOK
  <2> QED
    BY <2>1, <2>2, <2>4
<1>7. ASSUME NEW r \in rs, breach = {}
      PROVE  /\ refs[r].slot \in InUse /\ refs[r].no < pageCount
             /\ slot[refs[r].slot].no = refs[r].no /\ slot[refs[r].slot].writable
  <2>1. refs[r].slot # NoSlot
    BY DEF RefsOK, NoRef
  <2> QED
    BY <1>7, <2>1 DEF RefsOK, Stale
<1>8. \A s \in InUse : slot'[s].no # 0 => map'[slot'[s].no] = s
  BY <1>1, <1>2 DEF PagesOK
<1>9. ASSUME breach = {}, NEW p \in 1 .. pageCount - 1 PROVE Served(p)' = truth'[p]
  <2>1. p \in PageNo /\ p # 0 /\ Served(p) = truth[p]
    BY CacheAssumption, <1>9 DEF PagesOK, TypeOK, PageNo
  <2>2. CASE \E r \in rs : refs[r].no = p
    <3>1. PICK r \in rs : refs[r].no = p
      BY <2>2
    <3>2. map[p] = refs[r].slot /\ refs[r].slot \in Slot
      BY <1>1, <1>7, <1>9, <2>1, <3>1 DEF PagesOK
    <3>3. map[p] # NoSlot
      BY <3>2 DEF Slot, NoSlot
    <3> QED
      BY <1>2, <1>3, <2>1, <3>1, <3>2, <3>3 DEF Served, Cached
  <2>3. CASE ~ \E r \in rs : refs[r].no = p
    <3>1. CASE map[p] = NoSlot
      BY <1>3, <2>1, <2>3, <3>1 DEF Served, Cached
    <3>2. CASE map[p] # NoSlot
      <4>1. map[p] \in Slot /\ slot[map[p]].no = p
        BY <1>1, <2>1, <3>2 DEF MapIsExact, Cached
      <4>2. ~ \E r \in rs : refs[r].slot = map[p]
        BY <1>7, <1>9, <2>3, <4>1
      <4> QED
        BY <1>2, <1>3, <2>1, <2>3, <3>2, <4>1, <4>2 DEF Served, Cached
    <3> QED
      BY <3>1, <3>2
  <2> QED
    BY <2>2, <2>3
<1>10. ASSUME breach = {}, NEW s \in InUse, slot'[s].no # 0, ~slot'[s].writable
       PROVE  slot'[s].data = file[slot'[s].no]
  <2>1. ~ \E r \in rs : refs[r].slot = s
    BY <1>1, <1>2, <1>7, <1>10
  <2> QED
    BY <1>1, <1>2, <1>10, <2>1 DEF PagesOK
<1>11. ASSUME breach = {}, NEW p \in pageCount .. MaxPages - 1 PROVE file[p] = truth'[p]
  <2>1. p \in PageNo /\ ~(p < pageCount)
    BY CacheAssumption DEF TypeOK, PageNo
  <2>2. ~ \E r \in rs : refs[r].no = p
    BY <1>7, <1>11, <2>1
  <2> QED
    BY <1>3, <1>11, <2>1, <2>2 DEF PagesOK
<1> QED
  BY <1>1, <1>4, <1>6, <1>8, <1>9, <1>10, <1>11 DEF PagesOK

\* WritePages after the commit of the journal: the file is as the slots.
LEMMA FlushCore ==
    ASSUME Core, file' = WrittenFile, slot' = CleanSlots, writable' = <<>>,
           refs' = [r \in Holders |-> NoRef],
           UNCHANGED <<pageCount, pages, map, clock, truth, breach>>,
           ControlType', journal' \in {"normal", "write"}
    PROVE  /\ Core'
           /\ breach = {} => \A p \in PageNo \ {0} : file'[p] = truth[p]
<1> USE DEF Core
<1>1. /\ slot' \in [Slot -> [no : PageNo, writable : BOOLEAN, data : Content]]
      /\ \A s \in Slot : slot'[s].no = slot[s].no /\ slot'[s].data = slot[s].data
      /\ \A s \in InUse : ~slot'[s].writable
  BY CleanSlotsKeep
<1>2. InUse \subseteq Slot /\ InUse' = InUse
  BY DEF TypeOK, InUse
<1>3. TypeOK'
  <2>1. file' \in [PageNo -> Content]
    BY WrittenFileType
  <2>2. refs' \in [Holders -> [slot : Slot \cup {NoSlot}, no : PageNo, marked : BOOLEAN]]
    BY CacheAssumption DEF NoRef, PageNo
  <2>3. writable' \in Seq(Slot)
    OBVIOUS
  <2> QED
    BY <1>1, <2>1, <2>2, <2>3 DEF TypeOK, ControlType
<1>4. SlotsOK' /\ MapIsExact'
  BY <1>1, <1>2 DEF SlotsOK, MapIsExact, Cached
<1>5. WritableIsExact'
  <2>1. Dirty' = {}
    BY <1>1, <1>2 DEF Dirty
  <2>2. pages' = pages /\ Len(pages) \in Nat /\ Len(writable') = 0
    BY DEF TypeOK
  <2>3. DOMAIN writable' = {}
    OBVIOUS
  <2> QED
    BY <2>1, <2>2, <2>3 DEF WritableIsExact
<1>6. RefsOK'
  BY DEF RefsOK, NoRef, NoSlot
<1>7. ASSUME breach = {}, NEW p \in PageNo, p # 0 PROVE file'[p] = truth[p]
  <2>0. p < pageCount => p \in 1 .. pageCount - 1
    BY <1>7, CacheAssumption DEF PageNo, TypeOK
  <2>00. ~(p < pageCount) => p \in pageCount .. MaxPages - 1
    BY <1>7, CacheAssumption DEF PageNo, TypeOK
  <2>1. CASE Copies(p) = {}
    <3>1. file'[p] = file[p]
      BY <2>1, WrittenFileIs
    <3>2. CASE p < pageCount
      <4>1. Served(p) = truth[p]
        BY <1>7, <2>0, <3>2 DEF PagesOK
      <4>2. CASE map[p] = NoSlot
        BY <3>1, <4>1, <4>2 DEF Served, Cached
      <4>3. CASE map[p] # NoSlot
        <5>1. map[p] \in InUse /\ slot[map[p]].no = p
          BY <4>3 DEF MapIsExact, Cached
        <5>2. ~slot[map[p]].writable
          <6>1. SUFFICES ASSUME slot[map[p]].writable PROVE FALSE
            OBVIOUS
          <6>2. map[p] \in Dirty
            BY <5>1, <6>1 DEF Dirty
          <6>3. PICK i \in DOMAIN writable : writable[i] = map[p]
            BY <6>2 DEF WritableIsExact
          <6> QED
            BY <2>1, <5>1, <6>3 DEF Copies
        <5>3. slot[map[p]].data = file[p]
          BY <1>7, <5>1, <5>2 DEF PagesOK
        <5> QED
          BY <3>1, <4>1, <4>3, <5>3 DEF Served, Cached
      <4> QED
        BY <4>2, <4>3
    <3>3. CASE ~(p < pageCount)
      BY <1>7, <2>00, <3>1, <3>3 DEF PagesOK
    <3> QED
      BY <3>2, <3>3
  <2>2. CASE Copies(p) # {}
    <3>1. PICK i \in DOMAIN writable :
             slot[writable[i]].no = p /\ file'[p] = slot[writable[i]].data
      BY <2>2, WrittenFileIs
    <3>2. writable[i] \in InUse
      BY <3>1 DEF WritableIsExact, Dirty
    <3>3. map[p] = writable[i] /\ p < pageCount /\ map[p] # NoSlot
      BY <1>2, <1>7, <3>1, <3>2 DEF PagesOK, SlotsOK, Slot, NoSlot
    <3>4. Served(p) = truth[p]
      BY <1>7, <2>0, <3>3 DEF PagesOK
    <3> QED
      BY <3>1, <3>3, <3>4 DEF Served, Cached
  <2> QED
    BY <2>1, <2>2
<1>8. PagesOK'
  <2>1. \A s \in InUse : slot'[s].no # 0 => map[slot'[s].no] = s
    BY <1>1, <1>2 DEF PagesOK
  <2>2. ASSUME breach = {}, NEW p \in 1 .. pageCount - 1 PROVE Served(p)' = truth[p]
    <3>1. p \in PageNo /\ p # 0 /\ Served(p) = truth[p]
      BY CacheAssumption, <2>2 DEF PagesOK, TypeOK, PageNo
    <3>2. map[p] # NoSlot => slot'[map[p]].data = slot[map[p]].data
      BY <1>1, <3>1 DEF TypeOK
    <3> QED
      BY <1>7, <2>2, <3>1, <3>2 DEF Served, Cached
  <2>3. ASSUME breach = {}, NEW s \in InUse, slot'[s].no # 0
        PROVE  slot'[s].data = file'[slot'[s].no]
    <3> DEFINE p == slot[s].no
    <3>1. p \in PageNo /\ p # 0 /\ slot'[s].no = p /\ slot'[s].data = slot[s].data
      BY <1>1, <1>2, <2>3 DEF TypeOK
    <3>2. map[p] = s /\ map[p] # NoSlot /\ p < pageCount
      BY <1>2, <2>3, <3>1 DEF PagesOK, SlotsOK, Slot, NoSlot
    <3>3. p \in 1 .. pageCount - 1
      BY CacheAssumption, <3>1, <3>2 DEF TypeOK, PageNo
    <3>4. slot[s].data = truth[p]
      BY <2>3, <3>2, <3>3 DEF PagesOK, Served, Cached
    <3> QED
      BY <1>7, <2>3, <3>1, <3>4
  <2>4. ASSUME breach = {}, NEW p \in pageCount .. MaxPages - 1 PROVE file'[p] = truth[p]
    <3>1. p \in PageNo /\ p # 0
      BY CacheAssumption DEF TypeOK, PageNo
    <3> QED
      BY <1>7, <2>4, <3>1
  <2> QED
    BY <1>2, <2>1, <2>2, <2>3, <2>4 DEF PagesOK
<1> QED
  BY <1>3, <1>4, <1>5, <1>6, <1>7, <1>8

-----------------------------------------------------------------------------
(* Page 0                                                                    *)

\* No slot of page 0 is marked, and both places of page 0 have its content.
HeaderClean ==
    /\ \A s \in InUse : ~(slot[s].no = 0 /\ slot[s].writable)
    /\ file[0] = truth[0]
    /\ map[0] # NoSlot => slot[map[0]].data = truth[0]

\* While page 0 is not being modified, taking a slot for any page keeps it so.
LEMMA UseSlotHeader ==
    ASSUME TypeOK, SlotsOK, MapIsExact, HeaderClean,
           NEW p \in PageNo, NEW content \in Content, NEW mark \in BOOLEAN,
           UseSlot(p, content, mark), p = 0 => content = file[0] /\ ~mark,
           truth'[0] = truth[0], breach' = {}
    PROVE  /\ HeaderClean'
           /\ map'[0] = IF p = 0 THEN Taken ELSE IF slot[Taken].no = 0 THEN NoSlot ELSE map[0]
<1>1. Taken \in Slot /\ InUse' = InUse \cup {Taken} /\ InUse \subseteq Slot /\ 0 \in PageNo
  <2>1. Taken \in Slot /\ InUse' = InUse \cup {Taken}
    BY UseSlotShape
  <2>2. InUse \subseteq Slot
    BY DEF InUse, TypeOK
  <2>3. 0 \in PageNo
    BY CacheAssumption DEF PageNo
  <2> QED
    BY <2>1, <2>2, <2>3
<1>2. UsedFor(p, content, mark)
  BY UseSlotSlots
<1>3. ~MustSteal /\ file' = file
  BY DEF UseSlot
<1>4. slot'[Taken].no = p /\ slot'[Taken].writable = mark /\ slot'[Taken].data = content
  BY <1>2 DEF UsedFor
<1>5. \A t \in Slot \ {Taken} : /\ slot'[t].no = slot[t].no /\ slot'[t].data = slot[t].data
                                /\ slot'[t].writable = slot[t].writable
  BY <1>2, <1>3 DEF UsedFor
<1>6. map'[0] = IF p = 0 THEN Taken ELSE IF slot[Taken].no = 0 THEN NoSlot ELSE map[0]
  BY <1>1, <1>2 DEF UsedFor
<1>7. \A s \in InUse' : ~(slot'[s].no = 0 /\ slot'[s].writable)
  BY <1>1, <1>4, <1>5 DEF HeaderClean
<1>8. ASSUME map'[0] # NoSlot PROVE slot'[map'[0]].data = truth'[0]
  <2>1. CASE p = 0
    BY <1>4, <1>6, <2>1 DEF HeaderClean
  <2>2. CASE p # 0
    <3>1. map'[0] = map[0] /\ slot[Taken].no # 0 /\ map[0] # NoSlot
      BY <1>6, <1>8, <2>2
    <3>2. map[0] \in Slot \ {Taken}
      BY <1>1, <3>1 DEF MapIsExact, Cached
    <3> QED
      BY <1>5, <3>1, <3>2 DEF HeaderClean
  <2> QED
    BY <2>1, <2>2
<1> QED
  BY <1>3, <1>6, <1>7, <1>8 DEF HeaderClean

\* And so does get_page; page 0's slot is then the header's.
LEMMA GetPageHeader ==
    ASSUME Core, HeaderClean, NEW r \in Holders, NEW p \in PageNo, p = 0 <=> r = "header",
           GetPage(r, p), truth' = truth, breach' = {}
    PROVE  /\ HeaderClean'
           /\ r = "header" => map'[0] = refs'["header"].slot
           /\ breach = {}
<1> USE DEF Core
<1>1. CASE Cached(p) /\ refs' = [refs EXCEPT ![r] = Ref(map[p], p, FALSE)]
           /\ UNCHANGED <<cacheVars, file, journal, breach>>
  BY <1>1 DEF HeaderClean, InUse, cacheVars, TypeOK, Ref
<1>2. CASE ~Cached(p) /\ UseSlot(p, file[p], FALSE) /\ refs' = [refs EXCEPT ![r] = Ref(Taken, p, FALSE)]
  <2> DEFINE content == file[p]
  <2>1. content \in Content /\ (p = 0 => content = file[0]) /\ UseSlot(p, content, FALSE)
    BY <1>2 DEF TypeOK
  <2> HIDE DEF content
  <2>2. HeaderClean' /\ (p = 0 => map'[0] = Taken)
    BY <2>1, UseSlotHeader
  <2>3. r = "header" => refs'["header"].slot = Taken
    BY <1>2 DEF TypeOK, Ref
  <2>4. breach = {}
    BY <1>2 DEF UseSlot
  <2> QED
    BY <2>2, <2>3, <2>4
<1> QED
  BY <1>1, <1>2 DEF GetPage

\* HeaderOK in the states where page 0 is not being modified.
LEMMA HeaderCleanIs ==
    ASSUME Core, breach = {}
    PROVE  /\ HeaderOK /\ pc \notin {"marked", "header", "flush"} => HeaderClean
           /\ HeaderClean /\ pc \in {"opening", "ready", "aborted"} => HeaderOK
           /\ /\ HeaderClean /\ pc \in {"format", "formatted", "commit"}
              /\ map[0] \in {NoSlot, refs["header"].slot}
              => HeaderOK
BY DEF HeaderOK, HeaderClean, Cached

-----------------------------------------------------------------------------
(* The actions                                                               *)

\* The initial state.
LEMMA InitIInv ==
    Init => IInv
<1> SUFFICES ASSUME Init PROVE IInv
  OBVIOUS
<1> USE DEF Init
<1>1. /\ 0 \in Content /\ 1 \in 1 .. MaxPages /\ 0 \in PageNo /\ MaxPages \in Nat
      /\ MaxCache \in Nat
  BY CacheAssumption DEF Content, PageNo
<1>2. pages \in Seq(Slot) /\ Len(pages) = 0 /\ DOMAIN pages = {}
      /\ writable \in Seq(Slot) /\ Len(writable) = 0 /\ DOMAIN writable = {}
  OBVIOUS
<1>3. TypeOK
  BY <1>1, <1>2 DEF TypeOK, Empty, NoRef, NoSlot
<1>4. InUse = {} /\ Dirty = {} /\ \A p \in PageNo : map[p] = NoSlot
  BY <1>2 DEF InUse, Dirty
<1>5. SlotsOK /\ MapIsExact /\ WritableIsExact
  BY <1>1, <1>2, <1>4 DEF SlotsOK, MapIsExact, WritableIsExact, Cached, Empty
<1>6. RefsOK
  BY DEF RefsOK, NoRef, NoSlot
<1>7. PagesOK
  <2>1. \A p \in 1 .. pageCount - 1 : FALSE
    OBVIOUS
  <2>2. \A p \in pageCount .. MaxPages - 1 : p \in PageNo
    BY <1>1 DEF PageNo
  <2> QED
    BY <1>4, <2>1, <2>2 DEF PagesOK
<1>8. ControlOK /\ HeaderOK
  BY <1>1, <1>4 DEF ControlOK, HeaderOK, Cached
<1> QED
  BY <1>3, <1>5, <1>6, <1>7, <1>8 DEF IInv, Core

\* get_page for a caller, outside a modification of page 0.
LEMMA GetPageControl ==
    ASSUME IInv, NEW r \in Holders, NEW p \in PageNo, GetPage(r, p)
    PROVE  /\ status = "normal" => ~MustSteal /\ writable' = <<>> /\ journal' = "normal"
           /\ \/ breach' = breach
              \/ breach' = breach \cup {"steal"} /\ MustSteal /\ journal' = "normal"
           /\ journal' = journal \/ journal' = "normal"
<1> USE DEF IInv, Core, ControlOK
<1>1. status = "normal" => ~MustSteal
  <2>1. MaxCache \in Nat /\ MaxCache >= 2
    BY CacheAssumption
  <2> QED
    BY <2>1 DEF MustSteal
<1>2. CASE UNCHANGED <<cacheVars, file, journal, breach>>
  BY <1>1, <1>2 DEF cacheVars
<1>3. CASE UseSlot(p, file[p], FALSE)
  <2>1. /\ writable' = (IF MustSteal THEN <<>> ELSE writable) \o <<>>
        /\ journal' = IF MustSteal THEN "normal" ELSE journal
        /\ breach' = IF MustSteal THEN breach \cup {"steal"} ELSE breach
    BY <1>3 DEF UseSlot, EarlyJournal
  <2>2. status = "normal" => writable' = <<>>
    BY <1>1, <2>1
  <2> QED
    BY <1>1, <2>1, <2>2
<1> QED
  BY <1>2, <1>3 DEF GetPage

\* One action each; Core is kept by the operation on the cache.
LEMMA OpenStep ==
    ASSUME IInv, Open PROVE IInv'
<1>1. /\ GetPage("header", 0) /\ "header" \in Holders /\ 0 \in PageNo
      /\ UNCHANGED <<pageCount, status, clock, truth>>
      /\ pc' \in {"format", "ready"} /\ pc = "opening"
  BY CacheAssumption DEF Open, Holders, PageNo
<1>2. Core'
  BY <1>1, GetPageCore DEF IInv, ControlType, Core, TypeOK
<1>3. status = "normal" /\ breach' = breach /\ writable' = <<>> /\ journal' = "normal"
  BY <1>1, GetPageControl DEF IInv, ControlOK
<1>4. ControlOK'
  BY <1>1, <1>3 DEF IInv, ControlOK
<1>5. ASSUME breach' = {} PROVE HeaderOK'
  <2>1. HeaderClean
    BY <1>1, <1>3, <1>5, HeaderCleanIs DEF IInv
  <2>2. HeaderClean' /\ map'[0] = refs'["header"].slot
    BY <1>1, <1>5, <2>1, GetPageHeader DEF IInv
  <2> QED
    BY <1>1, <2>2 DEF HeaderOK, HeaderClean, Cached
<1> QED
  BY <1>2, <1>4, <1>5 DEF IInv, HeaderOK

LEMMA FetchStep ==
    ASSUME IInv, NEW r \in Refs, Fetch(r) PROVE IInv'
<1>1. PICK p \in 1 .. pageCount - 1 : GetPage(r, p)
  BY DEF Fetch
<1>2. /\ r \in Holders /\ r # "header" /\ p \in PageNo /\ p # 0
      /\ UNCHANGED <<pageCount, status, clock, truth, pc>> /\ pc = "ready"
  BY CacheAssumption DEF Fetch, Holders, IInv, Core, TypeOK, PageNo
<1>3. Core'
  BY <1>1, <1>2, GetPageCore DEF IInv, ControlType, Core, TypeOK
<1>4. /\ status = "normal" => ~MustSteal /\ writable' = <<>> /\ journal' = "normal"
      /\ \/ breach' = breach
         \/ breach' = breach \cup {"steal"} /\ MustSteal /\ journal' = "normal"
      /\ journal' = journal \/ journal' = "normal"
  BY <1>1, <1>2, GetPageControl DEF IInv
<1>5. ControlOK'
  BY <1>2, <1>4 DEF IInv, ControlOK, Core, TypeOK
<1>6. ASSUME breach' = {} PROVE HeaderOK'
  <2>1. breach = {}
    BY <1>4, <1>6
  <2>2. HeaderClean
    BY <1>2, <2>1, HeaderCleanIs DEF IInv
  <2>3. HeaderClean'
    BY <1>1, <1>2, <1>6, <2>2, GetPageHeader DEF IInv
  <2> QED
    BY <1>2, <2>3 DEF HeaderOK, HeaderClean, Cached
<1> QED
  BY <1>3, <1>5, <1>6 DEF IInv, HeaderOK

LEMMA CommitFetchStep ==
    ASSUME IInv, CommitFetch PROVE IInv'
<1>1. /\ GetPage("header", 0) /\ "header" \in Holders /\ 0 \in PageNo
      /\ UNCHANGED <<pageCount, status, clock, truth>>
      /\ pc' = "commit" /\ pc = "ready" /\ status = "write"
  BY CacheAssumption DEF CommitFetch, Holders, PageNo
<1>2. Core'
  BY <1>1, GetPageCore DEF IInv, ControlType, Core, TypeOK
<1>3. /\ \/ breach' = breach
         \/ breach' = breach \cup {"steal"} /\ MustSteal /\ journal' = "normal"
      /\ journal' = journal \/ journal' = "normal"
  BY <1>1, GetPageControl DEF IInv
<1>4. ControlOK'
  BY <1>1, <1>3 DEF IInv, ControlOK
<1>5. ASSUME breach' = {} PROVE HeaderOK'
  <2>1. breach = {}
    BY <1>3, <1>5
  <2>2. HeaderClean
    BY <1>1, <2>1, HeaderCleanIs DEF IInv
  <2>3. HeaderClean' /\ map'[0] = refs'["header"].slot
    BY <1>1, <1>5, <2>2, GetPageHeader DEF IInv
  <2> QED
    BY <1>1, <2>3 DEF HeaderOK, HeaderClean, Cached
<1> QED
  BY <1>2, <1>4, <1>5 DEF IInv, HeaderOK

\* A new page, for btree::open or later.
LEMMA NewPageStep ==
    ASSUME IInv, NEW r \in Refs, GetNewPage(r), UNCHANGED <<status, clock>>,
           \/ pc = "format" /\ pc' = "formatted"
           \/ pc = "ready" /\ pc' = "ready"
    PROVE  IInv'
<1> DEFINE p == pageCount
           content == Leftover
<1>1. /\ UseSlot(p, content, TRUE) /\ ~MustSteal /\ pageCount < MaxPages
      /\ refs' = [refs EXCEPT ![r] = Ref(Taken, p, TRUE)]
      /\ truth' = [truth EXCEPT ![p] = content]
      /\ status = "write" /\ journal = "write"
  BY DEF GetNewPage
<1>2. p \in PageNo /\ p # 0 /\ 0 \in PageNo
  BY <1>1, CacheAssumption DEF IInv, Core, TypeOK, PageNo
<1>3. content \in Content
  BY <1>1, <1>2, UseSlotShape DEF IInv, Core, TypeOK, Leftover
<1>4. Core'
  BY GetNewPageCore DEF IInv, ControlType, Core, TypeOK
<1>5. journal' = journal /\ breach' = breach
  BY <1>1 DEF UseSlot, EarlyJournal
<1>6. refs'["header"] = refs["header"]
  <2>1. r # "header" /\ "header" \in Holders
    BY CacheAssumption DEF Holders
  <2>2. refs \in [Holders -> [slot : Slot \cup {NoSlot}, no : PageNo, marked : BOOLEAN]]
    BY DEF IInv, Core, TypeOK
  <2> QED
    BY <1>1, <2>1, <2>2
<1>7. ControlOK'
  BY <1>1, <1>5, <1>6 DEF IInv, ControlOK
<1>8. ASSUME breach' = {} PROVE HeaderOK'
  <2>1. HeaderClean
    BY <1>5, <1>8, HeaderCleanIs DEF IInv
  <2>2. truth'[0] = truth[0]
    BY <1>1, <1>2 DEF IInv, Core, TypeOK
  <2>3. HeaderClean' /\ map'[0] \in {NoSlot, map[0]}
    <3> HIDE DEF p, content
    <3> QED
      BY <1>1, <1>2, <1>3, <1>8, <2>1, <2>2, UseSlotHeader DEF IInv, Core
  <2>4. pc = "format" => map[0] \in {NoSlot, refs["header"].slot}
    BY <1>5, <1>8 DEF IInv, HeaderOK
  <2> QED
    BY <1>6, <2>3, <2>4 DEF HeaderOK, HeaderClean, Cached
<1> QED
  BY <1>4, <1>7, <1>8 DEF IInv, HeaderOK

\* enable_write keeps what is in the slots; it may mark the slot of page 0 only
\* for its holder.
LEMMA EnableWriteControl ==
    ASSUME IInv, NEW r \in Holders, EnableWrite(r), UNCHANGED <<pages, status, journal>>
    PROVE  /\ breach' \in {breach, breach \cup {"stale"}}
           /\ status = "normal" => writable' = writable
           /\ refs'[r].marked
           /\ \A o \in Holders : refs'[o].slot = refs[o].slot
           /\ \A o \in Holders \ {r} : refs'[o] = refs[o]
           /\ \A s \in Slot : slot'[s].no = slot[s].no /\ slot'[s].data = slot[s].data
           /\ \A s \in Slot \ {refs[r].slot} : slot'[s].writable = slot[s].writable
           /\ breach' = {} => slot[refs[r].slot].no = refs[r].no
           /\ refs[r].slot \in Slot /\ (refs[r].no = 0 <=> r = "header")
<1> USE DEF IInv, Core
<1>1. refs \in [Holders -> [slot : Slot \cup {NoSlot}, no : PageNo, marked : BOOLEAN]]
      /\ slot \in [Slot -> [no : PageNo, writable : BOOLEAN, data : Content]]
  BY DEF TypeOK
<1>2. refs[r].slot # NoSlot /\ refs[r].slot \in Slot /\ (refs[r].no = 0 <=> r = "header")
  BY <1>1 DEF EnableWrite, RefsOK
<1>3. CASE slot[refs[r].slot].writable /\ UNCHANGED <<slot, writable>>
  BY <1>1, <1>2, <1>3 DEF EnableWrite, Stale
<1>4. CASE status = "write" /\ slot' = [slot EXCEPT ![refs[r].slot].writable = TRUE]
  BY <1>1, <1>2, <1>4 DEF EnableWrite, Stale
<1> QED
  BY <1>3, <1>4 DEF EnableWrite

\* A caller of the B-tree marks a page other than page 0.
LEMMA MarkStep ==
    ASSUME IInv, NEW r \in Refs, Mark(r) PROVE IInv'
<1>1. /\ pc = "ready" /\ status = "write" /\ EnableWrite(r) /\ r \in Holders /\ r # "header"
      /\ UNCHANGED <<file, pageCount, pages, map, status, journal, pc, clock, truth>>
  BY CacheAssumption DEF Mark, Holders
<1>2. Core'
  BY <1>1, EnableWriteCore DEF IInv, ControlType, Core, TypeOK
<1>3. /\ breach' \in {breach, breach \cup {"stale"}}
      /\ \A s \in Slot : slot'[s].no = slot[s].no /\ slot'[s].data = slot[s].data
      /\ \A s \in Slot \ {refs[r].slot} : slot'[s].writable = slot[s].writable
      /\ breach' = {} => slot[refs[r].slot].no # 0
  BY <1>1, EnableWriteControl
<1>4. ControlOK'
  BY <1>1, <1>3 DEF IInv, ControlOK
<1>5. ASSUME breach' = {} PROVE HeaderOK'
  <2>1. breach = {}
    BY <1>3, <1>5
  <2>2. HeaderClean
    BY <1>1, <2>1, HeaderCleanIs DEF IInv
  <2>3. InUse' = InUse /\ InUse \subseteq Slot /\ 0 \in PageNo
    BY <1>1, CacheAssumption DEF InUse, IInv, Core, TypeOK, PageNo
  <2>4. map[0] # NoSlot => map[0] \in Slot
    BY <2>3 DEF IInv, Core, TypeOK
  <2>5. HeaderClean'
    BY <1>1, <1>3, <1>5, <2>2, <2>3, <2>4 DEF HeaderClean
  <2> QED
    BY <1>1, <2>5 DEF HeaderOK, HeaderClean, Cached
<1> QED
  BY <1>2, <1>4, <1>5 DEF IInv, HeaderOK

\* btree::open and btree::commit mark page 0.
LEMMA HeaderMarkStep ==
    ASSUME IInv, FormatMark \/ CommitMark PROVE IInv'
<1>1. /\ \/ pc = "formatted" /\ pc' = "marked"
         \/ pc = "commit" /\ pc' = "header"
      /\ EnableWrite("header") /\ "header" \in Holders
      /\ UNCHANGED <<file, pageCount, pages, map, status, journal, clock, truth>>
  BY DEF FormatMark, CommitMark, Holders
<1>2. Core'
  BY <1>1, EnableWriteCore DEF IInv, ControlType, Core, TypeOK
<1>3. /\ breach' \in {breach, breach \cup {"stale"}}
      /\ status = "normal" => writable' = writable
      /\ refs'["header"].marked /\ refs'["header"].slot = refs["header"].slot
      /\ \A s \in Slot : slot'[s].no = slot[s].no /\ slot'[s].data = slot[s].data
      /\ \A s \in Slot \ {refs["header"].slot} : slot'[s].writable = slot[s].writable
  BY <1>1, EnableWriteControl
<1>4. ControlOK'
  BY <1>1, <1>3 DEF IInv, ControlOK
<1>5. ASSUME breach' = {} PROVE HeaderOK'
  <2>1. breach = {}
    BY <1>3, <1>5
  <2>2. HeaderClean
    BY <1>1, <2>1, HeaderCleanIs DEF IInv
  <2>3. InUse' = InUse /\ InUse \subseteq Slot /\ 0 \in PageNo
    BY <1>1, CacheAssumption DEF InUse, IInv, Core, TypeOK, PageNo
  <2>4. map[0] # NoSlot => map[0] \in Slot
    BY <2>3 DEF IInv, Core, TypeOK
  <2>5. \A s \in InUse' : slot'[s].no = 0 /\ slot'[s].writable => s = refs'["header"].slot
    BY <1>3, <2>2, <2>3 DEF HeaderClean
  <2>6. map'[0] \in {NoSlot, refs'["header"].slot}
    BY <1>1, <1>3, <2>1 DEF IInv, HeaderOK
  <2>7. file'[0] = truth'[0] /\ (map'[0] # NoSlot => slot'[map'[0]].data = truth'[0])
    BY <1>1, <1>3, <2>2, <2>4 DEF HeaderClean
  <2> QED
    BY <1>1, <2>5, <2>6, <2>7 DEF HeaderOK, Cached
<1> QED
  BY <1>2, <1>4, <1>5 DEF IInv, HeaderOK

\* btree::open and btree::commit write page 0, in the slot they marked.
LEMMA HeaderWriteStep ==
    ASSUME IInv, FormatInit \/ CommitHeader PROVE IInv'
<1>1. PICK rs \in SUBSET Holders :
         /\ "header" \in rs /\ \A r \in rs : refs[r].marked
         /\ slot' = Modified(rs) /\ truth' = Intended(rs)
         /\ pc \in {"marked", "header"} /\ pc' = "flush"
         /\ clock < MaxWrites /\ clock' = clock + 1
         /\ UNCHANGED <<file, pageCount, pages, map, writable, status, journal, refs, breach>>
  <2>1. "header" \in Holders
    BY DEF Holders
  <2>2. CASE FormatInit
    BY <2>1, <2>2, SMTT(30) DEF FormatInit, IInv, ControlOK
  <2>3. CASE CommitHeader
    BY <2>1, <2>3 DEF CommitHeader, IInv, ControlOK
  <2> QED
    BY <2>2, <2>3
<1>2. clock' \in Content
  BY <1>1, CacheAssumption DEF IInv, Core, TypeOK, Content
<1>3. Core'
  BY <1>1, <1>2, ModifiedCore DEF IInv, ControlType, Core, TypeOK
<1>4. ControlOK'
  BY <1>1 DEF IInv, ControlOK
<1>5. ASSUME breach' = {} PROVE HeaderOK'
  <2>1. breach = {} /\ InUse' = InUse /\ InUse \subseteq Slot /\ 0 \in PageNo
    BY <1>1, <1>5, CacheAssumption DEF InUse, IInv, Core, TypeOK, PageNo
  <2>2. /\ slot \in [Slot -> [no : PageNo, writable : BOOLEAN, data : Content]]
        /\ truth \in [PageNo -> Content]
    BY DEF IInv, Core, TypeOK
  <2>3. \A s \in Slot : /\ slot'[s].no = slot[s].no /\ slot'[s].writable = slot[s].writable
                        /\ (\E r \in rs : refs[r].slot = s) => slot'[s].data = clock + 1
    BY <1>1, <2>2 DEF Modified
  <2>4. refs["header"].slot \in Slot /\ refs["header"].no = 0
    <3>1. refs["header"].slot # NoSlot
      BY <1>1 DEF IInv, Core, RefsOK, NoRef
    <3> QED
      BY <1>1, <2>1, <3>1 DEF IInv, Core, RefsOK
  <2>5. truth'[0] = clock + 1 /\ slot'[refs["header"].slot].data = clock + 1
    BY <1>1, <2>1, <2>2, <2>3, <2>4 DEF Intended
  <2>6. \A s \in InUse' : slot'[s].no = 0 /\ slot'[s].writable => s = refs'["header"].slot
    BY <1>1, <2>1, <2>3 DEF IInv, HeaderOK
  <2>7. map'[0] \in {NoSlot, refs'["header"].slot}
    BY <1>1, <2>1 DEF IInv, HeaderOK
  <2> QED
    BY <1>1, <2>5, <2>6, <2>7 DEF HeaderOK
<1> QED
  BY <1>3, <1>4, <1>5 DEF IInv, HeaderOK

\* A caller of the B-tree modifies a page other than page 0.
LEMMA ModifyStep ==
    ASSUME IInv, NEW r \in Refs, Modify(r) PROVE IInv'
<1>1. /\ pc = "ready" /\ refs[r].marked /\ clock < MaxWrites
      /\ slot' = Modified({r}) /\ truth' = Intended({r}) /\ clock' = clock + 1
      /\ UNCHANGED <<file, pageCount, pages, map, writable, status, journal, refs, pc, breach>>
  BY DEF Modify
<1>2. clock' \in Content /\ r \in Holders /\ r # "header"
  BY <1>1, CacheAssumption DEF IInv, Core, TypeOK, Content, Holders
<1>3. Core'
  <2> DEFINE rs == {r}
  <2>1. rs \in SUBSET Holders /\ (\A o \in rs : refs[o].marked)
        /\ slot' = Modified(rs) /\ truth' = Intended(rs)
    BY <1>1, <1>2
  <2>2. ControlType'
    BY <1>1, <1>2 DEF IInv, ControlType, Core, TypeOK
  <2> HIDE DEF rs
  <2> QED
    BY <1>1, <2>1, <2>2, ModifiedCore DEF IInv
<1>4. ControlOK'
  BY <1>1 DEF IInv, ControlOK
<1>5. ASSUME breach' = {} PROVE HeaderOK'
  <2>1. breach = {} /\ InUse' = InUse /\ InUse \subseteq Slot /\ 0 \in PageNo
    BY <1>1, <1>5, CacheAssumption DEF InUse, IInv, Core, TypeOK, PageNo
  <2>2. /\ slot \in [Slot -> [no : PageNo, writable : BOOLEAN, data : Content]]
        /\ truth \in [PageNo -> Content]
    BY DEF IInv, Core, TypeOK
  <2>3. refs[r].slot # NoSlot
    BY <1>1, <1>2 DEF IInv, Core, RefsOK, NoRef
  <2>4. refs[r].no # 0 /\ slot[refs[r].slot].no = refs[r].no
    BY <1>1, <1>2, <2>1, <2>3 DEF IInv, Core, RefsOK, Stale
  <2>5. \A s \in Slot : /\ slot'[s].no = slot[s].no /\ slot'[s].writable = slot[s].writable
                        /\ slot[s].no = 0 => slot'[s].data = slot[s].data
    BY <1>1, <2>2, <2>4 DEF Modified
  <2>6. truth'[0] = truth[0]
    BY <1>1, <2>1, <2>2, <2>4 DEF Intended
  <2>7. HeaderClean
    BY <1>1, <2>1, HeaderCleanIs DEF IInv
  <2>8. map[0] # NoSlot => map[0] \in Slot /\ slot[map[0]].no = 0
    BY <2>1 DEF IInv, Core, MapIsExact, Cached
  <2>9. HeaderClean'
    BY <1>1, <2>1, <2>5, <2>6, <2>7, <2>8 DEF HeaderClean
  <2> QED
    BY <1>1, <2>9 DEF HeaderOK, HeaderClean, Cached
<1> QED
  BY <1>3, <1>4, <1>5 DEF IInv, HeaderOK

\* The commit makes the file equal to the pages, and keeps IInv.
LEMMA FlushStep ==
    ASSUME IInv, Flush
    PROVE  IInv' /\ (breach = {} => file' = truth)
<1>1. /\ pc = "flush" /\ journal = "write" /\ pc' = "ready"
      /\ file' = WrittenFile /\ slot' = CleanSlots /\ writable' = <<>>
      /\ journal' = "normal" /\ status' = "normal" /\ refs' = [r \in Holders |-> NoRef]
      /\ UNCHANGED <<pageCount, pages, map, clock, truth, breach>>
  BY DEF Flush
<1>2. Core' /\ (breach = {} => \A p \in PageNo \ {0} : file'[p] = truth[p])
  BY <1>1, FlushCore DEF IInv, ControlType, Core, TypeOK
<1>3. ControlOK'
  BY <1>1 DEF IInv, ControlOK
<1>4. InUse' = InUse /\ InUse \subseteq Slot /\ 0 \in PageNo
  BY <1>1, CacheAssumption DEF InUse, IInv, Core, TypeOK, PageNo
<1>5. ASSUME breach = {} PROVE file'[0] = truth[0]
  <2> DEFINE h == refs["header"].slot
  <2>1. refs["header"].marked /\ "header" \in Holders
    BY <1>1 DEF IInv, ControlOK, Holders
  <2>2. h # NoSlot
    BY <2>1 DEF IInv, Core, RefsOK, NoRef
  <2>3. h \in InUse /\ slot[h].no = 0 /\ slot[h].writable
    BY <1>5, <2>1, <2>2 DEF IInv, Core, RefsOK, Stale
  <2>4. slot[h].data = truth[0]
    BY <1>1, <1>5 DEF IInv, HeaderOK
  <2>5. Copies(0) # {}
    <3>1. h \in Dirty
      BY <2>3 DEF Dirty
    <3>2. PICK i \in DOMAIN writable : writable[i] = h
      BY <3>1 DEF IInv, Core, WritableIsExact
    <3> QED
      BY <2>3, <3>2 DEF Copies
  <2>6. PICK i \in DOMAIN writable :
           slot[writable[i]].no = 0 /\ WrittenFile[0] = slot[writable[i]].data
    BY <1>4, <2>5, WrittenFileIs DEF IInv, Core
  <2>7. writable[i] \in InUse /\ slot[writable[i]].writable
    BY <2>6 DEF IInv, Core, WritableIsExact, Dirty
  <2>8. writable[i] = h
    BY <1>5, <2>6, <2>7 DEF IInv, HeaderOK
  <2> QED
    BY <1>1, <2>4, <2>6, <2>8
<1>6. ASSUME breach = {} PROVE file' = truth
  <2>1. \A p \in PageNo : file'[p] = truth[p]
    BY <1>2, <1>5, <1>6
  <2>2. file' \in [PageNo -> Content] /\ truth \in [PageNo -> Content]
    BY <1>2 DEF IInv, Core, TypeOK
  <2> QED
    BY <2>1, <2>2
<1>7. ASSUME breach' = {} PROVE HeaderOK'
  <2>1. /\ \A s \in InUse : ~slot'[s].writable
        /\ \A s \in Slot : slot'[s].data = slot[s].data
    BY <1>1, CleanSlotsKeep DEF IInv, Core
  <2>2. ASSUME Cached(0)' PROVE slot'[map'[0]].data = truth'[0]
    <3>1. map[0] # NoSlot /\ map[0] \in Slot
      BY <1>1, <1>4, <2>2 DEF Cached, IInv, Core, TypeOK
    <3>2. map[0] = refs["header"].slot /\ slot[refs["header"].slot].data = truth[0]
      BY <1>1, <1>7, <3>1 DEF IInv, HeaderOK
    <3> QED
      BY <1>1, <2>1, <3>1, <3>2
  <2> QED
    BY <1>1, <1>4, <1>5, <1>7, <2>1, <2>2 DEF HeaderOK
<1> QED
  BY <1>2, <1>3, <1>6, <1>7 DEF IInv, HeaderOK

\* begin_write_transaction.
LEMMA BeginStep ==
    ASSUME IInv, Begin PROVE IInv'
<1>1. /\ pc \in {"format", "ready"} /\ status = "normal" /\ status' = "write" /\ journal' = "write"
      /\ UNCHANGED <<file, pageCount, pages, slot, map, writable, refs, pc, clock, truth, breach>>
  BY DEF Begin, cacheVars
<1>2. InUse' = InUse /\ Dirty' = Dirty /\ \A o \in Holders : Stale(o)' <=> Stale(o)
  BY <1>1 DEF InUse, Dirty, Stale
<1>3. TypeOK'
  BY <1>1 DEF IInv, Core, TypeOK
<1>4. SlotsOK' /\ MapIsExact' /\ WritableIsExact' /\ RefsOK' /\ PagesOK'
  BY <1>1, <1>2 DEF IInv, Core, SlotsOK, MapIsExact, WritableIsExact, RefsOK, PagesOK, Cached, Served
<1>5. ControlOK'
  BY <1>1 DEF IInv, ControlOK
<1>6. HeaderOK'
  BY <1>1, <1>2 DEF IInv, HeaderOK, Cached
<1> QED
  BY <1>3, <1>4, <1>5, <1>6 DEF IInv, Core

\* The pager is opened again: what was served from slots is in the file.
LEMMA ReopenStep ==
    ASSUME IInv, Reopen PROVE IInv'
<1>1. /\ pc = "ready" /\ status = "normal"
      /\ pages' = <<>> /\ slot' = [s \in Slot |-> Empty] /\ map' = [p \in PageNo |-> NoSlot]
      /\ writable' = <<>> /\ refs' = [r \in Holders |-> NoRef] /\ pc' = "opening"
      /\ UNCHANGED <<file, pageCount, status, journal, clock, truth, breach>>
  BY DEF Reopen
<1>2. writable = <<>> /\ journal = "normal"
  BY <1>1 DEF IInv, ControlOK
<1>3. InUse' = {} /\ Dirty' = {} /\ \A p \in PageNo : map'[p] = NoSlot
  BY <1>1 DEF InUse, Dirty
<1>4. 0 \in PageNo /\ 0 \in Content /\ MaxCache \in Nat /\ MaxPages \in Nat
  BY CacheAssumption DEF PageNo, Content
<1>5. /\ pages' \in Seq(Slot) /\ Len(pages') = 0 /\ DOMAIN pages' = {}
      /\ writable' \in Seq(Slot) /\ Len(writable') = 0 /\ DOMAIN writable' = {}
  BY <1>1
<1>6. TypeOK'
  <2>1. slot' \in [Slot -> [no : PageNo, writable : BOOLEAN, data : Content]]
    BY <1>1, <1>4 DEF Empty
  <2>2. map' \in [PageNo -> Slot \cup {NoSlot}]
    BY <1>1
  <2>3. refs' \in [Holders -> [slot : Slot \cup {NoSlot}, no : PageNo, marked : BOOLEAN]]
    BY <1>1, <1>4 DEF NoRef
  <2> QED
    BY <1>1, <1>4, <1>5, <2>1, <2>2, <2>3 DEF IInv, Core, TypeOK
<1>7. SlotsOK' /\ MapIsExact' /\ WritableIsExact' /\ RefsOK'
  <2>1. SlotsOK'
    BY <1>1, <1>3, <1>5 DEF SlotsOK, Empty
  <2>2. MapIsExact'
    BY <1>3 DEF MapIsExact, Cached
  <2>3. WritableIsExact'
    BY <1>3, <1>5 DEF WritableIsExact
  <2>4. RefsOK'
    BY <1>1 DEF RefsOK, NoRef
  <2> QED
    BY <2>1, <2>2, <2>3, <2>4
<1>8. Dirty = {}
  BY <1>2 DEF IInv, Core, WritableIsExact
<1>9. ASSUME breach = {}, NEW p \in 1 .. pageCount - 1 PROVE file[p] = truth[p]
  <2>1. p \in PageNo /\ p # 0 /\ Served(p) = truth[p]
    BY <1>4, <1>9 DEF IInv, Core, TypeOK, PagesOK, PageNo
  <2>2. CASE map[p] = NoSlot
    BY <2>1, <2>2 DEF Served, Cached
  <2>3. CASE map[p] # NoSlot
    <3>1. map[p] \in InUse /\ slot[map[p]].no = p
      BY <2>1, <2>3 DEF IInv, Core, MapIsExact, Cached
    <3>2. ~slot[map[p]].writable
      BY <1>8, <3>1 DEF Dirty
    <3>3. slot[map[p]].data = file[p]
      BY <1>9, <2>1, <3>1, <3>2 DEF IInv, Core, PagesOK
    <3> QED
      BY <2>1, <2>3, <3>3 DEF Served, Cached
  <2> QED
    BY <2>2, <2>3
<1>10. PagesOK'
  <2>1. pageCount' = pageCount
    BY <1>1
  <2>2. ASSUME breach = {}, NEW p \in 1 .. pageCount - 1 PROVE Served(p)' = truth'[p]
    <3>1. p \in PageNo
      BY <1>4, <2>2 DEF IInv, Core, TypeOK, PageNo
    <3> QED
      BY <1>1, <1>3, <1>9, <2>2, <3>1 DEF Served, Cached
  <2>3. breach = {} => \A p \in pageCount .. MaxPages - 1 : file[p] = truth[p]
    BY DEF IInv, Core, PagesOK
  <2> QED
    BY <1>1, <1>3, <2>2, <2>3 DEF PagesOK
<1>11. ControlOK'
  BY <1>1, <1>2 DEF IInv, ControlOK
<1>12. HeaderOK'
  BY <1>1, <1>3, <1>4 DEF IInv, HeaderOK, Cached
<1> QED
  BY <1>6, <1>7, <1>10, <1>11, <1>12 DEF IInv, Core

\* The process stops.
LEMMA AssertionFailsStep ==
    ASSUME IInv, AssertionFails PROVE IInv'
<1>1. /\ pc \in {"ready", "commit"} /\ status = "write" /\ pc' = "aborted"
      /\ UNCHANGED <<pageCount, pages, slot, map, writable, status, journal, refs, clock, truth>>
      /\ \/ UNCHANGED <<file, breach>> /\ journal = "normal"
         \/ file' = WrittenFile /\ breach' = breach \cup {"steal"}
  BY DEF AssertionFails, cacheVars
<1>2. InUse' = InUse /\ Dirty' = Dirty /\ \A o \in Holders : Stale(o)' <=> Stale(o)
  BY <1>1 DEF InUse, Dirty, Stale
<1>3. TypeOK'
  BY <1>1, WrittenFileType DEF IInv, Core, TypeOK
<1>4. SlotsOK' /\ MapIsExact' /\ WritableIsExact'
  BY <1>1, <1>2 DEF IInv, Core, SlotsOK, MapIsExact, WritableIsExact, Cached
<1>5. RefsOK'
  BY <1>1, <1>2 DEF IInv, Core, RefsOK
<1>6. PagesOK'
  BY <1>1, <1>2 DEF IInv, Core, PagesOK, Served, Cached
<1>7. ControlOK'
  BY <1>1 DEF IInv, ControlOK
<1>8. HeaderOK'
  BY <1>1, <1>2 DEF IInv, HeaderOK, Cached
<1> QED
  BY <1>3, <1>4, <1>5, <1>6, <1>7, <1>8 DEF IInv, Core

\* Every step keeps the invariant.
LEMMA NextIInv ==
    IInv /\ [Next]_vars => IInv'
<1> SUFFICES ASSUME IInv, [Next]_vars PROVE IInv'
  OBVIOUS
<1>1. CASE Open
  BY <1>1, OpenStep
<1>2. CASE FormatNewPage
  BY <1>2, NewPageStep DEF FormatNewPage
<1>3. CASE FormatMark
  BY <1>3, HeaderMarkStep
<1>4. CASE FormatInit
  BY <1>4, HeaderWriteStep
<1>5. CASE Flush
  BY <1>5, FlushStep
<1>6. CASE Begin
  BY <1>6, BeginStep
<1>7. CASE CommitFetch
  BY <1>7, CommitFetchStep
<1>8. CASE CommitMark
  BY <1>8, HeaderMarkStep
<1>9. CASE CommitHeader
  BY <1>9, HeaderWriteStep
<1>10. CASE Reopen
  BY <1>10, ReopenStep
<1>11. CASE AssertionFails
  BY <1>11, AssertionFailsStep
<1>12. CASE \E r \in Refs : Fetch(r)
  BY <1>12, FetchStep
<1>13. CASE \E r \in Refs : NewPage(r)
  <2>1. PICK r \in Refs : NewPage(r)
    BY <1>13
  <2>2. GetNewPage(r) /\ UNCHANGED <<status, clock>> /\ pc = "ready" /\ pc' = "ready"
    BY <2>1 DEF NewPage
  <2> QED
    BY <2>2, NewPageStep
<1>14. CASE \E r \in Refs : Mark(r)
  BY <1>14, MarkStep
<1>15. CASE \E r \in Refs : Modify(r)
  BY <1>15, ModifyStep
<1>16. CASE UNCHANGED vars
  <2>1. UNCHANGED <<file, pageCount, pages, slot, map, writable, status, journal, refs, pc,
                    clock, truth, breach>>
    BY <1>16 DEF vars, cacheVars
  <2>2. TypeOK'
    BY <2>1 DEF IInv, Core, TypeOK
  <2>3. SlotsOK' /\ MapIsExact' /\ WritableIsExact' /\ RefsOK' /\ PagesOK'
    BY <2>1 DEF IInv, Core, SlotsOK, MapIsExact, WritableIsExact, RefsOK, PagesOK, InUse,
        Dirty, Cached, Served, Stale
  <2>4. ControlOK' /\ HeaderOK'
    BY <2>1 DEF IInv, ControlOK, HeaderOK, InUse, Cached
  <2> QED
    BY <2>2, <2>3, <2>4 DEF IInv, Core
<1> QED
  BY <1>1, <1>2, <1>3, <1>4, <1>5, <1>6, <1>7, <1>8, <1>9, <1>10, <1>11, <1>12, <1>13, <1>14,
     <1>15, <1>16 DEF Next

-----------------------------------------------------------------------------
(* The theorems                                                              *)

\* The inductive invariant, about every function of the cache.
THEOREM CacheInvariant == Spec => []IInv
<1>1. Init => IInv
  BY InitIInv
<1>2. IInv /\ [Next]_vars => IInv'
  BY NextIInv
<1> QED
  BY <1>1, <1>2, PTL DEF Spec

\* Type correctness.
THEOREM CacheTypeOK == Spec => []TypeOK
<1>1. IInv => TypeOK
  BY DEF IInv, Core
<1> QED
  BY <1>1, CacheInvariant, PTL

\* map of pager.cpp: a page found through it is where the map says.
THEOREM MapAlwaysExact == Spec => []MapIsExact
<1>1. IInv => MapIsExact
  BY DEF IInv, Core
<1> QED
  BY <1>1, CacheInvariant, PTL

\* writable_pages of pager.cpp lists the modified slots, each once, so the sort
\* index of WritePages never exceeds the number of slots.
THEOREM WritableAlwaysExact == Spec => []WritableIsExact
<1>1. IInv => WritableIsExact
  BY DEF IInv, Core
<1> QED
  BY <1>1, CacheInvariant, PTL

\* get_page returns the last modification of every page, page 0 included, in any
\* number of transactions and reopenings.
THEOREM CacheCoherent == Spec => []Coherent
<1>1. IInv => Coherent
  <2> SUFFICES ASSUME IInv, pc \in {"ready", "commit", "header", "aborted"}, breach = {},
                      NEW p \in 0 .. pageCount - 1
               PROVE  Served(p) = truth[p]
    BY DEF Coherent
  <2>1. CASE p = 0
    BY <2>1 DEF IInv, HeaderOK, Served
  <2>2. CASE p # 0
    <3>1. p \in 1 .. pageCount - 1
      BY <2>2, CacheAssumption DEF IInv, Core, TypeOK
    <3> QED
      BY <3>1 DEF IInv, Core, PagesOK
  <2> QED
    BY <2>1, <2>2
<1> QED
  BY <1>1, CacheInvariant, PTL

\* A dbPage_ref whose holder has called enable_write keeps its page, and any
\* other one does as long as the cache is not full.
THEOREM ReferencesKeepPages == Spec => []ReferenceKeepsItsPage
<1>1. IInv => ReferenceKeepsItsPage
  BY DEF IInv, Core, RefsOK, ReferenceKeepsItsPage
<1> QED
  BY <1>1, CacheInvariant, PTL

\* The cache implements PageStore.tla: every step is a modification, a commit
\* that makes the file equal to the pages, a loss, or nothing to the callers.
THEOREM CacheImplementsPageStore == Spec => ImplementsPageStore
<1> DEFINE mem   == IF breach = {} THEN truth ELSE <<>>
           saved == IF breach = {} THEN file ELSE <<>>
<1>1. Init => Store!Init
  BY DEF Init, Store!Init
<1>2. IInv /\ [Next]_vars => [Store!Next]_<<mem, saved>>
  <2> SUFFICES ASSUME IInv, [Next]_vars PROVE Store!Next \/ UNCHANGED <<mem, saved>>
    OBVIOUS
  <2>1. CASE breach' # {}
    BY <2>1 DEF Store!Next, Store!Lose
  <2>2. CASE breach' = {}
    <3>1. breach = {} /\ IInv'
      <4>1. breach \subseteq breach'
        BY DEF Next, vars, Open, FormatNewPage, FormatMark, FormatInit, Begin, CommitFetch,
            CommitMark, CommitHeader, Reopen, AssertionFails, Fetch, NewPage, Mark, Modify,
            Flush, GetPage, GetNewPage, EnableWrite, UseSlot
      <4> QED
        BY <2>2, <4>1, NextIInv
    <3>2. truth \in [PageNo -> Content] /\ truth' \in [PageNo -> Content] /\ 0 \in PageNo
          /\ file \in [PageNo -> Content] /\ file' \in [PageNo -> Content]
      BY <3>1, CacheAssumption DEF IInv, Core, TypeOK, PageNo
    <3>3. truth # <<>>
      BY <3>2
    <3>4. ASSUME NEW S \in SUBSET PageNo, NEW v \in Content, file' = file,
                 truth' = [p \in PageNo |-> IF p \in S THEN v ELSE truth[p]]
          PROVE  Store!Next
      BY <2>2, <3>1, <3>3, <3>4 DEF Store!Next, Store!Write
    <3>5. ASSUME NEW r \in Refs, GetNewPage(r) PROVE Store!Next
      <4>0. pageCount \in 1 .. MaxPages /\ pageCount < MaxPages /\ MaxPages \in Nat
        BY <3>5, CacheAssumption DEF GetNewPage, IInv, Core, TypeOK
      <4>5. pageCount \in PageNo
        BY <4>0 DEF PageNo
      <4>1. /\ UseSlot(pageCount, Leftover, TRUE) /\ ~MustSteal
            /\ truth' = [truth EXCEPT ![pageCount] = Leftover] /\ pageCount \in PageNo
        BY <3>5, <4>5 DEF GetNewPage
      <4>2. Leftover \in Content
        BY <4>1, UseSlotShape DEF IInv, Core, TypeOK, Leftover
      <4>3. file' = file
        BY <4>1 DEF UseSlot
      <4>4. {pageCount} \in SUBSET PageNo
            /\ truth' = [p \in PageNo |-> IF p \in {pageCount} THEN Leftover ELSE truth[p]]
        BY <3>2, <4>1
      <4> QED
        BY <3>4, <4>2, <4>3, <4>4
    <3>6. ASSUME NEW rs \in SUBSET Holders, file' = file, truth' = Intended(rs),
                 clock < MaxWrites
          PROVE  Store!Next
      <4> DEFINE S == {p \in PageNo : \E r \in rs : refs[r].no = p}
      <4>1. clock + 1 \in Content
        BY <3>6, CacheAssumption DEF IInv, Core, TypeOK, Content
      <4>2. S \in SUBSET PageNo
            /\ truth' = [p \in PageNo |-> IF p \in S THEN clock + 1 ELSE truth[p]]
        BY <3>6 DEF Intended
      <4> HIDE DEF S
      <4> QED
        BY <3>4, <3>6, <4>1, <4>2
    <3>7. ASSUME Flush PROVE Store!Next
      <4>1. file' = truth /\ truth' = truth
        BY <3>1, <3>7, FlushStep DEF Flush
      <4> QED
        BY <2>2, <3>1, <3>3, <4>1 DEF Store!Next, Store!Commit
    <3>8. ASSUME NEW r \in Holders, NEW p, GetPage(r, p), truth' = truth
          PROVE  UNCHANGED <<mem, saved>>
      <4>1. file' = file
        BY <2>2, <3>8 DEF GetPage, UseSlot
      <4> QED
        BY <2>2, <3>1, <3>8, <4>1
    <3>9. ASSUME file' = file, truth' = truth PROVE UNCHANGED <<mem, saved>>
      BY <2>2, <3>1, <3>9
    <3> HIDE DEF mem, saved
    <3>10. CASE Open
      BY <3>8, <3>10 DEF Open, Holders
    <3>11. CASE FormatNewPage
      BY <3>5, <3>11 DEF FormatNewPage
    <3>12. CASE FormatMark \/ CommitMark \/ Begin \/ Reopen \/ UNCHANGED vars
      BY <3>9, <3>12 DEF FormatMark, CommitMark, Begin, Reopen, vars
    <3>13. CASE FormatInit
      <4> DEFINE rs == {r \in Holders : refs[r].marked}
      <4>1. rs \in SUBSET Holders /\ file' = file /\ truth' = Intended(rs) /\ clock < MaxWrites
        BY <3>13 DEF FormatInit
      <4> HIDE DEF rs
      <4> QED
        BY <3>6, <4>1
    <3>14. CASE Flush
      BY <3>7, <3>14
    <3>15. CASE CommitFetch
      BY <3>8, <3>15 DEF CommitFetch, Holders
    <3>16. CASE CommitHeader
      <4> DEFINE rs == {"header"}
      <4>1. rs \in SUBSET Holders /\ file' = file /\ truth' = Intended(rs) /\ clock < MaxWrites
        BY <3>16 DEF CommitHeader, Holders
      <4> HIDE DEF rs
      <4> QED
        BY <3>6, <4>1
    <3>17. CASE AssertionFails
      <4>1. file' = file /\ truth' = truth
        BY <2>2, <3>17 DEF AssertionFails
      <4> QED
        BY <3>9, <4>1
    <3>18. ASSUME NEW r \in Refs, Fetch(r) PROVE UNCHANGED <<mem, saved>>
      BY <3>8, <3>18 DEF Fetch, Holders
    <3>19. ASSUME NEW r \in Refs, NewPage(r) PROVE Store!Next
      BY <3>5, <3>19 DEF NewPage
    <3>20. ASSUME NEW r \in Refs, Mark(r) PROVE UNCHANGED <<mem, saved>>
      BY <3>9, <3>20 DEF Mark
    <3>21. ASSUME NEW r \in Refs, Modify(r) PROVE Store!Next
      <4> DEFINE rs == {r}
      <4>1. rs \in SUBSET Holders /\ file' = file /\ truth' = Intended(rs) /\ clock < MaxWrites
        BY <3>21 DEF Modify, Holders
      <4> HIDE DEF rs
      <4> QED
        BY <3>6, <4>1
    <3> QED
      BY <3>10, <3>11, <3>12, <3>13, <3>14, <3>15, <3>16, <3>17, <3>18, <3>19, <3>20, <3>21
      DEF Next
  <2> QED
    BY <2>1, <2>2
<1> QED
  BY <1>1, <1>2, CacheInvariant, PTL DEF Spec, ImplementsPageStore, Store!Spec
=============================================================================
