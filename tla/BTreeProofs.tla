---------------------------- MODULE BTreeProofs ----------------------------
(***************************************************************************)
(* Proofs about BTree.tla for every capacity of a page, every set of keys  *)
(* and sizes and every number of calls: the tree stays a search tree.      *)
(*                                                                         *)
(* The invariant gives each page in use a range of keys and a level.  The  *)
(* root has all keys and a page's children divide its range at its keys,   *)
(* one level down; pages of one level have no key in common.  A split page *)
(* and the one split off it stand for one child until the page above knows *)
(* of both (Whole).  Which ranges and levels there are is nowhere in the   *)
(* state: the invariant says that some fit.                                *)
(***************************************************************************)
EXTENDS BTreeProperties, InternalPageProofs, FiniteSetTheorems

Record    == [key : Keys, size : Sizes]
Ascends(recs) == \A i, j \in DOMAIN recs : i < j => recs[i].key < recs[j].key

\* The contents of a leaf: records in the order of their keys.
Sorted == {recs \in Seq(Record) : Ascends(recs)}

-----------------------------------------------------------------------------
(* Records of leaves                                                       *)

\* Two iterations that start alike and take the same steps.
LEMMA SameSteps ==
    ASSUME NEW N \in Nat, NEW g, NEW h,
           g = [n \in 0 .. N |-> g[n]], h = [n \in 0 .. N |-> h[n]],
           g[0] = h[0], \A n \in 0 .. N - 1 : g[n] = h[n] => g[n + 1] = h[n + 1]
    PROVE  g = h
<1> DEFINE T == {n \in 0 .. N : g[n] = h[n]}
<1>1. 0 \in T
  OBVIOUS
<1>2. \A n \in 0 .. N - 1 : n \in T => n + 1 \in T
  <2> TAKE n \in 0 .. N - 1
  <2> HAVE n \in T
  <2>1. n + 1 \in 0 .. N /\ g[n] = h[n]
    OBVIOUS
  <2>2. g[n + 1] = h[n + 1]
    BY <2>1
  <2> QED
    BY <2>1, <2>2
<1>3. \A n \in 0 .. N : n \in T
  <2> HIDE DEF T
  <2> QED
    BY <1>1, <1>2, UpTo
<1>4. \A n \in 0 .. N : g[n] = h[n]
  BY <1>3
<1> QED
  BY <1>4

\* Keys are numbers, of which 0 is none.
LEMMA KeysAreNumbers == \A r \in Record : r.key \in Keys /\ r.key \in Nat /\ r.key # 0
<1>1. Keys \subseteq Nat \ {0}
  BY BTreeAssumption
<1>2. \A r \in Record : r.key \in Keys
  BY DEF Record
<1> QED
  BY <1>1, <1>2

\* A sorted sequence of records.
LEMMA SortedShape ==
    ASSUME NEW s \in Sorted
    PROVE  /\ s \in Seq(Record) /\ Len(s) \in Nat /\ DOMAIN s = 1 .. Len(s)
           /\ \A i \in 1 .. Len(s) : s[i] \in Record /\ s[i].key \in Nat /\ s[i].key \in KeySet(s)
           /\ \A i, j \in 1 .. Len(s) : i < j => s[i].key < s[j].key
           /\ KeySet(s) \subseteq Keys /\ KeySet(s) \subseteq Nat
           /\ \A k \in KeySet(s) : \E i \in 1 .. Len(s) : s[i].key = k
<1>1. s \in Seq(Record) /\ Ascends(s)
  BY DEF Sorted
<1>2. Len(s) \in Nat /\ DOMAIN s = 1 .. Len(s) /\ \A i \in 1 .. Len(s) : s[i] \in Record
  BY <1>1
<1>3. \A i \in 1 .. Len(s) : s[i].key \in Nat /\ s[i].key \in Keys
  BY <1>2, KeysAreNumbers
<1>4. \A i \in 1 .. Len(s) : s[i].key \in KeySet(s)
  BY <1>2 DEF KeySet
<1>5. \A k \in KeySet(s) : \E i \in 1 .. Len(s) : s[i].key = k
  BY <1>2 DEF KeySet
<1>6. \A i, j \in 1 .. Len(s) : i < j => s[i].key < s[j].key
  BY <1>1, <1>2 DEF Ascends
<1> QED
  BY <1>1, <1>2, <1>3, <1>4, <1>5, <1>6

\* insert_payload_meta finds a place.
LEMMA PlaceFound ==
    ASSUME NEW recs \in Seq(Record), NEW r \in Record
    PROVE  /\ PlaceOf(recs, r) \in 1 .. Len(recs) + 1
           /\ PlaceOf(recs, r) <= Len(recs) => recs[PlaceOf(recs, r)].key > r.key
           /\ \A j \in 1 .. PlaceOf(recs, r) - 1 : recs[j].key <= r.key
<1> DEFINE Places == {i \in 1 .. Len(recs) + 1 : i <= Len(recs) => recs[i].key > r.key}
           Fit(i) == /\ i \in 1 .. Len(recs) + 1
                     /\ i <= Len(recs) => recs[i].key > r.key
                     /\ \A j \in 1 .. i - 1 : recs[j].key <= r.key
<1>0. Len(recs) \in Nat /\ r.key \in Nat /\ \A i \in 1 .. Len(recs) : recs[i].key \in Nat
  <2>1. \A i \in 1 .. Len(recs) : recs[i] \in Record
    OBVIOUS
  <2> QED
    BY <2>1, KeysAreNumbers
<1>1. Len(recs) + 1 \in Places /\ Places \subseteq Nat
  BY <1>0
<1>2. PICK m \in Places : \A k \in Places : m <= k
  <2> HIDE DEF Places
  <2> QED
    BY <1>1, Least
<1>3. ASSUME NEW j \in 1 .. m - 1 PROVE recs[j].key <= r.key
  <2>1. m \in 1 .. Len(recs) + 1 /\ j \in 1 .. Len(recs) /\ ~(m <= j)
    BY <1>0, <1>2
  <2>2. j \notin Places
    BY <1>2, <2>1
  <2> QED
    BY <1>0, <2>1, <2>2
<1>4. Fit(m)
  BY <1>2, <1>3
<1>5. PlaceOf(recs, r) = CHOOSE i : Fit(i)
  BY DEF PlaceOf
<1>6. Fit(PlaceOf(recs, r))
  <2> HIDE DEF Fit
  <2> QED
    BY <1>4, <1>5
<1> QED
  BY <1>6

\* A record with a new key goes between those with smaller and greater keys.
LEMMA PlaceSorted ==
    ASSUME NEW s \in Sorted, NEW r \in Record, r.key \notin KeySet(s)
    PROVE  Place(s, r) \in Sorted /\ KeySet(Place(s, r)) = KeySet(s) \cup {r.key}
<1> DEFINE n == Len(s)
           at == PlaceOf(s, r)
           t == Place(s, r)
<1>1. /\ s \in Seq(Record) /\ n \in Nat /\ DOMAIN s = 1 .. n
      /\ \A i \in 1 .. n : s[i].key \in Nat /\ s[i].key \in KeySet(s)
      /\ \A i, j \in 1 .. n : i < j => s[i].key < s[j].key
      /\ \A k \in KeySet(s) : \E i \in 1 .. n : s[i].key = k
  BY SortedShape
<1>2. r.key \in Nat
  BY KeysAreNumbers
<1>3. /\ at \in 1 .. n + 1
      /\ at <= n => s[at].key > r.key
      /\ \A j \in 1 .. at - 1 : s[j].key <= r.key
  BY <1>1, PlaceFound
<1>4. t = InsertAt(s, at, r)
  BY DEF Place
<1> HIDE DEF at, t
<1>5. /\ t \in Seq(Record) /\ Len(t) = n + 1 /\ t[at] = r
      /\ \A k \in 1 .. n + 1 : /\ k < at => t[k] = s[k]
                               /\ k > at => t[k] = s[k - 1]
  <2>1. s \in Seq(Record) /\ at \in 1 .. Len(s) + 1
    BY <1>1, <1>3
  <2>2. /\ t \in Seq(Record) /\ Len(t) = Len(s) + 1 /\ t[at] = r
        /\ \A k \in 1 .. Len(s) + 1 :
              /\ k < at => t[k] = s[k]
              /\ k > at => t[k] = s[k - 1]
    <3>1. /\ InsertAt(s, at, r) \in Seq(Record)
          /\ Len(InsertAt(s, at, r)) = Len(s) + 1
          /\ InsertAt(s, at, r)[at] = r
          /\ \A k \in 1 .. Len(s) + 1 :
                /\ k < at => InsertAt(s, at, r)[k] = s[k]
                /\ k > at => InsertAt(s, at, r)[k] = s[k - 1]
      BY <2>1, InsertAtElements
    <3> QED
      BY <1>4, <3>1
  <2> QED
    BY <2>2
<1> HIDE DEF n
<1>6. DOMAIN t = 1 .. n + 1
  BY <1>5
<1>7. \A i \in 1 .. n : i >= at => s[i].key > r.key
  BY <1>1, <1>2, <1>3
<1>8. \A i \in 1 .. n : i < at => s[i].key < r.key
  <2> TAKE i \in 1 .. n
  <2>1. s[i].key # r.key
    BY <1>1
  <2> QED
    BY <1>1, <1>2, <1>3, <2>1
<1>9. ASSUME NEW i \in 1 .. n + 1, NEW j \in 1 .. n + 1, i < j
      PROVE  t[i].key < t[j].key
  <2>1. CASE j < at
    <3>1. i \in 1 .. n /\ j \in 1 .. n /\ i < at
      BY <1>1, <1>3, <1>9, <2>1
    <3> QED
      BY <1>1, <1>5, <1>9, <2>1, <3>1
  <2>2. CASE j = at
    <3>1. i \in 1 .. n /\ i < at
      BY <1>1, <1>3, <1>9, <2>2
    <3> QED
      BY <1>5, <1>8, <2>2, <3>1
  <2>3. CASE j > at /\ i < at
    <3>1. i \in 1 .. n /\ j - 1 \in 1 .. n /\ i < j - 1 /\ i < at
      BY <1>1, <1>3, <1>9, <2>3
    <3>2. t[i] = s[i] /\ t[j] = s[j - 1]
      BY <1>5, <2>3
    <3> QED
      BY <1>1, <3>1, <3>2
  <2>4. CASE j > at /\ i = at
    <3>1. j - 1 \in 1 .. n /\ j - 1 >= at
      BY <1>1, <1>3, <1>9, <2>4
    <3>2. s[j - 1].key > r.key
      BY <1>7, <3>1
    <3>3. t[i] = r /\ t[j] = s[j - 1]
      BY <1>5, <2>4
    <3> QED
      BY <1>1, <1>2, <3>1, <3>2, <3>3
  <2>5. CASE j > at /\ i > at
    <3>1. i - 1 \in 1 .. n /\ j - 1 \in 1 .. n /\ i - 1 < j - 1
      BY <1>1, <1>3, <1>9, <2>5
    <3>2. t[i] = s[i - 1] /\ t[j] = s[j - 1]
      BY <1>5, <2>5
    <3> QED
      BY <1>1, <3>1, <3>2
  <2> QED
    BY <1>3, <2>1, <2>2, <2>3, <2>4, <2>5
<1>10. Ascends(t)
  BY <1>6, <1>9 DEF Ascends
<1>11. ASSUME NEW i \in 1 .. n + 1 PROVE t[i].key \in KeySet(s) \cup {r.key}
  <2>1. CASE i < at
    <3>1. i \in 1 .. n
      BY <1>1, <1>3, <2>1
    <3> QED
      BY <1>1, <1>5, <2>1, <3>1
  <2>2. CASE i = at
    BY <1>5, <2>2
  <2>3. CASE i > at
    <3>1. i - 1 \in 1 .. n
      BY <1>1, <1>3, <2>3
    <3> QED
      BY <1>1, <1>5, <2>3, <3>1
  <2> QED
    BY <1>3, <2>1, <2>2, <2>3
<1>12. KeySet(t) \subseteq KeySet(s) \cup {r.key}
  BY <1>6, <1>11 DEF KeySet
<1>13. ASSUME NEW i \in 1 .. n PROVE s[i].key \in KeySet(t)
  <2>1. CASE i < at
    <3>1. i \in 1 .. n + 1 /\ t[i] = s[i]
      BY <1>1, <1>5, <2>1
    <3> QED
      BY <1>6, <3>1 DEF KeySet
  <2>2. CASE i >= at
    <3>1. i + 1 \in 1 .. n + 1 /\ i + 1 > at /\ (i + 1) - 1 = i
      BY <1>1, <1>3, <2>2
    <3>2. t[i + 1] = s[i]
      BY <1>5, <3>1
    <3> QED
      BY <1>6, <3>1, <3>2 DEF KeySet
  <2> QED
    BY <1>1, <1>3, <2>1, <2>2
<1>14. r.key \in KeySet(t)
  BY <1>3, <1>5, <1>6 DEF KeySet
<1>15. KeySet(t) = KeySet(s) \cup {r.key}
  BY <1>1, <1>12, <1>13, <1>14
<1> QED
  BY <1>5, <1>10, <1>15 DEF Sorted, t

\* What is left of sorted records when one is taken out.
LEMMA PartSorted ==
    ASSUME NEW s \in Sorted, NEW t \in Seq(Record), NEW at \in Nat,
           \A k \in 1 .. Len(t) : /\ k < at => k \in 1 .. Len(s) /\ t[k] = s[k]
                                  /\ k >= at => k + 1 \in 1 .. Len(s) /\ t[k] = s[k + 1]
    PROVE  t \in Sorted /\ KeySet(t) \subseteq KeySet(s)
<1> DEFINE n == Len(t)
           m == Len(s)
<1>1. /\ m \in Nat /\ n \in Nat /\ DOMAIN t = 1 .. n
      /\ \A i \in 1 .. m : s[i].key \in Nat /\ s[i].key \in KeySet(s)
      /\ \A i, j \in 1 .. m : i < j => s[i].key < s[j].key
  BY SortedShape
<1>2. \A k \in 1 .. n : /\ k < at => k \in 1 .. m /\ t[k] = s[k]
                        /\ k >= at => k + 1 \in 1 .. m /\ t[k] = s[k + 1]
  OBVIOUS
<1> HIDE DEF n, m
<1>3. ASSUME NEW i \in 1 .. n, NEW j \in 1 .. n, i < j
      PROVE  t[i].key < t[j].key
  <2>1. CASE j < at
    <3>1. i < at
      BY <1>1, <1>3, <2>1
    <3> QED
      BY <1>1, <1>2, <1>3, <2>1, <3>1
  <2>2. CASE j >= at /\ i < at
    <3>1. i \in 1 .. m /\ j + 1 \in 1 .. m /\ t[i] = s[i] /\ t[j] = s[j + 1]
      BY <1>2, <2>2
    <3>2. i < j + 1
      BY <1>1, <1>3
    <3> QED
      BY <1>1, <3>1, <3>2
  <2>3. CASE j >= at /\ i >= at
    <3>1. i + 1 \in 1 .. m /\ j + 1 \in 1 .. m /\ t[i] = s[i + 1] /\ t[j] = s[j + 1]
      BY <1>2, <2>3
    <3>2. i + 1 < j + 1
      BY <1>1, <1>3
    <3> QED
      BY <1>1, <3>1, <3>2
  <2> QED
    BY <1>1, <2>1, <2>2, <2>3
<1>4. ASSUME NEW k \in 1 .. n PROVE t[k].key \in KeySet(s)
  <2>1. CASE k < at
    BY <1>1, <1>2, <2>1
  <2>2. CASE k >= at
    BY <1>1, <1>2, <2>2
  <2> QED
    BY <1>1, <2>1, <2>2
<1> QED
  BY <1>1, <1>3, <1>4 DEF Sorted, Ascends, KeySet

\* A record is taken out of a page.
LEMMA RemoveSorted ==
    ASSUME NEW s \in Sorted, NEW i \in DOMAIN s
    PROVE  RemoveAt(s, i) \in Sorted /\ KeySet(RemoveAt(s, i)) \subseteq KeySet(s)
<1> DEFINE t == RemoveAt(s, i)
<1>1. s \in Seq(Record) /\ Len(s) \in Nat /\ i \in 1 .. Len(s)
  BY SortedShape
<1>2. /\ t \in Seq(Record) /\ Len(t) = Len(s) - 1
      /\ \A k \in 1 .. Len(s) - 1 : /\ k < i => t[k] = s[k]
                                    /\ k >= i => t[k] = s[k + 1]
  BY <1>1, RemoveAtElements
<1> HIDE DEF t
<1>3. \A k \in 1 .. Len(t) : /\ k < i => k \in 1 .. Len(s) /\ t[k] = s[k]
                             /\ k >= i => k + 1 \in 1 .. Len(s) /\ t[k] = s[k + 1]
  BY <1>1, <1>2
<1>4. t \in Seq(Record) /\ i \in Nat
  BY <1>1, <1>2
<1>5. t \in Sorted /\ KeySet(t) \subseteq KeySet(s)
  BY <1>3, <1>4, PartSorted
<1> QED
  BY <1>5 DEF t

\* The first or the last record of a page leaves it.
LEMMA EndsSorted ==
    ASSUME NEW s \in Sorted, s # <<>>
    PROVE  /\ Tail(s) \in Sorted /\ KeySet(Tail(s)) \subseteq KeySet(s) /\ Len(Tail(s)) = Len(s) - 1
           /\ Front(s) \in Sorted /\ KeySet(Front(s)) \subseteq KeySet(s) /\ Len(Front(s)) = Len(s) - 1
           /\ s[1] \in Record /\ s[1].key \in KeySet(s)
           /\ Last(s) \in Record /\ Last(s).key \in KeySet(s)
           /\ \A k \in KeySet(s) : s[1].key <= k /\ k <= Last(s).key
<1> DEFINE n == Len(s)
<1>1. /\ s \in Seq(Record) /\ n \in Nat
      /\ \A i \in 1 .. n : s[i] \in Record /\ s[i].key \in Nat /\ s[i].key \in KeySet(s)
      /\ \A i, j \in 1 .. n : i < j => s[i].key < s[j].key
      /\ \A k \in KeySet(s) : \E i \in 1 .. n : s[i].key = k
  BY SortedShape
<1>2. n > 0
  BY <1>1
<1>3. /\ Tail(s) \in Seq(Record) /\ Len(Tail(s)) = n - 1
      /\ \A k \in 1 .. n - 1 : Tail(s)[k] = s[k + 1]
  BY <1>1, <1>2
<1>4. /\ Front(s) \in Seq(Record) /\ Len(Front(s)) = n - 1
      /\ \A k \in 1 .. n - 1 : Front(s)[k] = s[k]
  <2>1. s \in Seq(Record) /\ Len(s) \in Nat /\ Len(s) > 0
    BY <1>1, <1>2
  <2> DEFINE m == Len(s) - 1
  <2>2. m \in Nat /\ m <= Len(s)
    BY <2>1
  <2> HIDE DEF m
  <2>3. SubSeq(s, 1, m) \in Seq(Record) /\ Len(SubSeq(s, 1, m)) = m
    BY <2>1, <2>2
  <2>4. \A k \in 1 .. m : SubSeq(s, 1, m)[k] = s[k]
    BY <2>1, <2>2
  <2>5. Front(s) = SubSeq(s, 1, m)
    BY DEF Front, m
  <2> QED
    BY <2>3, <2>4, <2>5 DEF m
<1>5. Last(s) = s[n]
  BY DEF Last
<1>6. Tail(s) \in Sorted /\ KeySet(Tail(s)) \subseteq KeySet(s)
  <2> DEFINE t == Tail(s)
             at == 1
  <2>1. \A k \in 1 .. Len(t) : /\ k < at => k \in 1 .. Len(s) /\ t[k] = s[k]
                               /\ k >= at => k + 1 \in 1 .. Len(s) /\ t[k] = s[k + 1]
    BY <1>1, <1>2, <1>3
  <2>2. t \in Seq(Record) /\ at \in Nat
    BY <1>3
  <2> HIDE DEF t, at
  <2>3. t \in Sorted /\ KeySet(t) \subseteq KeySet(s)
    BY <2>1, <2>2, PartSorted
  <2> QED
    BY <2>3 DEF t
<1>7. Front(s) \in Sorted /\ KeySet(Front(s)) \subseteq KeySet(s)
  <2> DEFINE t == Front(s)
             at == Len(s)
  <2>1. \A k \in 1 .. Len(t) : /\ k < at => k \in 1 .. Len(s) /\ t[k] = s[k]
                               /\ k >= at => k + 1 \in 1 .. Len(s) /\ t[k] = s[k + 1]
    BY <1>1, <1>2, <1>4
  <2>2. t \in Seq(Record) /\ at \in Nat
    BY <1>1, <1>4
  <2> HIDE DEF t, at
  <2>3. t \in Sorted /\ KeySet(t) \subseteq KeySet(s)
    BY <2>1, <2>2, PartSorted
  <2> QED
    BY <2>3 DEF t
<1>8. 1 \in 1 .. n /\ n \in 1 .. n
  BY <1>1, <1>2
<1>9. ASSUME NEW k \in KeySet(s) PROVE s[1].key <= k /\ k <= s[n].key
  <2> HIDE DEF n
  <2>1. PICK i \in 1 .. n : s[i].key = k
    BY <1>1
  <2>2. s[1].key \in Nat /\ s[n].key \in Nat /\ s[i].key \in Nat
    BY <1>1, <1>8
  <2>3. s[1].key <= k
    <3>1. i = 1 \/ 1 < i
      BY <1>1, <2>1
    <3> QED
      BY <1>1, <1>8, <2>1, <2>2, <3>1
  <2>4. k <= s[n].key
    <3>1. i = n \/ i < n
      BY <1>1, <2>1
    <3> QED
      BY <1>1, <1>8, <2>1, <2>2, <3>1
  <2> QED
    BY <2>3, <2>4
<1>10. s[1] \in Record /\ s[1].key \in KeySet(s) /\ s[n] \in Record /\ s[n].key \in KeySet(s)
  BY <1>1, <1>8
<1> HIDE DEF n
<1> QED
  BY <1>3, <1>4, <1>5, <1>6, <1>7, <1>9, <1>10 DEF n

\* Records with new keys placed one after the other.
LEMMA PlacedInTurn ==
    ASSUME NEW front \in Sorted, NEW back \in Sorted
    PROVE  \E h \in [0 .. Len(back) -> Sorted] :
              /\ h[0] = front
              /\ \A n \in 1 .. Len(back) :
                    back[n].key \notin KeySet(h[n - 1]) => h[n] = Place(h[n - 1], back[n])
<1> DEFINE N == Len(back)
           f == [n \in 1 .. N |->
                    [x \in Sorted |-> IF back[n].key \in KeySet(x) THEN x ELSE Place(x, back[n])]]
<1>1. N \in Nat /\ \A n \in 1 .. N : back[n] \in Record
  BY SortedShape
<1>2. f \in [1 .. N -> [Sorted -> Sorted]]
  <2>1. ASSUME NEW n \in 1 .. N, NEW x \in Sorted, back[n].key \notin KeySet(x)
        PROVE  Place(x, back[n]) \in Sorted
    <3>1. back[n] \in Record
      BY <1>1
    <3> QED
      BY <2>1, <3>1, PlaceSorted
  <2> QED
    BY <2>1
<1>3. PICK h \in [0 .. N -> Sorted] : h[0] = front /\ \A n \in 1 .. N : h[n] = f[n][h[n - 1]]
  <2> DEFINE D == Sorted
             base == front
  <2>0. N \in Nat
    BY <1>1
  <2>1. base \in D
    OBVIOUS
  <2>3. f \in [1 .. N -> [D -> D]]
    BY <1>2
  <2> HIDE DEF N, f, D, base
  <2>2. \E h \in [0 .. N -> D] : h[0] = base /\ \A n \in 1 .. N : h[n] = f[n][h[n - 1]]
    BY <2>0, <2>1, <2>3, Iteration, SMTT(30)
  <2> QED
    BY <2>2 DEF D, base
<1>4. \A n \in 1 .. N : h[n - 1] \in Sorted
  BY <1>1
<1> QED
  BY <1>3, <1>4

\* merge puts the records of the back page one by one into the front page.
LEMMA MergedSorted ==
    ASSUME NEW front \in Sorted, NEW back \in Sorted, KeySet(front) \cap KeySet(back) = {}
    PROVE  /\ MergedRecords(front, back) \in Sorted
           /\ KeySet(MergedRecords(front, back)) \subseteq KeySet(front) \cup KeySet(back)
<1> DEFINE N == Len(back)
           Is(h) == h = [n \in 0 .. Len(back) |->
                            IF n = 0 THEN front ELSE Place(h[n - 1], back[n])]
           new == CHOOSE h : Is(h)
<1>1. /\ N \in Nat /\ \A n \in 1 .. N : back[n] \in Record /\ back[n].key \in KeySet(back)
      /\ \A i, j \in 1 .. N : i < j => back[i].key < back[j].key
      /\ \A n \in 1 .. N : back[n].key \in Nat
  BY SortedShape
<1>3. PICK h \in [0 .. N -> Sorted] :
             /\ h[0] = front
             /\ \A n \in 1 .. N :
                   back[n].key \notin KeySet(h[n - 1]) => h[n] = Place(h[n - 1], back[n])
  BY PlacedInTurn
<1> DEFINE Has(n) == KeySet(front) \cup {back[j].key : j \in 1 .. n}
           S == {n \in 0 .. N : KeySet(h[n]) \subseteq Has(n)}
<1>4. ASSUME NEW n \in 1 .. N, KeySet(h[n - 1]) \subseteq Has(n - 1)
      PROVE  /\ h[n] = Place(h[n - 1], back[n]) /\ h[n - 1] \in Sorted
             /\ KeySet(h[n]) \subseteq Has(n)
  <2>1. n - 1 \in 0 .. N
    BY <1>1
  <2>2. h[n - 1] \in Sorted
    BY <2>1
  <2>3. back[n].key \notin KeySet(h[n - 1])
    <3>1. back[n].key \notin KeySet(front)
      BY <1>1
    <3>2. ASSUME NEW j \in 1 .. n - 1 PROVE back[j].key # back[n].key
      <4>1. j \in 1 .. N /\ j < n
        BY <1>1
      <4>2. back[j].key < back[n].key /\ back[j].key \in Nat /\ back[n].key \in Nat
        BY <1>1, <4>1
      <4> QED
        BY <4>2
    <3> HIDE DEF N
    <3> QED
      BY <1>4, <3>1, <3>2
  <2>4. h[n] = Place(h[n - 1], back[n])
    BY <1>3, <2>2, <2>3
  <2>5. back[n] \in Record
    BY <1>1
  <2>6. KeySet(h[n]) = KeySet(h[n - 1]) \cup {back[n].key}
    <3>1. KeySet(Place(h[n - 1], back[n])) = KeySet(h[n - 1]) \cup {back[n].key}
      BY <2>2, <2>3, <2>5, PlaceSorted
    <3> QED
      BY <2>4, <3>1
  <2>7. Has(n - 1) \subseteq Has(n) /\ back[n].key \in Has(n)
    <3>1. \A j \in 1 .. n - 1 : j \in 1 .. n
      BY <1>1
    <3>2. n \in 1 .. n
      BY <1>1
    <3> QED
      BY <3>1, <3>2
  <2> HIDE DEF Has
  <2> QED
    BY <1>4, <2>2, <2>4, <2>6, <2>7
<1>5. \A n \in 0 .. N : n \in S
  <2>1. 0 \in S
    BY <1>1, <1>3
  <2>2. \A n \in 0 .. N - 1 : n \in S => n + 1 \in S
    <3> TAKE n \in 0 .. N - 1
    <3> HAVE n \in S
    <3> DEFINE m == n + 1
    <3>1. m \in 1 .. N /\ m - 1 = n /\ m \in 0 .. N
      BY <1>1
    <3>2. KeySet(h[m - 1]) \subseteq Has(m - 1)
      BY <3>1
    <3> HIDE DEF m
    <3>3. KeySet(h[m]) \subseteq Has(m)
      BY <1>4, <3>1, <3>2
    <3>4. m \in S
      BY <3>1, <3>3
    <3> QED
      BY <3>4 DEF m
  <2>3. N \in Nat
    BY <1>1
  <2> HIDE DEF S, N
  <2> QED
    BY <2>1, <2>2, <2>3, UpTo
<1>6. Is(h)
  <2>1. ASSUME NEW n \in 0 .. N
        PROVE  h[n] = IF n = 0 THEN front ELSE Place(h[n - 1], back[n])
    <3>1. CASE n = 0
      BY <3>1, <1>3
    <3>2. CASE n # 0
      <4>1. n \in 1 .. N /\ n - 1 \in 0 .. N
        BY <1>1, <3>2
      <4>2. KeySet(h[n - 1]) \subseteq Has(n - 1)
        BY <1>5, <4>1
      <4>3. h[n] = Place(h[n - 1], back[n])
        BY <1>4, <4>1, <4>2
      <4> QED
        BY <3>2, <4>3
    <3> QED
      BY <3>1, <3>2
  <2> QED
    BY <2>1
<1>7. Is(new)
  <2> HIDE DEF Is
  <2> QED
    BY <1>6
<1>8. MergedRecords(front, back) = new[Len(back)]
  BY DEF MergedRecords
<1>9. new = h
  <2>1. \A n \in 0 .. N - 1 : new[n] = h[n] => new[n + 1] = h[n + 1]
    <3> TAKE n \in 0 .. N - 1
    <3> HAVE new[n] = h[n]
    <3>1. n + 1 \in 0 .. N /\ n + 1 # 0 /\ (n + 1) - 1 = n
      BY <1>1
    <3> HIDE DEF new
    <3> QED
      BY <1>6, <1>7, <3>1
  <2> HIDE DEF new
  <2>2. new[0] = h[0]
    BY <1>1, <1>6, <1>7
  <2>3. new = [n \in 0 .. N |-> new[n]] /\ h = [n \in 0 .. N |-> h[n]]
    BY <1>6, <1>7
  <2> HIDE DEF Is, N
  <2> QED
    BY <1>1, <2>1, <2>2, <2>3, SameSteps, ZenonT(40)
<1>10. N \in 0 .. N
  BY <1>1
<1>11. h[N] \in Sorted /\ KeySet(h[N]) \subseteq Has(N)
  BY <1>5, <1>10
<1>12. Has(N) \subseteq KeySet(front) \cup KeySet(back)
  BY <1>1
<1> QED
  BY <1>8, <1>9, <1>11, <1>12

\* What balance hands over is placed where it fits.
LEMMA TakenSorted ==
    ASSUME NEW s \in Sorted, NEW r \in Record, NEW t,
           t = IF Fits(s, r.size) /\ r.key \notin KeySet(s) THEN Place(s, r) ELSE s
    PROVE  t \in Sorted /\ KeySet(t) \subseteq KeySet(s) \cup {r.key}
<1>1. CASE Fits(s, r.size) /\ r.key \notin KeySet(s)
  <2>1. Place(s, r) \in Sorted /\ KeySet(Place(s, r)) = KeySet(s) \cup {r.key}
    BY <1>1, PlaceSorted
  <2>2. t = Place(s, r)
    BY <1>1
  <2> QED
    BY <2>1, <2>2
<1>2. CASE ~(Fits(s, r.size) /\ r.key \notin KeySet(s))
  <2>1. t = s
    BY <1>2
  <2> QED
    BY <2>1
<1> QED
  BY <1>1, <1>2

\* The page balance takes records from, and what it does with one of them.
Giving(toFirst, s) == IF toFirst THEN s.last ELSE s.first
Handed(recs, r)    == IF Fits(recs, r.size) /\ r.key \notin KeySet(recs) THEN Place(recs, r) ELSE recs
Moving(toFirst, s) ==
    IF toFirst THEN [first |-> Handed(s.first, s.last[1]), last |-> Tail(s.last)]
               ELSE [first |-> Front(s.first), last |-> Handed(s.last, Last(s.first))]

Filling(toFirst, s) == IF toFirst THEN s.first ELSE s.last
Halfway(first, last) == (PayloadSize(first) + PayloadSize(last)) \div 2

\* balance, record by record: it never takes one from an empty page.
Run(first, last, b, toFirst, N, h) ==
    /\ h \in [0 .. N -> [first : Sorted, last : Sorted]]
    /\ last = <<>> => toFirst = (PayloadSize(first) < PayloadSize(<<>>))
    /\ h[0] = [first |-> first, last |-> last]
    /\ \A n \in 1 .. N :
          \/ h[n] = h[n - 1]
          \/ Giving(toFirst, h[n - 1]) # <<>> /\ h[n] = Moving(toFirst, h[n - 1])
    /\ b.first = h[N].first /\ b.last = h[N].last

\* It moves one exactly as long as the page it fills has less than half.
Stops(first, last, b, toFirst, N, h) ==
    /\ N = Len(Giving(toFirst, h[0]))
    /\ \A n \in 1 .. N :
          IF PayloadSize(Filling(toFirst, h[n - 1])) >= Halfway(first, last) THEN h[n] = h[n - 1]
          ELSE h[n] = Moving(toFirst, h[n - 1])
    /\ PayloadSize(Filling(toFirst, h[N])) >= Halfway(first, last) => b.ok

LEMMA BalanceSteps ==
    ASSUME NEW first \in Sorted, NEW last \in Sorted, NEW b, b = BalanceLeaves(first, last)
    PROVE  \E toFirst \in BOOLEAN, N \in Nat : \E h :
              Run(first, last, b, toFirst, N, h) /\ Stops(first, last, b, toFirst, N, h)
<1> DEFINE target  == (PayloadSize(first) + PayloadSize(last)) \div 2
           toFirst == PayloadSize(first) < PayloadSize(last)
           Taken(recs, r) ==
               IF Fits(recs, r.size) /\ r.key \notin KeySet(recs) THEN Place(recs, r) ELSE recs
           Filled(s) == IF toFirst THEN s.first ELSE s.last
           Moved(s) ==
               IF toFirst THEN [first |-> Taken(s.first, s.last[1]), last |-> Tail(s.last)]
                          ELSE [first |-> Front(s.first), last |-> Taken(s.last, Last(s.first))]
           moves == Len(IF toFirst THEN last ELSE first)
           Is(h) == h = [n \in 0 .. moves |->
                            IF n = 0 THEN [first |-> first, last |-> last]
                            ELSE IF PayloadSize(Filled(h[n - 1])) >= target THEN h[n - 1]
                            ELSE Moved(h[n - 1])]
           after == CHOOSE h : Is(h)
           D == [first : Sorted, last : Sorted]
           Source(s) == IF toFirst THEN s.last ELSE s.first
           f == [n \in 1 .. moves |->
                    [s \in D |-> IF Source(s) = <<>> \/ PayloadSize(Filled(s)) >= target THEN s
                                 ELSE Moved(s)]]
<1>0. /\ b.first = after[moves].first /\ b.last = after[moves].last
      /\ PayloadSize(Filled(after[moves])) >= target => b.ok
  BY DEF BalanceLeaves
<1> HIDE DEF after
<1>1. moves \in Nat
  <2>1. CASE toFirst
    BY <2>1, SortedShape
  <2>2. CASE ~toFirst
    BY <2>2, SortedShape
  <2> QED
    BY <2>1, <2>2
<1>2. \A s \in D : /\ s.first \in Sorted /\ s.last \in Sorted
                   /\ Source(s) \in Sorted /\ Len(Source(s)) \in Nat
  <2> TAKE s \in D
  <2>1. s.first \in Sorted /\ s.last \in Sorted
    OBVIOUS
  <2>2. Source(s) \in Sorted
    BY <2>1
  <2> HIDE DEF Source, D
  <2>3. Len(Source(s)) \in Nat
    BY <2>2, SortedShape
  <2> QED
    BY <2>1, <2>2, <2>3
<1>3. \A x, y : x \in Sorted /\ y \in Sorted => [first |-> x, last |-> y] \in D
  OBVIOUS
<1>4. [first |-> first, last |-> last] \in D
  BY <1>3
<1>5. ASSUME NEW s \in D, Source(s) # <<>>
      PROVE  Moved(s) \in D /\ Len(Source(Moved(s))) = Len(Source(s)) - 1
  <2> HIDE DEF D
  <2>1. CASE toFirst
    <3> DEFINE t == Taken(s.first, s.last[1])
    <3>1. s.first \in Sorted /\ s.last \in Sorted /\ s.last # <<>>
      BY <1>2, <1>5, <2>1
    <3>2. /\ Tail(s.last) \in Sorted /\ KeySet(Tail(s.last)) \subseteq KeySet(s.last)
          /\ Len(Tail(s.last)) = Len(s.last) - 1
          /\ s.last[1] \in Record /\ s.last[1].key \in KeySet(s.last)
      BY <3>1, EndsSorted
    <3>3. t \in Sorted
      BY <3>1, <3>2, TakenSorted
    <3>4. Moved(s) = [first |-> t, last |-> Tail(s.last)]
      BY <2>1
    <3> HIDE DEF Moved, t, Taken, target, toFirst
    <3>6. Moved(s) \in D
      BY <1>3, <3>2, <3>3, <3>4
    <3>7. Source(s) = s.last /\ Source(Moved(s)) = Tail(s.last)
      BY <2>1, <3>4
    <3> QED
      BY <3>2, <3>6, <3>7
  <2>2. CASE ~toFirst
    <3> DEFINE t == Taken(s.last, Last(s.first))
    <3>1. s.first \in Sorted /\ s.last \in Sorted /\ s.first # <<>>
      BY <1>2, <1>5, <2>2
    <3>2. /\ Front(s.first) \in Sorted /\ KeySet(Front(s.first)) \subseteq KeySet(s.first)
          /\ Len(Front(s.first)) = Len(s.first) - 1
          /\ Last(s.first) \in Record /\ Last(s.first).key \in KeySet(s.first)
      BY <3>1, EndsSorted
    <3>3. t \in Sorted
      BY <3>1, <3>2, TakenSorted
    <3>4. Moved(s) = [first |-> Front(s.first), last |-> t]
      BY <2>2
    <3> HIDE DEF Moved, t, Taken, target, toFirst
    <3>6. Moved(s) \in D
      BY <1>3, <3>2, <3>3, <3>4
    <3>7. Source(s) = s.first /\ Source(Moved(s)) = Front(s.first)
      BY <2>2, <3>4
    <3> QED
      BY <3>2, <3>6, <3>7
  <2> QED
    BY <2>1, <2>2
<1>6. f \in [1 .. moves -> [D -> D]]
  <2> HIDE DEF D, Moved, Source, Filled, target, moves
  <2> QED
    BY <1>5
<1>7. PICK h \in [0 .. moves -> D] :
             /\ h[0] = [first |-> first, last |-> last]
             /\ \A n \in 1 .. moves : h[n] = f[n][h[n - 1]]
  <2> DEFINE base == [first |-> first, last |-> last]
             N == moves
  <2>0. N \in Nat
    BY <1>1
  <2>1. base \in D
    BY <1>4
  <2>3. f \in [1 .. N -> [D -> D]]
    BY <1>6
  <2> HIDE DEF N, f, D, base, Is, moves
  <2>2. \E h \in [0 .. N -> D] : h[0] = base /\ \A n \in 1 .. N : h[n] = f[n][h[n - 1]]
    BY <2>0, <2>1, <2>3, Iteration, SMTT(30)
  <2> QED
    BY <2>2 DEF base, N
<1> DEFINE Left(n) == Len(Source(h[n])) >= moves - n
<1>8. ASSUME NEW n \in 1 .. moves, Left(n - 1)
      PROVE  /\ h[n] = IF PayloadSize(Filled(h[n - 1])) >= target THEN h[n - 1] ELSE Moved(h[n - 1])
             /\ Left(n)
  <2>1. n - 1 \in 0 .. moves
    BY <1>1
  <2>2. h[n - 1] \in D
    BY <2>1
  <2>3. Len(Source(h[n - 1])) \in Nat /\ Len(Source(h[n - 1])) >= moves - (n - 1)
    BY <1>2, <1>8, <2>2
  <2>4. Source(h[n - 1]) # <<>>
    <3>1. moves - (n - 1) > 0
      BY <1>1
    <3> HIDE DEF Source, moves
    <3> QED
      BY <1>1, <2>3, <3>1
  <2>5. h[n] = IF PayloadSize(Filled(h[n - 1])) >= target THEN h[n - 1] ELSE Moved(h[n - 1])
    <3> HIDE DEF D, Moved, Source, Filled, target, moves
    <3> QED
      BY <1>7, <2>2, <2>4
  <2>6. Left(n)
    <3>1. CASE PayloadSize(Filled(h[n - 1])) >= target
      <4>1. h[n] = h[n - 1]
        BY <2>5, <3>1
      <4> HIDE DEF D, Moved, Source, Filled, target, moves
      <4> QED
        BY <1>1, <2>3, <4>1
    <3>2. CASE ~(PayloadSize(Filled(h[n - 1])) >= target)
      <4>1. h[n] = Moved(h[n - 1])
        BY <2>5, <3>2
      <4>2. Len(Source(Moved(h[n - 1]))) = Len(Source(h[n - 1])) - 1
        BY <1>5, <2>2, <2>4
      <4> HIDE DEF D, Moved, Source, Filled, target, moves
      <4> QED
        BY <1>1, <2>3, <4>1, <4>2
    <3> QED
      BY <3>1, <3>2
  <2> QED
    BY <2>5, <2>6
<1>9. \A n \in 0 .. moves : Left(n)
  <2> DEFINE S == {n \in 0 .. moves : Left(n)}
             N == moves
  <2>1. 0 \in S
    <3>1. Source(h[0]) = IF toFirst THEN last ELSE first
      BY <1>7, SMTT(30)
    <3>2. Left(0)
      BY <1>1, <3>1
    <3> QED
      BY <1>1, <3>2
  <2>2. \A n \in 0 .. N - 1 : n \in S => n + 1 \in S
    <3> TAKE n \in 0 .. N - 1
    <3> HAVE n \in S
    <3> DEFINE m == n + 1
    <3>1. m \in 1 .. moves /\ m - 1 = n /\ m \in 0 .. moves
      BY <1>1
    <3>2. Left(m - 1)
      BY <3>1
    <3> HIDE DEF m
    <3>3. Left(m)
      BY <1>8, <3>1, <3>2
    <3>4. m \in S
      BY <3>1, <3>3
    <3> QED
      BY <3>4 DEF m
  <2>3. N \in Nat
    BY <1>1
  <2>4. \A n \in 0 .. N : n \in S
    <3> HIDE DEF S, N
    <3> QED
      BY <2>1, <2>2, <2>3, UpTo
  <2> QED
    BY <2>4
<1>10. Is(h)
  <2>1. ASSUME NEW n \in 0 .. moves
        PROVE  h[n] = IF n = 0 THEN [first |-> first, last |-> last]
                      ELSE IF PayloadSize(Filled(h[n - 1])) >= target THEN h[n - 1]
                      ELSE Moved(h[n - 1])
    <3>1. CASE n = 0
      BY <3>1, <1>7
    <3>2. CASE n # 0
      <4>1. n \in 1 .. moves /\ n - 1 \in 0 .. moves
        BY <1>1, <3>2
      <4>2. Left(n - 1)
        BY <1>9, <4>1
      <4>3. h[n] = IF PayloadSize(Filled(h[n - 1])) >= target THEN h[n - 1] ELSE Moved(h[n - 1])
        BY <1>8, <4>1, <4>2
      <4> HIDE DEF Moved, Filled, target, moves, Left
      <4> QED
        BY <3>2, <4>3
    <3> QED
      BY <3>1, <3>2
  <2> HIDE DEF Moved, Filled, target, moves, D
  <2> QED
    BY <2>1
<1>11. Is(after)
  <2> HIDE DEF Is
  <2> QED
    BY <1>10 DEF after
<1>12. after = h
  <2> HIDE DEF Moved, Filled, target, moves, D, f
  <2>1. \A n \in 0 .. moves - 1 : after[n] = h[n] => after[n + 1] = h[n + 1]
    <3> TAKE n \in 0 .. moves - 1
    <3> HAVE after[n] = h[n]
    <3>1. n + 1 \in 0 .. moves /\ n + 1 # 0 /\ (n + 1) - 1 = n
      BY <1>1
    <3> DEFINE m == n + 1
    <3>2. m \in 0 .. moves /\ m # 0 /\ m - 1 = n
      BY <3>1
    <3> HIDE DEF m
    <3>3. after[m] = IF PayloadSize(Filled(after[m - 1])) >= target THEN after[m - 1]
                     ELSE Moved(after[m - 1])
      BY <1>11, <3>2
    <3>4. h[m] = IF PayloadSize(Filled(h[m - 1])) >= target THEN h[m - 1] ELSE Moved(h[m - 1])
      BY <1>10, <3>2
    <3>5. after[m - 1] = h[m - 1]
      BY <3>2
    <3> QED
      BY <3>3, <3>4, <3>5 DEF m
  <2>2. after[0] = h[0]
    BY <1>1, <1>10, <1>11
  <2>3. after = [n \in 0 .. moves |-> after[n]] /\ h = [n \in 0 .. moves |-> h[n]]
    BY <1>10, <1>11
  <2> HIDE DEF Is
  <2> QED
    BY <1>1, <2>1, <2>2, <2>3, SameSteps, ZenonT(40)
<1>13. /\ b.first = h[moves].first /\ b.last = h[moves].last
       /\ PayloadSize(Filled(h[moves])) >= target => b.ok
  <2> HIDE DEF Is, D, f, moves, Filled, target
  <2> QED
    BY <1>0, <1>12
<1>14. ASSUME NEW n \in 1 .. moves
       PROVE  /\ h[n] = h[n - 1] \/ (Source(h[n - 1]) # <<>> /\ h[n] = Moved(h[n - 1]))
              /\ IF PayloadSize(Filled(h[n - 1])) >= target THEN h[n] = h[n - 1]
                 ELSE h[n] = Moved(h[n - 1])
  <2>1. n - 1 \in 0 .. moves
    BY <1>1
  <2>2. Left(n - 1)
    BY <1>9, <2>1
  <2>3. h[n] = IF PayloadSize(Filled(h[n - 1])) >= target THEN h[n - 1] ELSE Moved(h[n - 1])
    BY <1>8, <2>2
  <2>4. Len(Source(h[n - 1])) > 0
    <3>1. Len(Source(h[n - 1])) \in Nat
      BY <1>2, <2>1
    <3> HIDE DEF Source, moves
    <3> QED
      BY <1>1, <2>2, <3>1
  <2>5. Source(h[n - 1]) # <<>>
    <3> HIDE DEF Source
    <3> QED
      BY <2>4
  <2> HIDE DEF Source, Moved, Filled, target
  <2> QED
    BY <2>3, <2>5
<1> HIDE DEF Is, f, Left
<1> DEFINE N == moves
<1>15. \A s : /\ Source(s) = Giving(toFirst, s) /\ Moved(s) = Moving(toFirst, s)
              /\ Filled(s) = Filling(toFirst, s)
  BY DEF Giving, Moving, Handed, Filling
<1>16. N \in Nat /\ h \in [0 .. N -> [first : Sorted, last : Sorted]]
  BY <1>1
<1>17. \A n \in 1 .. N :
          h[n] = h[n - 1] \/ (Giving(toFirst, h[n - 1]) # <<>> /\ h[n] = Moving(toFirst, h[n - 1]))
  <2> HIDE DEF Source, Moved, Filled, target
  <2> QED
    BY <1>14, <1>15
<1> DEFINE tf == toFirst
<1>18. tf \in BOOLEAN
  OBVIOUS
<1>19. last = <<>> => tf = (PayloadSize(first) < PayloadSize(<<>>))
  OBVIOUS
<1>20. h[0] = [first |-> first, last |-> last]
  BY <1>7
<1>23. target = Halfway(first, last)
  BY DEF Halfway
<1>24. N = Len(Giving(toFirst, h[0]))
  <2>1. Giving(toFirst, h[0]) = IF toFirst THEN last ELSE first
    BY <1>20 DEF Giving
  <2> QED
    BY <2>1
<1>25. \A n \in 1 .. N :
          IF PayloadSize(Filling(toFirst, h[n - 1])) >= Halfway(first, last) THEN h[n] = h[n - 1]
          ELSE h[n] = Moving(toFirst, h[n - 1])
  <2> HIDE DEF Source, Moved, Filled, target
  <2> QED
    BY <1>14, <1>15, <1>23
<1> HIDE DEF N, Source, Moved, D, Filled, target
<1>21. b.first = h[N].first /\ b.last = h[N].last
  BY <1>13 DEF N
<1>26. PayloadSize(Filling(toFirst, h[N])) >= Halfway(first, last) => b.ok
  BY <1>13, <1>15, <1>23 DEF N
<1>22. Run(first, last, b, tf, N, h)
  BY <1>16, <1>17, <1>19, <1>20, <1>21 DEF Run
<1>27. Stops(first, last, b, tf, N, h)
  BY <1>24, <1>25, <1>26 DEF Stops
<1> HIDE DEF tf
<1> QED
  BY <1>16, <1>18, <1>22, <1>27

\* balance: both pages stay sorted and get no key that neither had.
LEMMA BalancedSorted ==
    ASSUME NEW first \in Sorted, NEW last \in Sorted, NEW b, b = BalanceLeaves(first, last)
    PROVE  /\ b.first \in Sorted /\ b.last \in Sorted
           /\ KeySet(b.first) \cup KeySet(b.last) \subseteq KeySet(first) \cup KeySet(last)
<1>0. PICK toFirst \in BOOLEAN, N \in Nat : \E h : Run(first, last, b, toFirst, N, h)
  BY BalanceSteps
<1>1. PICK h : Run(first, last, b, toFirst, N, h)
  BY <1>0
<1>2. /\ h \in [0 .. N -> [first : Sorted, last : Sorted]]
      /\ h[0] = [first |-> first, last |-> last]
      /\ \A n \in 1 .. N :
            \/ h[n] = h[n - 1]
            \/ Giving(toFirst, h[n - 1]) # <<>> /\ h[n] = Moving(toFirst, h[n - 1])
      /\ b.first = h[N].first /\ b.last = h[N].last
  BY <1>1 DEF Run
<1> DEFINE U == KeySet(first) \cup KeySet(last)
           Known(s) == KeySet(s.first) \subseteq U /\ KeySet(s.last) \subseteq U
           S == {n \in 0 .. N : Known(h[n])}
<1>3. ASSUME NEW s \in [first : Sorted, last : Sorted], Known(s), Giving(toFirst, s) # <<>>
      PROVE  Known(Moving(toFirst, s))
  <2>1. s.first \in Sorted /\ s.last \in Sorted
    OBVIOUS
  <2> HIDE DEF U
  <2>2. CASE toFirst
    <3> DEFINE t == Handed(s.first, s.last[1])
    <3>1. s.last # <<>> /\ Moving(toFirst, s) = [first |-> t, last |-> Tail(s.last)]
      BY <1>3, <2>2 DEF Giving, Moving
    <3>2. /\ KeySet(Tail(s.last)) \subseteq KeySet(s.last)
          /\ s.last[1] \in Record /\ s.last[1].key \in KeySet(s.last)
      BY <2>1, <3>1, EndsSorted
    <3>3. KeySet(t) \subseteq KeySet(s.first) \cup {s.last[1].key}
      BY <2>1, <3>2, TakenSorted DEF Handed
    <3> HIDE DEF t
    <3>4. KeySet(t) \subseteq U /\ KeySet(Tail(s.last)) \subseteq U
      BY <1>3, <3>2, <3>3
    <3> QED
      BY <3>1, <3>4
  <2>3. CASE ~toFirst
    <3> DEFINE t == Handed(s.last, Last(s.first))
    <3>1. s.first # <<>> /\ Moving(toFirst, s) = [first |-> Front(s.first), last |-> t]
      BY <1>3, <2>3 DEF Giving, Moving
    <3>2. /\ KeySet(Front(s.first)) \subseteq KeySet(s.first)
          /\ Last(s.first) \in Record /\ Last(s.first).key \in KeySet(s.first)
      BY <2>1, <3>1, EndsSorted
    <3>3. KeySet(t) \subseteq KeySet(s.last) \cup {Last(s.first).key}
      BY <2>1, <3>2, TakenSorted DEF Handed
    <3> HIDE DEF t
    <3>4. KeySet(t) \subseteq U /\ KeySet(Front(s.first)) \subseteq U
      BY <1>3, <3>2, <3>3
    <3> QED
      BY <3>1, <3>4
  <2> QED
    BY <2>2, <2>3
<1>4. 0 \in S
  <2>1. Known(h[0])
    BY <1>2
  <2> HIDE DEF Known
  <2> QED
    BY <2>1
<1>5. \A n \in 0 .. N - 1 : n \in S => n + 1 \in S
  <2> TAKE n \in 0 .. N - 1
  <2> HAVE n \in S
  <2> DEFINE m == n + 1
  <2>1. m \in 1 .. N /\ m - 1 = n /\ m \in 0 .. N
    OBVIOUS
  <2>2. h[n] \in [first : Sorted, last : Sorted] /\ Known(h[n])
    BY <1>2
  <2> HIDE DEF m, Known
  <2>3. h[m] = h[n] \/ (Giving(toFirst, h[n]) # <<>> /\ h[m] = Moving(toFirst, h[n]))
    BY <1>2, <2>1
  <2>4. Known(h[m])
    BY <1>3, <2>2, <2>3
  <2>5. m \in S
    BY <2>1, <2>4
  <2> QED
    BY <2>5 DEF m
<1>6. N \in S
  <2>1. \A n \in 0 .. N : n \in S
    <3> HIDE DEF S
    <3> QED
      BY <1>4, <1>5, UpTo
  <2> QED
    BY <2>1
<1>7. h[N] \in [first : Sorted, last : Sorted] /\ Known(h[N])
  BY <1>2, <1>6
<1>8. b.first = h[N].first /\ b.last = h[N].last
  BY <1>2
<1> QED
  BY <1>7, <1>8

\* Where balance's assertions hold, the first key of the last page parts the two.
LEMMA BalancedApart ==
    ASSUME NEW b, b.first \in Sorted, b.last \in Sorted, BalanceOk(b)
    PROVE  /\ b.last # <<>> /\ b.last[1].key \in KeySet(b.last) /\ b.last[1].key \in Nat \ {0}
           /\ \A k \in KeySet(b.first) : k < b.last[1].key
           /\ \A k \in KeySet(b.last) : b.last[1].key <= k
<1> DEFINE mid == b.last[1].key
<1>1. b.last # <<>> /\ (b.first # <<>> => Last(b.first).key < mid)
  BY DEF BalanceOk
<1>2. b.last[1] \in Record /\ mid \in KeySet(b.last) /\ \A k \in KeySet(b.last) : mid <= k
  BY <1>1, EndsSorted
<1>3. mid \in Nat \ {0}
  BY <1>2, KeysAreNumbers
<1>4. ASSUME NEW k \in KeySet(b.first) PROVE k < mid
  <2>1. b.first # <<>>
    BY DEF KeySet
  <2>2. k <= Last(b.first).key /\ Last(b.first) \in Record
    BY <2>1, EndsSorted
  <2>3. Last(b.first).key \in Nat
    BY <2>2, KeysAreNumbers
  <2>4. k \in Nat
    BY SortedShape
  <2> HIDE DEF mid
  <2> QED
    BY <1>1, <1>3, <2>1, <2>2, <2>3, <2>4
<1> QED
  BY <1>1, <1>2, <1>3, <1>4

-----------------------------------------------------------------------------
(* The shape of a tree                                                     *)

\* The range of a page and of the one that has just been split off it.
Whole(c, range) ==
    [p \in PageNo |-> IF p = c.front THEN range[p] \cup range[c.back] ELSE range[p]]

\* Every page in use has one parent, but for the root and what was split off.
ParentsOK(used, kids, r, c) ==
    /\ \A p, q \in used : p # q => kids[p] \cap kids[q] = {}
    /\ \A k \in PageNo : (\E p \in used : k \in kids[p]) <=> k \in used \ {r, c.back}

LevelsOK(used, kids, level) == \A p \in used : \A k \in kids[p] : level[p] = level[k] + 1

RootOK(used, r, c, range, level) ==
    /\ r \in used /\ Whole(c, range)[r] = Nat
    /\ \A p \in used \ {r} : level[p] < level[r] \/ (p = c.back /\ r = c.front)

Apart(used, range, level) ==
    \A p, q \in used : p # q /\ level[p] = level[q] => range[p] \cap range[q] = {}

\* What a split hands to the page above.
SplitOK(used, r, c, range, level) ==
    \/ c = NoCarry
    \/ /\ c \in [key : Nat, front : used, back : used \ {r}]
       /\ c.front # c.back /\ level[c.front] = level[c.back]
       /\ \A k \in range[c.front] : k < c.key
       /\ \A k \in range[c.back] : c.key <= k

\* The pages in use, their children, ranges and levels.
Shaped(used, kids, r, c, range, level) ==
    /\ used \subseteq PageNo \ {0} /\ kids \in [PageNo -> SUBSET PageNo] /\ r \in PageNo
    /\ range \in [PageNo -> SUBSET Nat] /\ level \in [PageNo -> Nat]
    /\ ParentsOK(used, kids, r, c) /\ LevelsOK(used, kids, level)
    /\ RootOK(used, r, c, range, level) /\ Apart(used, range, level)
    /\ SplitOK(used, r, c, range, level)

\* What a split does to the ranges and the levels, and what it hands to the page above.
SplitRange(range, p, no, key) ==
    [range EXCEPT ![p] = Below(range[p], key), ![no] = From(range[p], key)]
SplitLevel(level, p, no) == [level EXCEPT ![no] = level[p]]
Sent(key, front, back)   == [key |-> key, front |-> front, back |-> back]

\* What the other changes do to them.
RootRange(range, no)             == [range EXCEPT ![no] = Nat]
RootLevel(level, r, no)          == [level EXCEPT ![no] = level[r] + 1]
MergedRange(range, f, b)         == [range EXCEPT ![f] = range[f] \cup range[b]]
BalancedRange(range, f, b, key)  ==
    [range EXCEPT ![f] = Below(range[f] \cup range[b], key), ![b] = From(range[f] \cup range[b], key)]

\* The range of a page that has not been split is its own.
LEMMA WholeOf ==
    ASSUME NEW c, NEW range, NEW p \in PageNo
    PROVE  /\ p # c.front => Whole(c, range)[p] = range[p]
           /\ p = c.front => Whole(c, range)[p] = range[p] \cup range[c.back]
           /\ c = NoCarry => Whole(c, range)[p] = range[p]
<1>1. /\ p # c.front => Whole(c, range)[p] = range[p]
      /\ p = c.front => Whole(c, range)[p] = range[p] \cup range[c.back]
  BY DEF Whole
<1>2. c = NoCarry => c.front = c.back
  BY DEF NoCarry
<1> QED
  BY <1>1, <1>2

LEMMA WholeNone == \A range : \A p \in PageNo : Whole(NoCarry, range)[p] = range[p]
  BY WholeOf

\* A page that has just been split, or one above it, stands for its old range.
LEMMA ShapeSplit ==
    ASSUME NEW used, NEW kids, NEW r, NEW c, NEW range, NEW level,
           Shaped(used, kids, r, c, range, level),
           NEW p \in used, NEW no \in PageNo \ {0}, no \notin used, NEW key \in Nat,
           c = NoCarry \/ c.front \in kids[p],
           NEW new \in [PageNo -> SUBSET PageNo],
           new[p] \cup new[no] = kids[p] \cup (IF c = NoCarry THEN {} ELSE {c.back}),
           new[p] \cap new[no] = {},
           \A q \in PageNo : q # p /\ q # no => new[q] = kids[q],
           NEW c2, c2 = Sent(key, p, no),
           NEW range2,
           range2 = SplitRange(range, p, no, key),
           NEW level2, level2 = SplitLevel(level, p, no)
    PROVE  Shaped(used \cup {no}, new, r, c2, range2, level2)
<1> /\ c2 = [key |-> key, front |-> p, back |-> no] /\ level2 = [level EXCEPT ![no] = level[p]]
    /\ range2 = [range EXCEPT ![p] = Below(range[p], key), ![no] = From(range[p], key)]
  BY DEF Sent, SplitRange, SplitLevel
<1> DEFINE added == IF c = NoCarry THEN {} ELSE {c.back}
           now == used \cup {no}
<1>1. /\ used \subseteq PageNo \ {0} /\ kids \in [PageNo -> SUBSET PageNo] /\ r \in PageNo
      /\ range \in [PageNo -> SUBSET Nat] /\ level \in [PageNo -> Nat]
      /\ ParentsOK(used, kids, r, c) /\ LevelsOK(used, kids, level)
      /\ RootOK(used, r, c, range, level) /\ Apart(used, range, level)
      /\ SplitOK(used, r, c, range, level)
  BY DEF Shaped
<1>2. p \in PageNo /\ p # no /\ p # 0
  BY <1>1
<1>3. /\ range2 \in [PageNo -> SUBSET Nat]
      /\ range2[p] = Below(range[p], key) /\ range2[no] = From(range[p], key)
      /\ \A q \in PageNo : q # p /\ q # no => range2[q] = range[q]
  BY <1>1, <1>2 DEF Below, From
<1>4. /\ level2 \in [PageNo -> Nat] /\ level2[no] = level[p]
      /\ \A q \in PageNo : q # no => level2[q] = level[q]
  BY <1>1, <1>2
<1>5. /\ \A k \in range[p] : k \in range2[p] \/ k \in range2[no]
      /\ \A k \in range2[p] : k \in range[p] /\ k < key /\ k \in Nat
      /\ \A k \in range2[no] : k \in range[p] /\ key <= k /\ k \in Nat
  <2>1. range[p] \subseteq Nat
    BY <1>1, <1>2
  <2>2. \A k \in range[p] : k < key \/ key <= k
    BY <2>1
  <2> QED
    BY <1>3, <2>1, <2>2 DEF Below, From
<1>6. c # NoCarry => /\ c.front \in used /\ c.back \in used /\ c.back # r /\ c.front # c.back
                     /\ level[c.front] = level[c.back] /\ c.front # r
  <2>1. c # NoCarry => /\ c.front \in used /\ c.back \in used /\ c.back # r /\ c.front # c.back
                       /\ level[c.front] = level[c.back]
    BY <1>1 DEF SplitOK
  <2>2. c # NoCarry => c.front # r
    BY <1>1, <2>1 DEF ParentsOK
  <2> QED
    BY <2>1, <2>2
<1>7. \A q \in used : \A k \in kids[q] : k \in used /\ k # r /\ k # c.back
  BY <1>1 DEF ParentsOK
<1>8. \A k \in new[p] \cup new[no] : k \in kids[p] \/ (c # NoCarry /\ k = c.back)
  OBVIOUS
<1>9. \A k \in new[p] \cup new[no] : k \in used /\ k # r
  BY <1>6, <1>7, <1>8
<1>10. ParentsOK(now, new, r, c2)
  <2>1. ASSUME NEW a \in now, NEW b \in now, a # b
        PROVE  new[a] \cap new[b] = {}
    <3>1. a \in {p, no} /\ b \in {p, no} => new[a] \cap new[b] = {}
      BY <2>1
    <3>2. \A x \in now, y \in now : x \in {p, no} /\ y \notin {p, no} => new[x] \cap new[y] = {}
      <4> TAKE x \in now, y \in now
      <4> HAVE x \in {p, no} /\ y \notin {p, no}
      <4>1. y \in used /\ y # p /\ new[y] = kids[y]
        BY <1>1
      <4>2. kids[y] \cap kids[p] = {}
        BY <1>1, <4>1 DEF ParentsOK
      <4>3. c.back \notin kids[y]
        BY <1>7, <4>1
      <4>4. new[x] \subseteq new[p] \cup new[no]
        OBVIOUS
      <4> QED
        BY <1>8, <4>1, <4>2, <4>3, <4>4
    <3>3. a \notin {p, no} /\ b \notin {p, no} => new[a] \cap new[b] = {}
      BY <1>1, <2>1 DEF ParentsOK
    <3>4. new[a] \cap new[b] = new[b] \cap new[a]
      OBVIOUS
    <3> QED
      BY <3>1, <3>2, <3>3, <3>4
  <2>2. ASSUME NEW k \in PageNo, NEW a \in now, k \in new[a]
        PROVE  k \in now \ {r, c2.back}
    <3>1. k \in used /\ k # r
      <4>1. CASE a \in {p, no}
        BY <1>9, <2>2, <4>1
      <4>2. CASE a \notin {p, no}
        BY <1>1, <1>7, <2>2, <4>2
      <4> QED
        BY <4>1, <4>2
    <3> QED
      BY <3>1
  <2>3. ASSUME NEW k \in PageNo, k \in now \ {r, c2.back}
        PROVE  \E a \in now : k \in new[a]
    <3>1. k \in used /\ k # r
      BY <2>3
    <3>2. CASE k = c.back /\ c # NoCarry
      <4>1. k \in new[p] \cup new[no]
        BY <3>2
      <4> QED
        BY <4>1
    <3>3. CASE k # c.back
      <4>1. PICK a \in used : k \in kids[a]
        BY <1>1, <3>1, <3>3 DEF ParentsOK
      <4>2. CASE a = p
        <5>1. k \in new[p] \cup new[no]
          BY <4>1, <4>2
        <5> QED
          BY <5>1
      <4>3. CASE a # p
        BY <1>1, <4>1, <4>3
      <4> QED
        BY <4>2, <4>3
    <3>4. c = NoCarry => k # c.back
      BY <1>1, <3>1 DEF NoCarry
    <3> QED
      BY <3>2, <3>3, <3>4
  <2> QED
    BY <2>1, <2>2, <2>3 DEF ParentsOK
<1>11. LevelsOK(now, new, level2)
  <2>1. ASSUME NEW a \in now, NEW k \in new[a] PROVE level2[a] = level2[k] + 1
    <3>1. CASE a \in {p, no}
      <4>1. level2[a] = level[p]
        BY <1>2, <1>4, <3>1
      <4>2. k \in used /\ level2[k] = level[k]
        BY <1>1, <1>4, <1>9, <3>1
      <4>3. CASE k \in kids[p]
        BY <1>1, <4>1, <4>2, <4>3 DEF LevelsOK
      <4>4. CASE c # NoCarry /\ k = c.back
        <5>1. level[p] = level[c.front] + 1
          BY <1>1, <4>4 DEF LevelsOK
        <5> QED
          BY <1>6, <4>1, <4>2, <4>4, <5>1
      <4> QED
        BY <1>8, <3>1, <4>3, <4>4
    <3>2. CASE a \notin {p, no}
      <4>1. a \in used /\ a \in PageNo /\ a # no /\ k \in kids[a]
        BY <1>1, <3>2
      <4>2. k \in used /\ k \in PageNo /\ k # no
        BY <1>1, <1>7, <4>1
      <4>3. level2[a] = level[a] /\ level2[k] = level[k]
        BY <1>4, <4>1, <4>2
      <4> QED
        BY <1>1, <4>1, <4>3 DEF LevelsOK
    <3> QED
      BY <3>1, <3>2
  <2> QED
    BY <2>1 DEF LevelsOK
<1>12. RootOK(now, r, c2, range2, level2)
  <2>1. r \in used /\ Whole(c, range)[r] = Nat /\ r # no
    BY <1>1 DEF RootOK
  <2>2. range[r] = Nat
    <3>1. c = NoCarry \/ r # c.front
      BY <1>6
    <3> QED
      BY <1>1, <2>1, <3>1, WholeOf
  <2>3. Whole(c2, range2)[r] = Nat
    <3>0. c2.front = p /\ c2.back = no /\ r \in PageNo
      BY <1>1
    <3>1. CASE r = p
      <4>1. Whole(c2, range2)[r] = range2[p] \cup range2[no]
        BY <3>0, <3>1 DEF Whole
      <4>2. range2[p] \cup range2[no] = range[p]
        BY <1>5
      <4> QED
        BY <2>2, <3>1, <4>1, <4>2
    <3>2. CASE r # p
      <4>1. Whole(c2, range2)[r] = range2[r]
        BY <3>0, <3>2 DEF Whole
      <4> QED
        BY <1>1, <1>3, <2>1, <2>2, <3>2, <4>1
    <3> QED
      BY <3>1, <3>2
  <2>4. \A q \in used \ {r} : level[q] < level[r]
    <3>1. \A q \in used \ {r} : level[q] < level[r] \/ (q = c.back /\ r = c.front)
      BY <1>1 DEF RootOK
    <3>2. c # NoCarry => r # c.front
      BY <1>6
    <3>3. c = NoCarry => c.back = 0 /\ 0 \notin used
      BY <1>1 DEF NoCarry
    <3> QED
      BY <3>1, <3>2, <3>3
  <2>5. ASSUME NEW q \in now \ {r}
        PROVE  level2[q] < level2[r] \/ (q = c2.back /\ r = c2.front)
    <3>1. level2[r] = level[r]
      BY <1>1, <1>4, <2>1
    <3>2. CASE q = no
      <4>1. r = p \/ level[p] < level[r]
        BY <2>4
      <4> QED
        BY <1>4, <3>1, <3>2, <4>1
    <3>3. CASE q # no
      <4>1. q \in used \ {r} /\ level2[q] = level[q]
        BY <1>1, <1>4, <3>3
      <4> QED
        BY <2>4, <3>1, <4>1
    <3> QED
      BY <3>2, <3>3
  <2> QED
    BY <2>1, <2>3, <2>5 DEF RootOK
<1>13. Apart(now, range2, level2)
  <2>1. ASSUME NEW a \in now, NEW b \in now, a # b, level2[a] = level2[b],
               NEW k, k \in range2[a], k \in range2[b]
        PROVE  FALSE
    <3>1. CASE a \in {p, no} /\ b \in {p, no}
      <4>1. (a = p /\ b = no) \/ (a = no /\ b = p)
        BY <2>1, <3>1
      <4>2. k < key /\ key <= k /\ k \in Nat
        BY <1>5, <2>1, <4>1
      <4> QED
        BY <4>2
    <3>2. ASSUME NEW x \in now, NEW y \in now, level2[x] = level2[y], x \in {p, no}, y \notin {p, no},
                 k \in range2[x], k \in range2[y]
          PROVE  FALSE
      <4>1. k \in range[p]
        BY <1>5, <3>2
      <4>2. y \in used /\ y # p /\ k \in range[y]
        BY <1>1, <1>3, <3>2
      <4>3. level[y] = level[p]
        BY <1>1, <1>2, <1>4, <3>2
      <4> QED
        BY <1>1, <4>1, <4>2, <4>3 DEF Apart
    <3>3. CASE a \notin {p, no} /\ b \notin {p, no}
      <4>1. a \in used /\ b \in used /\ k \in range[a] /\ k \in range[b] /\ level[a] = level[b]
        BY <1>1, <1>3, <1>4, <2>1, <3>3
      <4> QED
        BY <1>1, <2>1, <4>1 DEF Apart
    <3> QED
      BY <2>1, <3>1, <3>2, <3>3
  <2> QED
    BY <2>1 DEF Apart
<1>14. SplitOK(now, r, c2, range2, level2)
  <2>1. c2 \in [key : Nat, front : now, back : now \ {r}]
    <3>1. r # no
      BY <1>1 DEF RootOK
    <3> QED
      BY <3>1
  <2>2. c2.front = p /\ c2.back = no /\ c2.key = key
    OBVIOUS
  <2>3. level2[p] = level2[no]
    BY <1>2, <1>4
  <2> QED
    BY <1>2, <1>5, <2>1, <2>2, <2>3 DEF SplitOK
<1>15. now \subseteq PageNo \ {0}
  BY <1>1
<1> QED
  BY <1>1, <1>3, <1>4, <1>10, <1>11, <1>12, <1>13, <1>14, <1>15 DEF Shaped

\* The page above takes in what was split off.
LEMMA ShapeAbsorb ==
    ASSUME NEW used, NEW kids, NEW r, NEW c, NEW range, NEW level,
           Shaped(used, kids, r, c, range, level),
           c # NoCarry, NEW p \in used, c.front \in kids[p],
           NEW new \in [PageNo -> SUBSET PageNo], new[p] = kids[p] \cup {c.back},
           \A q \in PageNo : q # p => new[q] = kids[q]
    PROVE  Shaped(used, new, r, NoCarry, range, level)
<1>1. /\ used \subseteq PageNo \ {0} /\ kids \in [PageNo -> SUBSET PageNo] /\ r \in PageNo
      /\ range \in [PageNo -> SUBSET Nat] /\ level \in [PageNo -> Nat]
      /\ ParentsOK(used, kids, r, c) /\ LevelsOK(used, kids, level)
      /\ RootOK(used, r, c, range, level) /\ Apart(used, range, level)
      /\ SplitOK(used, r, c, range, level)
  BY DEF Shaped
<1>2. /\ c.front \in used /\ c.back \in used /\ c.back # r /\ c.front # c.back
      /\ level[c.front] = level[c.back]
  BY <1>1 DEF SplitOK
<1>3. c.front # r
  BY <1>1, <1>2 DEF ParentsOK
<1>4. \A q \in used : \A k \in kids[q] : k \in used /\ k # r /\ k # c.back
  BY <1>1 DEF ParentsOK
<1>5. NoCarry.back = 0 /\ NoCarry.front = 0
  BY DEF NoCarry
<1>6. ParentsOK(used, new, r, NoCarry)
  <2>1. ASSUME NEW a \in used, NEW b \in used, a # b
        PROVE  new[a] \cap new[b] = {}
    <3>1. kids[a] \cap kids[b] = {}
      BY <1>1, <2>1 DEF ParentsOK
    <3>2. c.back \notin kids[a] /\ c.back \notin kids[b]
      BY <1>4
    <3>3. /\ a = p => new[a] = kids[a] \cup {c.back}
          /\ a # p => new[a] = kids[a]
          /\ b = p => new[b] = kids[b] \cup {c.back}
          /\ b # p => new[b] = kids[b]
      BY <1>1
    <3> QED
      BY <2>1, <3>1, <3>2, <3>3
  <2>2. ASSUME NEW k \in PageNo, NEW a \in used, k \in new[a]
        PROVE  k \in used \ {r, 0}
    <3>1. k \in kids[a] \/ k = c.back
      BY <1>1, <2>2
    <3> QED
      BY <1>1, <1>2, <1>4, <3>1
  <2>3. ASSUME NEW k \in PageNo, k \in used \ {r, 0}
        PROVE  \E a \in used : k \in new[a]
    <3>1. CASE k = c.back
      BY <3>1
    <3>2. CASE k # c.back
      <4>1. PICK a \in used : k \in kids[a]
        BY <1>1, <2>3, <3>2 DEF ParentsOK
      <4>2. k \in new[a]
        BY <1>1, <4>1
      <4> QED
        BY <4>2
    <3> QED
      BY <3>1, <3>2
  <2> QED
    BY <1>5, <2>1, <2>2, <2>3 DEF ParentsOK
<1>7. LevelsOK(used, new, level)
  <2>1. ASSUME NEW a \in used, NEW k \in new[a] PROVE level[a] = level[k] + 1
    <3>1. CASE k \in kids[a]
      BY <1>1, <3>1 DEF LevelsOK
    <3>2. CASE k \notin kids[a]
      <4>1. a = p /\ k = c.back
        BY <1>1, <3>2
      <4>2. level[p] = level[c.front] + 1
        BY <1>1 DEF LevelsOK
      <4> QED
        BY <1>2, <4>1, <4>2
    <3> QED
      BY <3>1, <3>2
  <2> QED
    BY <2>1 DEF LevelsOK
<1>8. RootOK(used, r, NoCarry, range, level)
  <2>1. Whole(c, range)[r] = range[r]
    BY <1>1, <1>3, WholeOf
  <2>2. Whole(NoCarry, range)[r] = range[r]
    BY <1>1, WholeNone
  <2> QED
    BY <1>1, <1>3, <2>1, <2>2 DEF RootOK
<1>9. SplitOK(used, r, NoCarry, range, level)
  BY DEF SplitOK
<1> QED
  BY <1>1, <1>6, <1>7, <1>8, <1>9 DEF Shaped

\* A new root above the two halves of the old one.
LEMMA ShapeNewRoot ==
    ASSUME NEW used, NEW kids, NEW r, NEW c, NEW range, NEW level,
           Shaped(used, kids, r, c, range, level),
           c # NoCarry, c.front = r, NEW no \in PageNo \ {0}, no \notin used,
           NEW new \in [PageNo -> SUBSET PageNo], new[no] = {c.front, c.back},
           \A q \in PageNo : q # no => new[q] = kids[q],
           NEW range2, range2 = RootRange(range, no),
           NEW level2, level2 = RootLevel(level, r, no)
    PROVE  Shaped(used \cup {no}, new, no, NoCarry, range2, level2)
<1> range2 = [range EXCEPT ![no] = Nat] /\ level2 = [level EXCEPT ![no] = level[r] + 1]
  BY DEF RootRange, RootLevel
<1> DEFINE now == used \cup {no}
<1>1. /\ used \subseteq PageNo \ {0} /\ kids \in [PageNo -> SUBSET PageNo] /\ r \in PageNo
      /\ range \in [PageNo -> SUBSET Nat] /\ level \in [PageNo -> Nat]
      /\ ParentsOK(used, kids, r, c) /\ LevelsOK(used, kids, level)
      /\ RootOK(used, r, c, range, level) /\ Apart(used, range, level)
      /\ SplitOK(used, r, c, range, level)
  BY DEF Shaped
<1>2. /\ c.front \in used /\ c.back \in used /\ c.back # r /\ c.front # c.back
      /\ level[c.front] = level[c.back]
  BY <1>1 DEF SplitOK
<1>3. /\ range2 \in [PageNo -> SUBSET Nat] /\ range2[no] = Nat
      /\ \A q \in PageNo : q # no => range2[q] = range[q]
  BY <1>1
<1>4. level[r] + 1 \in Nat
  BY <1>1
<1>5. /\ level2 \in [PageNo -> Nat] /\ level2[no] = level[r] + 1
      /\ \A q \in PageNo : q # no => level2[q] = level[q]
  BY <1>1, <1>4
<1>6. \A q \in used : \A k \in kids[q] : k \in used /\ k # r /\ k # c.back
  BY <1>1 DEF ParentsOK
<1>7. NoCarry.back = 0 /\ NoCarry.front = 0
  BY DEF NoCarry
<1>8. \A q \in used : q # no /\ q \in PageNo /\ new[q] = kids[q] /\ level2[q] = level[q] /\ range2[q] = range[q]
  BY <1>1, <1>3, <1>5
<1>9. \A q \in used : level[q] <= level[r]
  <2> TAKE q \in used
  <2>1. level[q] < level[r] \/ q = c.back \/ q = r
    BY <1>1 DEF RootOK
  <2>2. level[q] \in Nat /\ level[r] \in Nat
    BY <1>1
  <2> QED
    BY <1>2, <2>1, <2>2
<1>10. ParentsOK(now, new, no, NoCarry)
  <2>1. ASSUME NEW a \in now, NEW b \in now, a # b
        PROVE  new[a] \cap new[b] = {}
    <3>1. \A x \in used : new[x] \cap new[no] = {}
      BY <1>6, <1>8
    <3>2. CASE a \in used /\ b \in used
      <4>1. kids[a] \cap kids[b] = {}
        BY <1>1, <2>1, <3>2 DEF ParentsOK
      <4> QED
        BY <1>8, <3>2, <4>1
    <3> QED
      BY <2>1, <3>1, <3>2
  <2>2. ASSUME NEW k \in PageNo, NEW a \in now, k \in new[a]
        PROVE  k \in now \ {no, 0}
    <3>1. CASE a = no
      BY <1>1, <1>2, <2>2, <3>1
    <3>2. CASE a # no
      BY <1>1, <1>6, <1>8, <2>2, <3>2
    <3> QED
      BY <3>1, <3>2
  <2>3. ASSUME NEW k \in PageNo, k \in now \ {no, 0}
        PROVE  \E a \in now : k \in new[a]
    <3>1. CASE k = c.back \/ k = r
      <4>1. k \in new[no]
        BY <3>1
      <4> QED
        BY <4>1
    <3>2. CASE k # c.back /\ k # r
      <4>1. PICK a \in used : k \in kids[a]
        BY <1>1, <2>3, <3>2 DEF ParentsOK
      <4>2. k \in new[a]
        BY <1>8, <4>1
      <4> QED
        BY <4>2
    <3> QED
      BY <3>1, <3>2
  <2> QED
    BY <1>7, <2>1, <2>2, <2>3 DEF ParentsOK
<1>11. LevelsOK(now, new, level2)
  <2>1. ASSUME NEW a \in now, NEW k \in new[a] PROVE level2[a] = level2[k] + 1
    <3>1. CASE a = no
      <4>1. k \in used /\ level[k] = level[r]
        BY <1>2, <3>1
      <4> QED
        BY <1>5, <1>8, <3>1, <4>1
    <3>2. CASE a # no
      <4>1. a \in used /\ k \in kids[a] /\ k \in used
        BY <1>6, <1>8, <3>2
      <4> QED
        BY <1>1, <1>8, <4>1 DEF LevelsOK
    <3> QED
      BY <3>1, <3>2
  <2> QED
    BY <2>1 DEF LevelsOK
<1>12. RootOK(now, no, NoCarry, range2, level2)
  <2>1. Whole(NoCarry, range2)[no] = Nat
    BY <1>3, WholeNone
  <2>2. ASSUME NEW q \in now \ {no} PROVE level2[q] < level2[no]
    <3>1. q \in used /\ level2[q] = level[q] /\ level[q] \in Nat /\ level[r] \in Nat
      BY <1>1, <1>8
    <3>2. level[q] <= level[r]
      BY <1>9, <3>1
    <3> QED
      BY <1>5, <3>1, <3>2
  <2> QED
    BY <2>1, <2>2 DEF RootOK
<1>13. Apart(now, range2, level2)
  <2>1. ASSUME NEW a \in now, NEW b \in now, a # b, level2[a] = level2[b]
        PROVE  range2[a] \cap range2[b] = {}
    <3>1. \A x \in used : level2[x] # level2[no]
      <4> TAKE x \in used
      <4>1. level2[x] = level[x] /\ level[x] \in Nat /\ level[r] \in Nat /\ level[x] <= level[r]
        BY <1>1, <1>8, <1>9
      <4> QED
        BY <1>5, <4>1
    <3>2. a \in used /\ b \in used
      BY <2>1, <3>1
    <3> QED
      BY <1>1, <1>8, <2>1, <3>2 DEF Apart
  <2> QED
    BY <2>1 DEF Apart
<1>14. SplitOK(now, no, NoCarry, range2, level2)
  BY DEF SplitOK
<1>15. now \subseteq PageNo \ {0} /\ no \in PageNo
  BY <1>1
<1> QED
  BY <1>3, <1>5, <1>10, <1>11, <1>12, <1>13, <1>14, <1>15 DEF Shaped

\* Two children of a page become one.
LEMMA ShapeMerge ==
    ASSUME NEW used, NEW kids, NEW r, NEW range, NEW level,
           Shaped(used, kids, r, NoCarry, range, level),
           NEW p \in used, NEW f \in kids[p], NEW b \in kids[p], f # b,
           NEW new \in [PageNo -> SUBSET PageNo],
           new[p] = kids[p] \ {b}, new[f] = kids[f] \cup kids[b], new[b] = {},
           \A q \in PageNo : q \notin {p, f, b} => new[q] = kids[q],
           NEW range2, range2 = MergedRange(range, f, b)
    PROVE  Shaped(used \ {b}, new, r, NoCarry, range2, level)
<1> range2 = [range EXCEPT ![f] = range[f] \cup range[b]]
  BY DEF MergedRange
<1> DEFINE now == used \ {b}
<1>1. /\ used \subseteq PageNo \ {0} /\ kids \in [PageNo -> SUBSET PageNo] /\ r \in PageNo
      /\ range \in [PageNo -> SUBSET Nat] /\ level \in [PageNo -> Nat]
      /\ ParentsOK(used, kids, r, NoCarry) /\ LevelsOK(used, kids, level)
      /\ RootOK(used, r, NoCarry, range, level) /\ Apart(used, range, level)
  BY DEF Shaped
<1>2. NoCarry.back = 0 /\ NoCarry.front = 0
  BY DEF NoCarry
<1>3. \A q \in used : \A k \in kids[q] : k \in used /\ k # r
  BY <1>1 DEF ParentsOK
<1>4. /\ f \in used /\ b \in used /\ f # r /\ b # r
      /\ level[p] = level[f] + 1 /\ level[p] = level[b] + 1
  BY <1>1, <1>3 DEF LevelsOK
<1>5. f \in PageNo /\ b \in PageNo /\ p \in PageNo /\ level[f] \in Nat /\ level[b] \in Nat /\ level[p] \in Nat
  BY <1>1, <1>4
<1>6. p # f /\ p # b /\ level[f] = level[b]
  BY <1>4, <1>5
<1>7. range[f] \cup range[b] \in SUBSET Nat
  BY <1>1, <1>5
<1>8. /\ range2 \in [PageNo -> SUBSET Nat] /\ range2[f] = range[f] \cup range[b]
      /\ \A q \in PageNo : q # f => range2[q] = range[q]
  BY <1>1, <1>5, <1>7
<1>9. \A q \in now, k \in PageNo :
         k \in new[q] <=> k # b /\ (k \in kids[q] \/ (q = f /\ k \in kids[b]))
  <2> TAKE q \in now, k \in PageNo
  <2>1. \A x \in used : b \in kids[x] => x = p
    BY <1>1, <1>5 DEF ParentsOK
  <2>2. q \in used /\ q # b /\ q \in PageNo
    BY <1>1
  <2>3. CASE q = p
    BY <1>6, <2>3
  <2>4. CASE q = f
    BY <1>4, <1>6, <2>1, <2>4
  <2>5. CASE q # p /\ q # f
    BY <2>1, <2>2, <2>5
  <2> QED
    BY <2>3, <2>4, <2>5
<1>10. ParentsOK(now, new, r, NoCarry)
  <2>1. ASSUME NEW x \in now, NEW y \in now, x # y
        PROVE  new[x] \cap new[y] = {}
    <3>1. x \in used /\ y \in used /\ x # b /\ y # b /\ new[x] \subseteq PageNo /\ new[y] \subseteq PageNo
      BY <1>1
    <3>2. kids[x] \cap kids[y] = {} /\ kids[x] \cap kids[b] = {} /\ kids[y] \cap kids[b] = {}
      BY <1>1, <1>4, <2>1, <3>1 DEF ParentsOK
    <3>3. ASSUME NEW k \in PageNo, k \in new[x], k \in new[y] PROVE FALSE
      <4>1. k \in kids[x] \/ (x = f /\ k \in kids[b])
        BY <1>9, <3>3
      <4>2. k \in kids[y] \/ (y = f /\ k \in kids[b])
        BY <1>9, <3>3
      <4> QED
        BY <2>1, <3>2, <4>1, <4>2
    <3> QED
      BY <3>1, <3>3
  <2>2. ASSUME NEW k \in PageNo, NEW a \in now, k \in new[a]
        PROVE  k \in now \ {r, 0}
    <3>1. k # b /\ (k \in kids[a] \/ k \in kids[b])
      BY <1>9, <2>2
    <3>2. a \in used /\ b \in used
      BY <1>4
    <3> QED
      BY <1>1, <1>3, <3>1, <3>2
  <2>3. ASSUME NEW k \in PageNo, k \in now \ {r, 0}
        PROVE  \E a \in now : k \in new[a]
    <3>1. PICK a \in used : k \in kids[a]
      BY <1>1, <1>2, <2>3 DEF ParentsOK
    <3>2. CASE a = b
      <4>1. f \in now /\ k \in new[f]
        BY <1>4, <3>1, <3>2
      <4> QED
        BY <4>1
    <3>3. CASE a # b
      <4>1. a \in now /\ k # b
        BY <2>3, <3>3
      <4>2. k \in new[a]
        BY <1>9, <3>1, <4>1
      <4> QED
        BY <4>1, <4>2
    <3> QED
      BY <3>2, <3>3
  <2> QED
    BY <1>2, <2>1, <2>2, <2>3 DEF ParentsOK
<1>11. LevelsOK(now, new, level)
  <2>1. ASSUME NEW a \in now, NEW k \in new[a] PROVE level[a] = level[k] + 1
    <3>1. k \in PageNo /\ a \in used
      BY <1>1
    <3>2. k \in kids[a] \/ (a = f /\ k \in kids[b])
      BY <1>9, <3>1
    <3>3. CASE k \in kids[a]
      BY <1>1, <3>1, <3>3 DEF LevelsOK
    <3>4. CASE a = f /\ k \in kids[b]
      <4>1. level[b] = level[k] + 1
        BY <1>1, <1>4, <3>4 DEF LevelsOK
      <4> QED
        BY <1>6, <3>4, <4>1
    <3> QED
      BY <3>2, <3>3, <3>4
  <2> QED
    BY <2>1 DEF LevelsOK
<1>12. RootOK(now, r, NoCarry, range2, level)
  <2>1. Whole(NoCarry, range)[r] = range[r]
    BY <1>1, WholeNone
  <2>2. Whole(NoCarry, range2)[r] = range2[r]
    BY <1>1, WholeNone, ZenonT(40)
  <2>3. range2[r] = range[r]
    BY <1>1, <1>4, <1>8
  <2> QED
    BY <1>1, <1>4, <2>1, <2>2, <2>3 DEF RootOK
<1>13. Apart(now, range2, level)
  <2>1. ASSUME NEW x \in now, NEW y \in now, x # y, level[x] = level[y],
               NEW k, k \in range2[x], k \in range2[y]
        PROVE  FALSE
    <3>1. x \in used /\ y \in used /\ x # b /\ y # b /\ x \in PageNo /\ y \in PageNo
      BY <1>1
    <3>2. k \in range[x] \/ (x = f /\ k \in range[b])
      BY <1>8, <2>1, <3>1
    <3>3. k \in range[y] \/ (y = f /\ k \in range[b])
      BY <1>8, <2>1, <3>1
    <3>4. \A u \in used, v \in used : u # v /\ level[u] = level[v] => ~(k \in range[u] /\ k \in range[v])
      BY <1>1 DEF Apart
    <3> QED
      BY <1>4, <1>6, <2>1, <3>1, <3>2, <3>3, <3>4
  <2> QED
    BY <2>1 DEF Apart
<1>14. SplitOK(now, r, NoCarry, range2, level)
  BY DEF SplitOK
<1>15. now \subseteq PageNo \ {0}
  BY <1>1
<1> QED
  BY <1>1, <1>8, <1>10, <1>11, <1>12, <1>13, <1>14, <1>15 DEF Shaped

\* Two pages of one level share out anew what they hold together.
LEMMA ShapeBalance ==
    ASSUME NEW used, NEW kids, NEW r, NEW range, NEW level,
           Shaped(used, kids, r, NoCarry, range, level),
           NEW f \in used, NEW b \in used, f # b, level[f] = level[b], f # r, b # r, NEW key \in Nat,
           NEW range2,
           range2 = BalancedRange(range, f, b, key)
    PROVE  Shaped(used, kids, r, NoCarry, range2, level)
<1> range2 = [range EXCEPT ![f] = Below(range[f] \cup range[b], key),
                           ![b] = From(range[f] \cup range[b], key)]
  BY DEF BalancedRange
<1>1. /\ used \subseteq PageNo \ {0} /\ kids \in [PageNo -> SUBSET PageNo] /\ r \in PageNo
      /\ range \in [PageNo -> SUBSET Nat] /\ level \in [PageNo -> Nat]
      /\ ParentsOK(used, kids, r, NoCarry) /\ LevelsOK(used, kids, level)
      /\ RootOK(used, r, NoCarry, range, level) /\ Apart(used, range, level)
  BY DEF Shaped
<1>2. f \in PageNo /\ b \in PageNo /\ range[f] \subseteq Nat /\ range[b] \subseteq Nat
  BY <1>1
<1>3. /\ range2 \in [PageNo -> SUBSET Nat]
      /\ range2[f] = Below(range[f] \cup range[b], key) /\ range2[b] = From(range[f] \cup range[b], key)
      /\ \A q \in PageNo : q # f /\ q # b => range2[q] = range[q]
  <2>1. Below(range[f] \cup range[b], key) \in SUBSET Nat /\ From(range[f] \cup range[b], key) \in SUBSET Nat
    BY <1>2 DEF Below, From
  <2> QED
    BY <1>1, <1>2, <2>1
<1>4. RootOK(used, r, NoCarry, range2, level)
  <2>1. Whole(NoCarry, range)[r] = range[r]
    BY <1>1, WholeNone
  <2>2. Whole(NoCarry, range2)[r] = range2[r]
    BY <1>1, WholeNone
  <2>3. range2[r] = range[r]
    BY <1>1, <1>3
  <2> QED
    BY <1>1, <2>1, <2>2, <2>3 DEF RootOK
<1>5. Apart(used, range2, level)
  <2>1. ASSUME NEW x \in used, NEW y \in used, x # y, level[x] = level[y],
               NEW k, k \in range2[x], k \in range2[y]
        PROVE  FALSE
    <3>0. x \in PageNo /\ y \in PageNo
      BY <1>1
    <3>1. k \in range2[f] => k < key /\ (k \in range[f] \/ k \in range[b]) /\ k \in Nat
      BY <1>2, <1>3 DEF Below
    <3>2. k \in range2[b] => key <= k /\ (k \in range[f] \/ k \in range[b]) /\ k \in Nat
      BY <1>2, <1>3 DEF From
    <3>3. \A u \in used, v \in used : u # v /\ level[u] = level[v] => ~(k \in range[u] /\ k \in range[v])
      BY <1>1 DEF Apart
    <3>4. CASE x \in {f, b} /\ y \in {f, b}
      <4>0. (x = f /\ y = b) \/ (x = b /\ y = f)
        BY <2>1, <3>4
      <4>1. k \in range2[f] /\ k \in range2[b]
        BY <2>1, <4>0
      <4>2. k < key /\ key <= k /\ k \in Nat
        BY <3>1, <3>2, <4>1
      <4> QED
        BY <4>2
    <3>5. CASE x \in {f, b} /\ y \notin {f, b}
      <4>1. k \in range[f] \/ k \in range[b]
        BY <2>1, <3>1, <3>2, <3>5
      <4>2. k \in range[y] /\ level[y] = level[f] /\ level[y] = level[b]
        BY <1>3, <2>1, <3>0, <3>5
      <4> QED
        BY <3>3, <3>5, <4>1, <4>2
    <3>6. CASE x \notin {f, b} /\ y \in {f, b}
      <4>1. k \in range[f] \/ k \in range[b]
        BY <2>1, <3>1, <3>2, <3>6
      <4>2. k \in range[x] /\ level[x] = level[f] /\ level[x] = level[b]
        BY <1>3, <2>1, <3>0, <3>6
      <4> QED
        BY <3>3, <3>6, <4>1, <4>2
    <3>7. CASE x \notin {f, b} /\ y \notin {f, b}
      BY <1>3, <2>1, <3>0, <3>3, <3>7
    <3> QED
      BY <3>4, <3>5, <3>6, <3>7
  <2> QED
    BY <2>1 DEF Apart
<1>6. SplitOK(used, r, NoCarry, range2, level)
  BY DEF SplitOK
<1> QED
  BY <1>1, <1>3, <1>4, <1>5, <1>6 DEF Shaped

\* The only child of the root takes its place.
LEMMA ShapeTop ==
    ASSUME NEW used, NEW kids, NEW r, NEW range, NEW level,
           Shaped(used, kids, r, NoCarry, range, level),
           NEW top, kids[r] = {top}, range[top] = Nat,
           NEW new \in [PageNo -> SUBSET PageNo],
           \A q \in PageNo : q # r => new[q] = kids[q]
    PROVE  Shaped(used \ {r}, new, top, NoCarry, range, level)
<1> DEFINE now == used \ {r}
<1>1. /\ used \subseteq PageNo \ {0} /\ kids \in [PageNo -> SUBSET PageNo] /\ r \in PageNo
      /\ range \in [PageNo -> SUBSET Nat] /\ level \in [PageNo -> Nat]
      /\ ParentsOK(used, kids, r, NoCarry) /\ LevelsOK(used, kids, level)
      /\ RootOK(used, r, NoCarry, range, level) /\ Apart(used, range, level)
  BY DEF Shaped
<1>2. NoCarry.back = 0 /\ NoCarry.front = 0 /\ r # 0
  BY <1>1 DEF NoCarry, RootOK
<1>3. r \in used /\ \A p \in used \ {r} : level[p] < level[r]
  BY <1>1, <1>2 DEF RootOK
<1>4. top \in PageNo /\ top \in used /\ top # r /\ level[r] = level[top] + 1
  BY <1>1, <1>3 DEF ParentsOK, LevelsOK
<1>5. \A q \in now : q \in used /\ q \in PageNo /\ q # r /\ new[q] = kids[q]
  BY <1>1
<1>6. ParentsOK(now, new, top, NoCarry)
  <2>1. ASSUME NEW x \in now, NEW y \in now, x # y PROVE new[x] \cap new[y] = {}
    BY <1>1, <1>5, <2>1 DEF ParentsOK
  <2>2. ASSUME NEW k \in PageNo, NEW a \in now, k \in new[a]
        PROVE  k \in now \ {top, 0}
    <3>1. k \in kids[a]
      BY <1>5, <2>2
    <3>2. k \in used \ {r, 0}
      BY <1>1, <1>2, <1>5, <3>1 DEF ParentsOK
    <3>3. k # top
      <4>1. kids[a] \cap kids[r] = {}
        BY <1>1, <1>3, <1>5 DEF ParentsOK
      <4> QED
        BY <3>1, <4>1
    <3> QED
      BY <3>2, <3>3
  <2>3. ASSUME NEW k \in PageNo, k \in now \ {top, 0}
        PROVE  \E a \in now : k \in new[a]
    <3>1. PICK a \in used : k \in kids[a]
      BY <1>1, <1>2, <2>3 DEF ParentsOK
    <3>2. a # r
      BY <2>3, <3>1
    <3> QED
      BY <1>5, <3>1, <3>2
  <2> QED
    BY <1>2, <2>1, <2>2, <2>3 DEF ParentsOK
<1>7. LevelsOK(now, new, level)
  BY <1>1, <1>5 DEF LevelsOK
<1>8. RootOK(now, top, NoCarry, range, level)
  <2>1. Whole(NoCarry, range)[top] = Nat
    BY <1>4, WholeNone
  <2>2. ASSUME NEW q \in now \ {top} PROVE level[q] < level[top]
    <3>1. q \in used \ {r, 0} /\ q \in PageNo
      BY <1>1
    <3>2. PICK a \in used : q \in kids[a]
      BY <1>1, <1>2, <3>1 DEF ParentsOK
    <3>3. a # r
      BY <2>2, <3>2
    <3>4. level[a] = level[q] + 1 /\ level[a] < level[r]
      BY <1>1, <1>3, <3>2, <3>3 DEF LevelsOK
    <3>5. level[q] \in Nat /\ level[top] \in Nat
      BY <1>1, <1>4, <3>1
    <3> QED
      BY <1>4, <3>4, <3>5
  <2> QED
    BY <1>4, <2>1, <2>2 DEF RootOK
<1>9. Apart(now, range, level)
  BY <1>1, <1>5 DEF Apart
<1>10. SplitOK(now, top, NoCarry, range, level)
  BY DEF SplitOK
<1>11. now \subseteq PageNo \ {0}
  BY <1>1
<1> QED
  BY <1>1, <1>4, <1>6, <1>7, <1>8, <1>9, <1>10, <1>11 DEF Shaped

\* What is known of the levels of a page and its children.
LEMMA ShapeKids ==
    ASSUME NEW used, NEW kids, NEW r, NEW c, NEW range, NEW level,
           Shaped(used, kids, r, c, range, level)
    PROVE  /\ \A p \in used : p \in PageNo /\ p # 0 /\ level[p] \in Nat /\ range[p] \subseteq Nat
           /\ \A p \in used : \A k \in kids[p] :
                 /\ k \in used /\ k # r /\ k # c.back /\ k # p
                 /\ level[p] = level[k] + 1
                 /\ \A q \in used : k \in kids[q] => q = p
           /\ c # NoCarry =>
                 /\ c.front \in used /\ c.back \in used /\ c.front # c.back /\ c.back # r
                 /\ level[c.front] = level[c.back] /\ c.key \in Nat
                 /\ \A k \in range[c.front] : k < c.key
                 /\ \A k \in range[c.back] : c.key <= k
<1>1. /\ used \subseteq PageNo \ {0} /\ range \in [PageNo -> SUBSET Nat] /\ level \in [PageNo -> Nat]
      /\ ParentsOK(used, kids, r, c) /\ LevelsOK(used, kids, level)
      /\ SplitOK(used, r, c, range, level) /\ kids \in [PageNo -> SUBSET PageNo]
  BY DEF Shaped
<1>2. \A p \in used : p \in PageNo /\ p # 0 /\ level[p] \in Nat /\ range[p] \subseteq Nat
  BY <1>1
<1>3. ASSUME NEW p \in used, NEW k \in kids[p]
      PROVE  /\ k \in used /\ k # r /\ k # c.back /\ k # p
             /\ level[p] = level[k] + 1
             /\ \A q \in used : k \in kids[q] => q = p
  <2>1. k \in used /\ k # r /\ k # c.back
    BY <1>1 DEF ParentsOK
  <2>2. level[p] = level[k] + 1
    BY <1>1 DEF LevelsOK
  <2>3. k # p
    BY <1>2, <2>1, <2>2
  <2>4. \A q \in used : k \in kids[q] => q = p
    BY <1>1 DEF ParentsOK
  <2> QED
    BY <2>1, <2>2, <2>3, <2>4
<1>4. c # NoCarry =>
         /\ c.front \in used /\ c.back \in used /\ c.front # c.back /\ c.back # r
         /\ level[c.front] = level[c.back] /\ c.key \in Nat
         /\ \A k \in range[c.front] : k < c.key
         /\ \A k \in range[c.back] : c.key <= k
  BY <1>1 DEF SplitOK
<1> QED
  BY <1>2, <1>3, <1>4

\* What the children hold after a split, as their parents see them.
LEMMA HeldSplit ==
    ASSUME NEW used, NEW kids, NEW r, NEW c, NEW range, NEW level,
           Shaped(used, kids, r, c, range, level),
           NEW p \in used, NEW no \in PageNo \ {0}, no \notin used, NEW key \in Nat,
           c = NoCarry \/ c.front \in kids[p],
           NEW c2, c2 = Sent(key, p, no),
           NEW range2,
           range2 = SplitRange(range, p, no, key)
    PROVE  /\ \A q \in used : \A k \in kids[q] : q # p => Whole(c2, range2)[k] = Whole(c, range)[k]
           /\ \A k \in kids[p] \cup (IF c = NoCarry THEN {} ELSE {c.back}) :
                 Whole(c2, range2)[k] = range[k]
<1> c2 = [key |-> key, front |-> p, back |-> no] /\ range2 = [range EXCEPT ![p] = Below(range[p], key), ![no] = From(range[p], key)]
  BY DEF Sent, SplitRange
<1>1. /\ \A q \in used : q \in PageNo /\ q # 0 /\ level[q] \in Nat /\ range[q] \subseteq Nat
      /\ \A q \in used : \A k \in kids[q] :
            /\ k \in used /\ k # q /\ level[q] = level[k] + 1
            /\ \A x \in used : k \in kids[x] => x = q
      /\ c # NoCarry => c.back \in used /\ level[c.front] = level[c.back] /\ c.front \in used
  BY ShapeKids
<1>2. range \in [PageNo -> SUBSET Nat] /\ p \in PageNo /\ p # no
  BY <1>1 DEF Shaped
<1>3. /\ range2[p] = Below(range[p], key) /\ range2[no] = From(range[p], key)
      /\ \A q \in PageNo : q # p /\ q # no => range2[q] = range[q]
  BY <1>2
<1>4. range2[p] \cup range2[no] = range[p]
  <2>1. range[p] \subseteq Nat
    BY <1>1
  <2>2. \A k \in range[p] : k < key \/ key <= k
    BY <2>1
  <2> QED
    BY <1>3, <2>2 DEF Below, From
<1>5. \A k \in used : Whole(c2, range2)[k] = range[k]
  <2> TAKE k \in used
  <2>1. k \in PageNo /\ k # no /\ c2.front = p /\ c2.back = no
    BY <1>1
  <2>2. CASE k = p
    BY <1>2, <1>4, <2>1, <2>2 DEF Whole
  <2>3. CASE k # p
    <3>1. Whole(c2, range2)[k] = range2[k]
      BY <2>1, <2>3 DEF Whole
    <3> QED
      BY <1>3, <2>1, <2>3, <3>1
  <2> QED
    BY <2>2, <2>3
<1>6. ASSUME NEW q \in used, NEW k \in kids[q], q # p
      PROVE  Whole(c, range)[k] = range[k]
  <2>1. k \in PageNo /\ (c = NoCarry \/ k # c.front)
    BY <1>1, <1>6
  <2> QED
    BY <2>1, WholeOf
<1> QED
  BY <1>1, <1>5, <1>6

\* A page divides its range whatever else is said of other pages.
LEMMA DividesSame ==
    ASSUME NEW P, NEW pg \in InternalPages(P), NEW range, NEW held, NEW new,
           Divides(pg, range, held), \A k \in Kids(pg) : new[k] = held[k]
    PROVE  Divides(pg, range, new)
BY DEF Divides, Kids

LEMMA WholeSame ==
    ASSUME NEW range \in [PageNo -> SUBSET Nat]
    PROVE  Whole(NoCarry, range) = range
BY DEF Whole, NoCarry

-----------------------------------------------------------------------------
(* A tree of pages                                                         *)

LeafPages == [type : {"leaf"}, prev : Nat, next : Nat, recs : Seq(Record)]
FreePages == [type : {"free"}, next : Nat, keys : [Slots -> Nat] \cup {<<>>}, word : Nat]
Pages     == LeafPages \cup InternalPages(PageNo) \cup FreePages \cup {Unused}

UsedIn(pages) == {p \in PageNo : pages[p].type \in {"leaf", "internal"}}
KidsOf(pages) == [p \in PageNo |-> IF pages[p].type = "internal" THEN Kids(pages[p]) ELSE {}]

LeavesOK(pages, range, level) ==
    \A p \in LeavesOf(pages) :
        level[p] = 0 /\ Ascends(pages[p].recs) /\ KeySet(pages[p].recs) \subseteq range[p]

InternalsOK(pages, c, range) ==
    \A p \in InternalsOf(pages) :
        Formed(pages[p]) /\ Divides(pages[p], range[p], Whole(c, range))

Tree(pages, r, c, range, level) ==
    /\ pages \in [PageNo -> Pages]
    /\ LeavesOK(pages, range, level) /\ InternalsOK(pages, c, range)
    /\ Shaped(UsedIn(pages), KidsOf(pages), r, c, range, level)

\* What a page is goes by its type.
LEMMA PageTypes ==
    ASSUME NEW pages \in [PageNo -> Pages]
    PROVE  /\ \A p \in PageNo : pages[p].type \in {"leaf", "internal", "free", "unused"}
           /\ \A p \in PageNo : pages[p].type = "leaf" => pages[p] \in LeafPages
           /\ \A p \in PageNo : pages[p].type = "internal" => pages[p] \in InternalPages(PageNo)
           /\ \A p \in PageNo : pages[p].type = "free" => pages[p] \in FreePages
           /\ \A p \in PageNo : pages[p].type = "unused" => pages[p] = Unused
           /\ KidsOf(pages) \in [PageNo -> SUBSET PageNo]
<1>1. /\ \A x \in LeafPages : x.type = "leaf"
      /\ \A x \in InternalPages(PageNo) : x.type = "internal"
      /\ \A x \in FreePages : x.type = "free"
      /\ Unused.type = "unused"
  BY DEF LeafPages, InternalPages, FreePages, Unused
<1>2. \A p \in PageNo : \/ pages[p] \in LeafPages \/ pages[p] \in InternalPages(PageNo)
                        \/ pages[p] \in FreePages \/ pages[p] = Unused
  BY DEF Pages
<1>3. \A p \in PageNo : pages[p].type = "internal" => pages[p] \in InternalPages(PageNo)
  BY <1>1, <1>2
<1>4. \A p \in PageNo : pages[p].type = "internal" => Kids(pages[p]) \subseteq PageNo
  <2> TAKE p \in PageNo
  <2> HAVE pages[p].type = "internal"
  <2>1. pages[p] \in InternalPages(PageNo)
    BY <1>3
  <2>2. \A i \in DOMAIN pages[p].kids : pages[p].kids[i] \in PageNo
    BY <2>1, PageShape
  <2> QED
    BY <2>2 DEF Kids
<1>5. KidsOf(pages) \in [PageNo -> SUBSET PageNo]
  BY <1>4 DEF KidsOf
<1> QED
  BY <1>1, <1>2, <1>5

\* A page and the one split off it share its children, and the child handed up to it.
Halves(pages, now, c, p, no) ==
    /\ p \in UsedIn(now) /\ no \in UsedIn(now)
    /\ \A q \in PageNo : q # p /\ q # no => now[q] = pages[q]
    /\ KidsOf(now)[p] \cup KidsOf(now)[no]
          = KidsOf(pages)[p] \cup (IF c = NoCarry THEN {} ELSE {c.back})
    /\ KidsOf(now)[p] \cap KidsOf(now)[no] = {}

\* Each keeps to its range.
HalfOK(pg, level, range, held) ==
    \/ pg.type = "leaf" /\ level = 0 /\ Ascends(pg.recs) /\ KeySet(pg.recs) \subseteq range
    \/ pg.type = "internal" /\ Formed(pg) /\ Divides(pg, range, held)

\* A split of a leaf, or of an internal page that takes in what was split below it.
LEMMA TreeSplit ==
    ASSUME NEW pages, NEW r, NEW c, NEW range, NEW level, Tree(pages, r, c, range, level),
           NEW p \in UsedIn(pages), NEW no \in PageNo \ {0}, no \notin UsedIn(pages), NEW key \in Nat,
           c = NoCarry \/ c.front \in KidsOf(pages)[p],
           NEW now \in [PageNo -> Pages], Halves(pages, now, c, p, no),
           HalfOK(now[p], level[p], Below(range[p], key), range),
           HalfOK(now[no], level[p], From(range[p], key), range),
           NEW c2, c2 = Sent(key, p, no),
           NEW range2,
           range2 = SplitRange(range, p, no, key),
           NEW level2, level2 = SplitLevel(level, p, no)
    PROVE  Tree(now, r, c2, range2, level2)
<1> /\ p \in UsedIn(now) /\ no \in UsedIn(now)
    /\ \A q \in PageNo : q # p /\ q # no => now[q] = pages[q]
    /\ KidsOf(now)[p] \cup KidsOf(now)[no]
          = KidsOf(pages)[p] \cup (IF c = NoCarry THEN {} ELSE {c.back})
    /\ KidsOf(now)[p] \cap KidsOf(now)[no] = {}
  BY DEF Halves
<1>0. /\ \A q \in {p, no} : now[q].type = "leaf" => level[p] = 0 /\ Ascends(now[q].recs)
      /\ now[p].type = "leaf" => KeySet(now[p].recs) \subseteq Below(range[p], key)
      /\ now[no].type = "leaf" => KeySet(now[no].recs) \subseteq From(range[p], key)
      /\ \A q \in {p, no} : now[q].type = "internal" => Formed(now[q])
      /\ now[p].type = "internal" => Divides(now[p], Below(range[p], key), range)
      /\ now[no].type = "internal" => Divides(now[no], From(range[p], key), range)
  BY DEF HalfOK
<1> DEFINE used == UsedIn(pages)
           kids == KidsOf(pages)
           new == KidsOf(now)
<1>1. /\ pages \in [PageNo -> Pages] /\ Shaped(used, kids, r, c, range, level)
      /\ LeavesOK(pages, range, level) /\ InternalsOK(pages, c, range)
  BY DEF Tree
<1>2. p \in PageNo /\ p # no /\ range \in [PageNo -> SUBSET Nat] /\ level \in [PageNo -> Nat]
  BY <1>1 DEF Shaped, UsedIn
<1>3. /\ range2[p] = Below(range[p], key) /\ range2[no] = From(range[p], key)
      /\ \A q \in PageNo : q # p /\ q # no => range2[q] = range[q]
      /\ level2[no] = level[p] /\ \A q \in PageNo : q # no => level2[q] = level[q]
  BY <1>2 DEF SplitRange, SplitLevel
<1>4. UsedIn(now) = used \cup {no}
  <2>1. \A q \in PageNo : q # p /\ q # no => (q \in UsedIn(now) <=> q \in UsedIn(pages))
    BY DEF UsedIn
  <2>2. UsedIn(now) \subseteq PageNo /\ used \subseteq PageNo
    BY DEF UsedIn
  <2> HIDE DEF used
  <2> QED
    BY <1>2, <2>1, <2>2 DEF used
<1>5. new \in [PageNo -> SUBSET PageNo] /\ \A q \in PageNo : q # p /\ q # no => new[q] = kids[q]
  <2>1. new \in [PageNo -> SUBSET PageNo]
    BY PageTypes
  <2>2. \A q \in PageNo : q # p /\ q # no => new[q] = kids[q]
    BY DEF KidsOf
  <2> QED
    BY <2>1, <2>2
<1>6. \A q \in PageNo : now[q].type = "internal" => new[q] = Kids(now[q]) /\ now[q] \in InternalPages(PageNo)
  BY PageTypes DEF KidsOf
<1>7. \A q \in PageNo : q \in used /\ pages[q].type = "internal" => kids[q] = Kids(pages[q])
  BY DEF KidsOf
<1>8. Shaped(used \cup {no}, new, r, c2, range2, level2)
  <2>1. /\ new[p] \cup new[no] = kids[p] \cup (IF c = NoCarry THEN {} ELSE {c.back})
        /\ new[p] \cap new[no] = {} /\ (c = NoCarry \/ c.front \in kids[p])
        /\ p \in used /\ no \notin used
    OBVIOUS
  <2> HIDE DEF used, kids, new
  <2> QED
    BY <1>1, <1>5, <2>1, ShapeSplit
<1>9. /\ \A q \in used : \A k \in kids[q] : q # p => Whole(c2, range2)[k] = Whole(c, range)[k]
      /\ \A k \in new[p] \cup new[no] : Whole(c2, range2)[k] = range[k]
  <2>1. /\ new[p] \cup new[no] = kids[p] \cup (IF c = NoCarry THEN {} ELSE {c.back})
        /\ (c = NoCarry \/ c.front \in kids[p]) /\ p \in used /\ no \notin used
    OBVIOUS
  <2> HIDE DEF used, kids, new
  <2>2. /\ \A q \in used : \A k \in kids[q] : q # p => Whole(c2, range2)[k] = Whole(c, range)[k]
        /\ \A k \in kids[p] \cup (IF c = NoCarry THEN {} ELSE {c.back}) :
              Whole(c2, range2)[k] = range[k]
    BY <1>1, <2>1, HeldSplit
  <2> QED
    BY <2>1, <2>2
<1>10. LeavesOK(now, range2, level2)
  <2>1. ASSUME NEW q \in LeavesOf(now)
        PROVE  level2[q] = 0 /\ Ascends(now[q].recs) /\ KeySet(now[q].recs) \subseteq range2[q]
    <3>1. q \in PageNo /\ now[q].type = "leaf"
      BY DEF LeavesOf
    <3>2. CASE q = p
      BY <1>0, <1>2, <1>3, <3>1, <3>2
    <3>3. CASE q = no
      BY <1>0, <1>2, <1>3, <3>1, <3>3
    <3>4. CASE q # p /\ q # no
      <4>1. q \in LeavesOf(pages) /\ now[q] = pages[q] /\ range2[q] = range[q] /\ level2[q] = level[q]
        BY <1>3, <3>1, <3>4 DEF LeavesOf
      <4> QED
        BY <1>1, <4>1 DEF LeavesOK
    <3> QED
      BY <3>2, <3>3, <3>4
  <2> QED
    BY <2>1 DEF LeavesOK
<1>11. InternalsOK(now, c2, range2)
  <2>1. ASSUME NEW q \in InternalsOf(now)
        PROVE  Formed(now[q]) /\ Divides(now[q], range2[q], Whole(c2, range2))
    <3>1. q \in PageNo /\ now[q].type = "internal"
      BY DEF InternalsOf
    <3>2. now[q] \in InternalPages(PageNo) /\ new[q] = Kids(now[q])
      BY <1>6, <3>1
    <3>3. CASE q = p \/ q = no
      <4>1. Formed(now[q]) /\ Divides(now[q], range2[q], range)
        BY <1>0, <1>3, <3>1, <3>3
      <4>2. \A k \in Kids(now[q]) : Whole(c2, range2)[k] = range[k]
        BY <1>9, <3>2, <3>3
      <4> QED
        BY <3>2, <4>1, <4>2, DividesSame
    <3>4. CASE q # p /\ q # no
      <4>1. now[q] = pages[q] /\ range2[q] = range[q] /\ q \in InternalsOf(pages) /\ q \in used
        BY <1>3, <3>1, <3>4 DEF InternalsOf, UsedIn
      <4>2. Formed(pages[q]) /\ Divides(pages[q], range[q], Whole(c, range))
        BY <1>1, <4>1 DEF InternalsOK
      <4>3. kids[q] = Kids(pages[q])
        BY <1>7, <3>1, <4>1
      <4>4. \A k \in Kids(now[q]) : Whole(c2, range2)[k] = Whole(c, range)[k]
        BY <1>9, <3>4, <4>1, <4>3
      <4>5. Divides(now[q], range2[q], Whole(c, range))
        BY <4>1, <4>2
      <4> QED
        BY <3>2, <4>1, <4>2, <4>4, <4>5, DividesSame
    <3> QED
      BY <3>3, <3>4
  <2> QED
    BY <2>1 DEF InternalsOK
<1> QED
  BY <1>4, <1>8, <1>10, <1>11 DEF Tree

\* Pages that stay, with what they and their parents hold.
Kept(pages, now, changed, c, range, level, c2, range2, level2) ==
    \A q \in UsedIn(now) \ changed :
        /\ now[q] = pages[q] /\ range2[q] = range[q] /\ level2[q] = level[q]
        /\ \A k \in KidsOf(now)[q] : Whole(c2, range2)[k] = Whole(c, range)[k]

\* What is to be seen of the others.
Fitting(now, changed, c, range, level) ==
    \A q \in changed :
        /\ now[q].type = "leaf" =>
              level[q] = 0 /\ Ascends(now[q].recs) /\ KeySet(now[q].recs) \subseteq range[q]
        /\ now[q].type = "internal" =>
              Formed(now[q]) /\ Divides(now[q], range[q], Whole(c, range))

\* Pages change together with their ranges and levels.
LEMMA TreeChanged ==
    ASSUME NEW pages, NEW r, NEW c, NEW range, NEW level, Tree(pages, r, c, range, level),
           NEW now \in [PageNo -> Pages], NEW changed,
           NEW r2, NEW c2, NEW range2, NEW level2,
           Shaped(UsedIn(now), KidsOf(now), r2, c2, range2, level2),
           Kept(pages, now, changed, c, range, level, c2, range2, level2),
           Fitting(now, changed, c2, range2, level2)
    PROVE  Tree(now, r2, c2, range2, level2)
<1>1. LeavesOK(pages, range, level) /\ InternalsOK(pages, c, range)
  BY DEF Tree
<1>2. LeavesOK(now, range2, level2)
  <2>1. ASSUME NEW q \in LeavesOf(now)
        PROVE  level2[q] = 0 /\ Ascends(now[q].recs) /\ KeySet(now[q].recs) \subseteq range2[q]
    <3>1. q \in PageNo /\ now[q].type = "leaf" /\ q \in UsedIn(now)
      BY DEF LeavesOf, UsedIn
    <3>2. CASE q \in changed
      BY <3>1, <3>2 DEF Fitting
    <3>3. CASE q \notin changed
      <4>1. now[q] = pages[q] /\ range2[q] = range[q] /\ level2[q] = level[q] /\ q \in LeavesOf(pages)
        BY <3>1, <3>3 DEF LeavesOf, Kept
      <4> QED
        BY <1>1, <4>1 DEF LeavesOK
    <3> QED
      BY <3>2, <3>3
  <2> QED
    BY <2>1 DEF LeavesOK
<1>3. InternalsOK(now, c2, range2)
  <2>1. ASSUME NEW q \in InternalsOf(now)
        PROVE  Formed(now[q]) /\ Divides(now[q], range2[q], Whole(c2, range2))
    <3>1. q \in PageNo /\ now[q].type = "internal" /\ q \in UsedIn(now)
      BY DEF InternalsOf, UsedIn
    <3>2. CASE q \in changed
      BY <3>1, <3>2 DEF Fitting
    <3>3. CASE q \notin changed
      <4>1. /\ now[q] = pages[q] /\ range2[q] = range[q] /\ q \in InternalsOf(pages)
            /\ \A k \in KidsOf(now)[q] : Whole(c2, range2)[k] = Whole(c, range)[k]
        BY <3>1, <3>3 DEF InternalsOf, Kept
      <4>2. Formed(now[q]) /\ Divides(now[q], range2[q], Whole(c, range))
        BY <1>1, <4>1 DEF InternalsOK
      <4>3. KidsOf(now)[q] = Kids(now[q]) /\ now[q] \in InternalPages(PageNo)
        BY <3>1, PageTypes DEF KidsOf
      <4>4. \A k \in Kids(now[q]) : Whole(c2, range2)[k] = Whole(c, range)[k]
        BY <4>1, <4>3
      <4> QED
        BY <4>2, <4>3, <4>4, DividesSame
    <3> QED
      BY <3>2, <3>3
  <2> QED
    BY <2>1 DEF InternalsOK
<1> QED
  BY <1>2, <1>3 DEF Tree

\* What is known of a page of a tree.
LEMMA TreeKnows ==
    ASSUME NEW pages, NEW r, NEW c, NEW range, NEW level, Tree(pages, r, c, range, level)
    PROVE  /\ pages \in [PageNo -> Pages]
           /\ Shaped(UsedIn(pages), KidsOf(pages), r, c, range, level)
           /\ range \in [PageNo -> SUBSET Nat] /\ level \in [PageNo -> Nat]
           /\ r \in UsedIn(pages) /\ UsedIn(pages) \subseteq PageNo \ {0}
           /\ KidsOf(pages) \in [PageNo -> SUBSET PageNo]
           /\ \A p \in PageNo : pages[p].type = "leaf" =>
                 /\ p \in UsedIn(pages) /\ level[p] = 0 /\ KidsOf(pages)[p] = {}
                 /\ pages[p] \in LeafPages /\ pages[p].recs \in Sorted
                 /\ KeySet(pages[p].recs) \subseteq range[p]
           /\ \A p \in PageNo : pages[p].type = "internal" =>
                 /\ p \in UsedIn(pages) /\ KidsOf(pages)[p] = Kids(pages[p])
                 /\ pages[p] \in InternalPages(PageNo) /\ Formed(pages[p])
                 /\ Divides(pages[p], range[p], Whole(c, range))
           /\ \A p \in UsedIn(pages) : pages[p].type = "leaf" \/ pages[p].type = "internal"
<1>1. /\ pages \in [PageNo -> Pages]
      /\ Shaped(UsedIn(pages), KidsOf(pages), r, c, range, level)
      /\ LeavesOK(pages, range, level) /\ InternalsOK(pages, c, range)
  BY DEF Tree
<1>2. range \in [PageNo -> SUBSET Nat] /\ level \in [PageNo -> Nat]
      /\ UsedIn(pages) \subseteq PageNo \ {0} /\ r \in UsedIn(pages)
  BY <1>1 DEF Shaped, RootOK
<1>3. ASSUME NEW p \in PageNo, pages[p].type = "leaf"
      PROVE  /\ p \in UsedIn(pages) /\ level[p] = 0 /\ KidsOf(pages)[p] = {}
             /\ pages[p] \in LeafPages /\ pages[p].recs \in Sorted
             /\ KeySet(pages[p].recs) \subseteq range[p]
  <2>1. level[p] = 0 /\ Ascends(pages[p].recs) /\ KeySet(pages[p].recs) \subseteq range[p]
    BY <1>1, <1>3 DEF LeavesOK, LeavesOf
  <2>2. pages[p] \in LeafPages /\ pages[p].recs \in Seq(Record)
    BY <1>1, <1>3, PageTypes DEF LeafPages
  <2>3. p \in UsedIn(pages) /\ KidsOf(pages)[p] = {}
    BY <1>3 DEF UsedIn, KidsOf
  <2> QED
    BY <2>1, <2>2, <2>3 DEF Sorted
<1>4. ASSUME NEW p \in PageNo, pages[p].type = "internal"
      PROVE  /\ p \in UsedIn(pages) /\ KidsOf(pages)[p] = Kids(pages[p])
             /\ pages[p] \in InternalPages(PageNo) /\ Formed(pages[p])
             /\ Divides(pages[p], range[p], Whole(c, range))
  <2>1. Formed(pages[p]) /\ Divides(pages[p], range[p], Whole(c, range))
    BY <1>1, <1>4 DEF InternalsOK, InternalsOf
  <2>2. pages[p] \in InternalPages(PageNo)
    BY <1>1, <1>4, PageTypes
  <2> QED
    BY <1>4, <2>1, <2>2 DEF UsedIn, KidsOf
<1>5. \A p \in UsedIn(pages) : pages[p].type = "leaf" \/ pages[p].type = "internal"
  BY DEF UsedIn
<1>6. KidsOf(pages) \in [PageNo -> SUBSET PageNo]
  BY <1>1 DEF Shaped
<1> QED
  BY <1>1, <1>2, <1>3, <1>4, <1>5, <1>6

\* An internal page with keys has the child.
HasKid(pg, no) == pg.type = "internal" /\ pg.count > 0 /\ no \in Kids(pg)

\* One page changes.
Put(pages, p, pg) == [pages EXCEPT ![p] = pg]

LEMMA PutIn ==
    ASSUME NEW pages \in [PageNo -> Pages], NEW p \in PageNo, NEW pg \in Pages,
           NEW now, now = Put(pages, p, pg)
    PROVE  /\ now \in [PageNo -> Pages] /\ now[p] = pg
           /\ \A q \in PageNo : q # p => now[q] = pages[q]
           /\ \A q \in PageNo : q # p => KidsOf(now)[q] = KidsOf(pages)[q]
           /\ \A q \in PageNo : q # p => (q \in UsedIn(now) <=> q \in UsedIn(pages))
           /\ pg.type = "internal" => KidsOf(now)[p] = Kids(pg) /\ p \in UsedIn(now)
           /\ pg.type = "leaf" => KidsOf(now)[p] = {} /\ p \in UsedIn(now)
           /\ pg.type = "free" => KidsOf(now)[p] = {} /\ p \notin UsedIn(now)
<1>1. /\ now \in [PageNo -> Pages] /\ now[p] = pg
      /\ \A q \in PageNo : q # p => now[q] = pages[q]
  BY DEF Put
<1>2. /\ \A q \in PageNo : q # p => KidsOf(now)[q] = KidsOf(pages)[q]
      /\ \A q \in PageNo : q # p => (q \in UsedIn(now) <=> q \in UsedIn(pages))
  BY <1>1 DEF KidsOf, UsedIn
<1>3. /\ pg.type = "internal" => KidsOf(now)[p] = Kids(pg) /\ p \in UsedIn(now)
      /\ pg.type = "leaf" => KidsOf(now)[p] = {} /\ p \in UsedIn(now)
      /\ pg.type = "free" => KidsOf(now)[p] = {} /\ p \notin UsedIn(now)
  BY <1>1 DEF KidsOf, UsedIn
<1> QED
  BY <1>1, <1>2, <1>3

\* What kinds of page there are.
LEMMA PageKinds ==
    /\ \A x \in LeafPages : x \in Pages /\ x.type = "leaf"
    /\ \A x \in InternalPages(PageNo) : x \in Pages /\ x.type = "internal"
    /\ \A x \in FreePages : x \in Pages /\ x.type = "free"
    /\ Unused \in Pages /\ Unused.type = "unused"
BY DEF LeafPages, InternalPages, FreePages, Unused, Pages

\* A leaf keeps its range whatever becomes of its records.
LEMMA TreeLeaf ==
    ASSUME NEW pages, NEW r, NEW c, NEW range, NEW level, Tree(pages, r, c, range, level),
           NEW p \in PageNo, pages[p].type = "leaf",
           NEW pg \in LeafPages, pg.recs \in Sorted, KeySet(pg.recs) \subseteq range[p],
           NEW now, now = Put(pages, p, pg)
    PROVE  Tree(now, r, c, range, level) /\ UsedIn(now) = UsedIn(pages)
<1>1. /\ pages \in [PageNo -> Pages] /\ Shaped(UsedIn(pages), KidsOf(pages), r, c, range, level)
      /\ level[p] = 0 /\ p \in UsedIn(pages) /\ KidsOf(pages)[p] = {}
      /\ KidsOf(pages) \in [PageNo -> SUBSET PageNo]
  BY TreeKnows
<1>2. pg \in Pages /\ pg.type = "leaf"
  BY PageKinds
<1>3. /\ now \in [PageNo -> Pages] /\ now[p] = pg
      /\ \A q \in PageNo : q # p => now[q] = pages[q]
      /\ \A q \in PageNo : q # p => KidsOf(now)[q] = KidsOf(pages)[q]
      /\ \A q \in PageNo : q # p => (q \in UsedIn(now) <=> q \in UsedIn(pages))
      /\ KidsOf(now)[p] = {} /\ p \in UsedIn(now)
  BY <1>1, <1>2, PutIn
<1>4. UsedIn(now) = UsedIn(pages)
  <2>1. UsedIn(now) \subseteq PageNo /\ UsedIn(pages) \subseteq PageNo
    BY DEF UsedIn
  <2>2. \A q \in PageNo : q \in UsedIn(now) <=> q \in UsedIn(pages)
    BY <1>1, <1>3
  <2> QED
    BY <2>1, <2>2
<1>5. KidsOf(now) = KidsOf(pages)
  <2>1. KidsOf(now) \in [PageNo -> SUBSET PageNo]
    BY <1>3, PageTypes
  <2>2. \A q \in PageNo : KidsOf(now)[q] = KidsOf(pages)[q]
    BY <1>1, <1>3
  <2> QED
    BY <1>1, <2>1, <2>2
<1>6. Shaped(UsedIn(now), KidsOf(now), r, c, range, level)
  BY <1>1, <1>4, <1>5
<1>7. Kept(pages, now, {p}, c, range, level, c, range, level)
  <2>1. UsedIn(now) \subseteq PageNo
    BY DEF UsedIn
  <2> QED
    BY <1>3, <2>1 DEF Kept
<1>8. Fitting(now, {p}, c, range, level)
  BY <1>1, <1>2, <1>3 DEF Fitting, Sorted
<1>9. Tree(now, r, c, range, level)
  BY <1>3, <1>6, <1>7, <1>8, TreeChanged
<1> QED
  BY <1>4, <1>9

\* The key that is handed up divides what the split page held.
LEMMA SentShares ==
    ASSUME NEW used, NEW kids, NEW r, NEW c, NEW range, NEW level,
           Shaped(used, kids, r, c, range, level), c # NoCarry
    PROVE  /\ range[c.front] = Below(Whole(c, range)[c.front], c.key)
           /\ range[c.back] = From(Whole(c, range)[c.front], c.key)
<1>1. /\ c.front \in used /\ c.back \in used /\ c.key \in Nat
      /\ \A k \in range[c.front] : k < c.key
      /\ \A k \in range[c.back] : c.key <= k
  BY ShapeKids
<1>2. c.front \in PageNo /\ range[c.front] \subseteq Nat /\ range[c.back] \subseteq Nat
  BY <1>1, ShapeKids
<1>3. Whole(c, range)[c.front] = range[c.front] \cup range[c.back]
  BY <1>2, WholeOf
<1>4. \A k \in range[c.front] : k \in Nat /\ k < c.key /\ ~(c.key <= k)
  <2> TAKE k \in range[c.front]
  <2>1. k \in Nat /\ k < c.key
    BY <1>1, <1>2
  <2> QED
    BY <1>1, <2>1
<1>5. \A k \in range[c.back] : k \in Nat /\ c.key <= k /\ ~(k < c.key)
  <2> TAKE k \in range[c.back]
  <2>1. k \in Nat /\ c.key <= k
    BY <1>1, <1>2
  <2> QED
    BY <1>1, <2>1
<1>6. range[c.front] = Below(range[c.front] \cup range[c.back], c.key)
  BY <1>4, <1>5 DEF Below
<1>7. range[c.back] = From(range[c.front] \cup range[c.back], c.key)
  BY <1>4, <1>5 DEF From
<1> QED
  BY <1>3, <1>6, <1>7

\* What a page is in a tree goes by its type.
LEMMA KindsOf ==
    ASSUME NEW now
    PROVE  /\ \A q \in PageNo : now[q].type = "internal" => KidsOf(now)[q] = Kids(now[q]) /\ q \in UsedIn(now)
           /\ \A q \in PageNo : now[q].type = "leaf" => KidsOf(now)[q] = {} /\ q \in UsedIn(now)
           /\ \A q \in PageNo : now[q].type = "free" => KidsOf(now)[q] = {} /\ q \notin UsedIn(now)
           /\ \A pages : \A q \in PageNo : now[q] = pages[q] =>
                 KidsOf(now)[q] = KidsOf(pages)[q] /\ (q \in UsedIn(now) <=> q \in UsedIn(pages))
           /\ UsedIn(now) \subseteq PageNo
BY DEF KidsOf, UsedIn

\* An internal page takes in what was split off below it.
LEMMA TreeAbsorb ==
    ASSUME NEW pages, NEW r, NEW c, NEW range, NEW level, Tree(pages, r, c, range, level),
           c # NoCarry, NEW p \in PageNo, HasKid(pages[p], c.front),
           InsertKey(pages[p], c.key, c.front, c.back).status = "ok",
           NEW np, np = InsertKey(pages[p], c.key, c.front, c.back).page,
           NEW now, now = Put(pages, p, np)
    PROVE  /\ Tree(now, r, NoCarry, range, level) /\ UsedIn(now) = UsedIn(pages)
           /\ np.type = "internal" /\ np.count > 0
<1>0. pages[p].type = "internal" /\ pages[p].count > 0 /\ c.front \in Kids(pages[p])
  BY DEF HasKid
<1>1. /\ pages \in [PageNo -> Pages] /\ Shaped(UsedIn(pages), KidsOf(pages), r, c, range, level)
      /\ range \in [PageNo -> SUBSET Nat] /\ UsedIn(pages) \subseteq PageNo \ {0}
      /\ KidsOf(pages) \in [PageNo -> SUBSET PageNo]
      /\ p \in UsedIn(pages) /\ KidsOf(pages)[p] = Kids(pages[p])
      /\ pages[p] \in InternalPages(PageNo) /\ Formed(pages[p])
      /\ Divides(pages[p], range[p], Whole(c, range))
  BY <1>0, TreeKnows
<1>2. /\ c.front \in UsedIn(pages) /\ c.back \in UsedIn(pages) /\ c.front # c.back /\ c.key \in Nat
      /\ \A k \in range[c.front] : k < c.key
      /\ \A k \in range[c.back] : c.key <= k
      /\ \A q \in UsedIn(pages) : \A k \in KidsOf(pages)[q] :
            k # c.back /\ \A x \in UsedIn(pages) : k \in KidsOf(pages)[x] => x = q
  BY <1>1, ShapeKids
<1>3. c.front \in PageNo /\ c.back \in PageNo /\ range[c.front] \subseteq Nat /\ range[c.back] \subseteq Nat
  BY <1>1, <1>2
<1>4. c.back \notin Kids(pages[p])
  BY <1>1, <1>2
<1>5. /\ range[c.front] = Below(Whole(c, range)[c.front], c.key)
      /\ range[c.back] = From(Whole(c, range)[c.front], c.key)
  BY <1>1, SentShares
<1>6. \A k \in PageNo : k # c.front => Whole(c, range)[k] = range[k]
  BY WholeOf
<1>7. /\ np \in InternalPages(PageNo) /\ np.count = pages[p].count + 1
      /\ Formed(np) /\ Kids(np) = Kids(pages[p]) \cup {c.back} /\ Divides(np, range[p], range)
  <2> DEFINE pg == pages[p]
             held == Whole(c, range)
             R == range[p]
  <2>1. /\ pg \in InternalPages(PageNo) /\ Formed(pg) /\ pg.count > 0 /\ c.key \in Nat
        /\ c.front \in PageNo /\ c.back \in PageNo /\ c.back \notin Kids(pg)
        /\ InsertKey(pg, c.key, c.front, c.back).status = "ok"
        /\ np = InsertKey(pg, c.key, c.front, c.back).page
        /\ R \in SUBSET Nat /\ Divides(pg, R, held)
        /\ range[c.front] = Below(held[c.front], c.key) /\ range[c.back] = From(held[c.front], c.key)
    BY <1>0, <1>1, <1>2, <1>3, <1>4, <1>5
  <2>2. \A k \in Kids(pg) : k # c.front => range[k] = held[k]
    BY <1>1, <1>6
  <2> HIDE DEF pg, held, R
  <2>3. /\ np \in InternalPages(PageNo) /\ np.count = pg.count + 1
        /\ Formed(np) /\ Kids(np) = Kids(pg) \cup {c.back} /\ Divides(np, R, range)
    BY <2>1, <2>2, InsertKeyDivides
  <2> QED
    BY <2>3 DEF pg, R
<1>8. np \in Pages /\ np.type = "internal" /\ np.count > 0
  <2>1. pages[p].count \in Nat
    BY <1>1, PageShape
  <2> QED
    BY <1>7, <2>1, PageKinds
<1>9. /\ now \in [PageNo -> Pages] /\ now[p] = np
      /\ \A q \in PageNo : q # p => now[q] = pages[q]
      /\ \A q \in PageNo : q # p => KidsOf(now)[q] = KidsOf(pages)[q]
      /\ \A q \in PageNo : q # p => (q \in UsedIn(now) <=> q \in UsedIn(pages))
      /\ KidsOf(now)[p] = Kids(np) /\ p \in UsedIn(now)
  BY <1>1, <1>8, PutIn
<1>10. UsedIn(now) = UsedIn(pages)
  <2>1. UsedIn(now) \subseteq PageNo /\ UsedIn(pages) \subseteq PageNo
    BY DEF UsedIn
  <2>2. \A q \in PageNo : q \in UsedIn(now) <=> q \in UsedIn(pages)
    BY <1>1, <1>9
  <2> QED
    BY <2>1, <2>2
<1>11. Shaped(UsedIn(now), KidsOf(now), r, NoCarry, range, level)
  <2> DEFINE new == KidsOf(now)
  <2>1. /\ new \in [PageNo -> SUBSET PageNo] /\ new[p] = KidsOf(pages)[p] \cup {c.back}
        /\ \A q \in PageNo : q # p => new[q] = KidsOf(pages)[q]
    BY <1>1, <1>7, <1>9, PageTypes
  <2>2. c.front \in KidsOf(pages)[p]
    BY <1>0, <1>1
  <2> HIDE DEF new
  <2>3. Shaped(UsedIn(pages), new, r, NoCarry, range, level)
    BY <1>1, <2>1, <2>2, ShapeAbsorb
  <2> QED
    BY <1>10, <2>3 DEF new
<1>12. Kept(pages, now, {p}, c, range, level, NoCarry, range, level)
  <2> SUFFICES ASSUME NEW q \in UsedIn(now) \ {p}
               PROVE  /\ now[q] = pages[q]
                      /\ \A k \in KidsOf(now)[q] : Whole(NoCarry, range)[k] = Whole(c, range)[k]
    BY DEF Kept
  <2>1. q \in PageNo /\ q # p /\ q \in UsedIn(pages)
    BY <1>1, <1>10
  <2>2. ASSUME NEW k \in KidsOf(now)[q]
        PROVE  Whole(NoCarry, range)[k] = Whole(c, range)[k]
    <3>1. k \in KidsOf(pages)[q] /\ k \in PageNo
      BY <1>1, <1>9, <2>1, <2>2
    <3>2. k # c.front
      BY <1>0, <1>1, <1>2, <2>1, <3>1
    <3> QED
      BY <1>6, <3>1, <3>2, WholeNone
  <2> QED
    BY <1>9, <2>1, <2>2
<1>13. Fitting(now, {p}, NoCarry, range, level)
  <2>1. Formed(now[p]) /\ Divides(now[p], range[p], Whole(NoCarry, range))
    BY <1>1, <1>7, <1>9, WholeSame
  <2> QED
    BY <1>8, <1>9, <2>1 DEF Fitting
<1>14. Tree(now, r, NoCarry, range, level)
  BY <1>9, <1>11, <1>12, <1>13, TreeChanged
<1> QED
  BY <1>8, <1>10, <1>14

\* A new root above the two halves of the old one.
LEMMA TreeNewRoot ==
    ASSUME NEW pages, NEW r, NEW c, NEW range, NEW level, Tree(pages, r, c, range, level),
           c # NoCarry, c.front = r, NEW no \in PageNo \ {0}, no \notin UsedIn(pages),
           NEW old \in [Slots -> Nat],
           NEW np, np = InsertKey(InitPage(0, 0, old), c.key, c.front, c.back).page,
           NEW now, now = Put(pages, no, np),
           NEW range2, range2 = RootRange(range, no), NEW level2, level2 = RootLevel(level, r, no)
    PROVE  /\ Tree(now, no, NoCarry, range2, level2) /\ UsedIn(now) = UsedIn(pages) \cup {no}
           /\ np.type = "internal" /\ np.count = 1
<1>1. /\ pages \in [PageNo -> Pages] /\ Shaped(UsedIn(pages), KidsOf(pages), r, c, range, level)
      /\ range \in [PageNo -> SUBSET Nat] /\ level \in [PageNo -> Nat]
      /\ r \in UsedIn(pages) /\ UsedIn(pages) \subseteq PageNo \ {0}
      /\ KidsOf(pages) \in [PageNo -> SUBSET PageNo]
  BY TreeKnows
<1>2. /\ c.front \in UsedIn(pages) /\ c.back \in UsedIn(pages) /\ c.front # c.back /\ c.key \in Nat
      /\ \A q \in UsedIn(pages) : \A k \in KidsOf(pages)[q] : k \in UsedIn(pages) /\ k # r
  BY <1>1, ShapeKids
<1>3. c.front \in PageNo /\ c.back \in PageNo /\ c.front # no /\ c.back # no
  BY <1>1, <1>2
<1>4. /\ range2 \in [PageNo -> SUBSET Nat] /\ range2[no] = Nat
      /\ \A q \in PageNo : q # no => range2[q] = range[q]
      /\ \A q \in PageNo : q # no => level2[q] = level[q]
  BY <1>1 DEF RootRange, RootLevel
<1>5. range2[c.front] = Below(Nat, c.key) /\ range2[c.back] = From(Nat, c.key)
  <2>1. Whole(c, range)[c.front] = Nat
    BY <1>1 DEF Shaped, RootOK
  <2>2. /\ range[c.front] = Below(Whole(c, range)[c.front], c.key)
        /\ range[c.back] = From(Whole(c, range)[c.front], c.key)
    BY <1>1, SentShares
  <2> QED
    BY <1>3, <1>4, <2>1, <2>2
<1>6. /\ np \in InternalPages(PageNo) /\ np.count = 1
      /\ Formed(np) /\ Kids(np) = {c.front, c.back} /\ Divides(np, Nat, range2)
  <2> DEFINE N == Nat
             front == c.front
             back == c.back
             key == c.key
             pg == InitPage(0, 0, old)
  <2>0. pg \in InternalPages(PageNo) /\ pg.count = 0
    BY InternalPageAssumption DEF InitPage, InternalPages
  <2>1. /\ N \in SUBSET Nat /\ range2[front] = Below(N, key) /\ range2[back] = From(N, key)
        /\ front \in PageNo /\ back \in PageNo /\ front # back /\ key \in Nat
        /\ np = InsertKey(pg, key, front, back).page
    BY <1>2, <1>3, <1>5
  <2> HIDE DEF N, front, back, key, pg
  <2>2. /\ np \in InternalPages(PageNo) /\ np.count = 1
        /\ Formed(np) /\ Divides(np, N, range2)
    BY <2>0, <2>1, NewPageDivides
  <2>3. Len(np.kids) = 2 /\ np.kids[1] = front /\ np.kids[2] = back
    BY <2>0, <2>1, NewPageDivides
  <2>4. Kids(np) = {front, back}
    <3>1. DOMAIN np.kids = 1 .. Len(np.kids)
      BY <2>2, PageShape
    <3>2. DOMAIN np.kids = {1, 2}
      BY <2>3, <3>1
    <3> QED
      BY <2>3, <3>2 DEF Kids
  <2> QED
    BY <2>2, <2>4 DEF N, front, back
<1>7. np \in Pages /\ np.type = "internal"
  BY <1>6, PageKinds
<1>8. /\ now \in [PageNo -> Pages] /\ now[no] = np
      /\ \A q \in PageNo : q # no => now[q] = pages[q]
      /\ \A q \in PageNo : q # no => KidsOf(now)[q] = KidsOf(pages)[q]
      /\ \A q \in PageNo : q # no => (q \in UsedIn(now) <=> q \in UsedIn(pages))
      /\ KidsOf(now)[no] = Kids(np) /\ no \in UsedIn(now)
  <2>1. /\ now \in [PageNo -> Pages] /\ now[no] = np
        /\ \A q \in PageNo : q # no => now[q] = pages[q]
    BY <1>1, <1>7 DEF Put
  <2> QED
    BY <1>1, <1>7, <2>1, KindsOf
<1>9. UsedIn(now) = UsedIn(pages) \cup {no}
  <2>1. UsedIn(now) \subseteq PageNo /\ UsedIn(pages) \subseteq PageNo
    BY DEF UsedIn
  <2>2. \A q \in PageNo : q \in UsedIn(now) <=> q \in UsedIn(pages) \cup {no}
    BY <1>8
  <2> QED
    BY <2>1, <2>2
<1>10. Shaped(UsedIn(now), KidsOf(now), no, NoCarry, range2, level2)
  <2> DEFINE new == KidsOf(now)
  <2>1. /\ new \in [PageNo -> SUBSET PageNo] /\ new[no] = {c.front, c.back}
        /\ \A q \in PageNo : q # no => new[q] = KidsOf(pages)[q]
    BY <1>6, <1>8, PageTypes
  <2> HIDE DEF new
  <2>2. Shaped(UsedIn(pages) \cup {no}, new, no, NoCarry, range2, level2)
    BY <1>1, <2>1, ShapeNewRoot
  <2> QED
    BY <1>9, <2>2 DEF new
<1>11. Kept(pages, now, {no}, c, range, level, NoCarry, range2, level2)
  <2> SUFFICES ASSUME NEW q \in UsedIn(now) \ {no}
               PROVE  /\ now[q] = pages[q] /\ range2[q] = range[q] /\ level2[q] = level[q]
                      /\ \A k \in KidsOf(now)[q] : Whole(NoCarry, range2)[k] = Whole(c, range)[k]
    BY DEF Kept
  <2>1. q \in PageNo /\ q # no /\ q \in UsedIn(pages)
    BY <1>1, <1>9
  <2>2. ASSUME NEW k \in KidsOf(now)[q]
        PROVE  Whole(NoCarry, range2)[k] = Whole(c, range)[k]
    <3>1. k \in KidsOf(pages)[q]
      BY <1>8, <2>1
    <3>2. k \in PageNo /\ k # c.front /\ k # no
      BY <1>1, <1>2, <2>1, <3>1
    <3>3. Whole(c, range)[k] = range[k]
      BY <3>2, WholeOf
    <3> QED
      BY <1>4, <3>2, <3>3, WholeNone
  <2> QED
    BY <1>4, <1>8, <2>1, <2>2
<1>12. Fitting(now, {no}, NoCarry, range2, level2)
  <2>1. Formed(now[no]) /\ Divides(now[no], range2[no], Whole(NoCarry, range2))
    BY <1>4, <1>6, <1>8, WholeSame
  <2> QED
    BY <1>7, <1>8, <2>1 DEF Fitting
<1>13. Tree(now, no, NoCarry, range2, level2)
  BY <1>8, <1>10, <1>11, <1>12, TreeChanged
<1> QED
  BY <1>6, <1>7, <1>9, <1>13

\* The only child of a root without keys takes its place.
LEMMA TreeTop ==
    ASSUME NEW pages, NEW r, NEW range, NEW level, Tree(pages, r, NoCarry, range, level),
           pages[r].type = "internal", pages[r].count = 0,
           NEW pg \in FreePages, NEW now, now = Put(pages, r, pg)
    PROVE  /\ Tree(now, pages[r].kids[1], NoCarry, range, level)
           /\ UsedIn(now) = UsedIn(pages) \ {r} /\ pages[r].kids[1] \in UsedIn(now)
<1> DEFINE top == pages[r].kids[1]
<1>1. /\ pages \in [PageNo -> Pages] /\ Shaped(UsedIn(pages), KidsOf(pages), r, NoCarry, range, level)
      /\ range \in [PageNo -> SUBSET Nat] /\ r \in UsedIn(pages) /\ UsedIn(pages) \subseteq PageNo \ {0}
      /\ KidsOf(pages) \in [PageNo -> SUBSET PageNo]
  BY TreeKnows
<1>2. r \in PageNo
  BY <1>1
<1>3. /\ KidsOf(pages)[r] = Kids(pages[r]) /\ pages[r] \in InternalPages(PageNo)
      /\ Formed(pages[r]) /\ Divides(pages[r], range[r], Whole(NoCarry, range))
  BY <1>2, TreeKnows
<1>4. DOMAIN pages[r].kids = {1} /\ Kids(pages[r]) = {top} /\ top \in PageNo
  <2>1. Len(pages[r].kids) = 1 /\ DOMAIN pages[r].kids = 1 .. Len(pages[r].kids)
        /\ \A i \in DOMAIN pages[r].kids : pages[r].kids[i] \in PageNo
    BY <1>3, PageShape DEF Formed
  <2>2. DOMAIN pages[r].kids = {1}
    BY <2>1
  <2> QED
    BY <2>1, <2>2 DEF Kids
<1>5. range[top] = Nat
  <2>1. Whole(NoCarry, range)[r] = Nat
    BY <1>1 DEF Shaped, RootOK
  <2>2. range[r] = Nat
    BY <1>2, <2>1, WholeNone
  <2>3. Whole(NoCarry, range)[top] = Share(range[r], pages[r], 1)
    BY <1>3, <1>4 DEF Divides
  <2>4. Share(range[r], pages[r], 1) = Nat
    BY <2>2 DEF Share
  <2> QED
    BY <1>4, <2>3, <2>4, WholeNone
<1>6. pg \in Pages /\ pg.type = "free"
  BY PageKinds
<1>7. /\ now \in [PageNo -> Pages]
      /\ \A q \in PageNo : q # r => now[q] = pages[q]
      /\ \A q \in PageNo : q # r => KidsOf(now)[q] = KidsOf(pages)[q]
      /\ \A q \in PageNo : q # r => (q \in UsedIn(now) <=> q \in UsedIn(pages))
      /\ r \notin UsedIn(now)
  <2>1. /\ now \in [PageNo -> Pages] /\ now[r] = pg
        /\ \A q \in PageNo : q # r => now[q] = pages[q]
    BY <1>1, <1>2, <1>6 DEF Put
  <2> QED
    BY <1>1, <1>2, <1>6, <2>1, KindsOf
<1>8. UsedIn(now) = UsedIn(pages) \ {r}
  <2>1. UsedIn(now) \subseteq PageNo /\ UsedIn(pages) \subseteq PageNo
    BY DEF UsedIn
  <2>2. \A q \in PageNo : q \in UsedIn(now) <=> q \in UsedIn(pages) \ {r}
    BY <1>7
  <2> QED
    BY <2>1, <2>2
<1>9. Shaped(UsedIn(now), KidsOf(now), top, NoCarry, range, level)
  <2> DEFINE new == KidsOf(now)
  <2>1. /\ new \in [PageNo -> SUBSET PageNo] /\ \A q \in PageNo : q # r => new[q] = KidsOf(pages)[q]
    BY <1>7, PageTypes
  <2>2. KidsOf(pages)[r] = {top} /\ range[top] = Nat
    BY <1>3, <1>4, <1>5
  <2> HIDE DEF new, top
  <2>3. Shaped(UsedIn(pages) \ {r}, new, top, NoCarry, range, level)
    BY <1>1, <2>1, <2>2, ShapeTop
  <2> QED
    BY <1>8, <2>3 DEF new
<1>10. Kept(pages, now, {}, NoCarry, range, level, NoCarry, range, level)
  BY <1>1, <1>7, <1>8 DEF Kept
<1>11. Fitting(now, {}, NoCarry, range, level)
  BY DEF Fitting
<1>12. top \in UsedIn(now)
  BY <1>9 DEF Shaped, RootOK
<1> QED
  BY <1>7, <1>8, <1>9, <1>10, <1>11, <1>12, TreeChanged

\* Two neighbouring leaves share out their records anew.
LEMMA TreeBalance ==
    ASSUME NEW pages, NEW r, NEW range, NEW level, Tree(pages, r, NoCarry, range, level),
           NEW p \in PageNo, pages[p].type = "internal",
           NEW f \in Kids(pages[p]), NEW b \in Kids(pages[p]), f # b,
           pages[f].type = "leaf", pages[b].type = "leaf",
           NEW key \in Nat, key \in range[f] \cup range[b],
           UpdateKey(pages[p], key, f, b).status = "ok",
           NEW np, np = UpdateKey(pages[p], key, f, b).page,
           NEW pf \in LeafPages, pf.recs \in Sorted, KeySet(pf.recs) \subseteq Below(range[f] \cup range[b], key),
           NEW pb \in LeafPages, pb.recs \in Sorted, KeySet(pb.recs) \subseteq From(range[f] \cup range[b], key),
           NEW now, now = Put(Put(Put(pages, f, pf), b, pb), p, np),
           NEW range2, range2 = BalancedRange(range, f, b, key)
    PROVE  /\ Tree(now, r, NoCarry, range2, level) /\ UsedIn(now) = UsedIn(pages)
           /\ np.type = "internal" /\ np.count = pages[p].count
<1>1. /\ pages \in [PageNo -> Pages] /\ Shaped(UsedIn(pages), KidsOf(pages), r, NoCarry, range, level)
      /\ range \in [PageNo -> SUBSET Nat] /\ UsedIn(pages) \subseteq PageNo \ {0}
      /\ KidsOf(pages) \in [PageNo -> SUBSET PageNo]
      /\ p \in UsedIn(pages) /\ KidsOf(pages)[p] = Kids(pages[p])
      /\ pages[p] \in InternalPages(PageNo) /\ Formed(pages[p])
      /\ Divides(pages[p], range[p], Whole(NoCarry, range))
  BY TreeKnows
<1>2. /\ f \in UsedIn(pages) /\ b \in UsedIn(pages) /\ f # p /\ b # p /\ f # r /\ b # r
      /\ level[p] = level[f] + 1 /\ level[p] = level[b] + 1
      /\ \A q \in UsedIn(pages) : \A k \in KidsOf(pages)[q] :
            \A x \in UsedIn(pages) : k \in KidsOf(pages)[x] => x = q
  BY <1>1, ShapeKids
<1>3. f \in PageNo /\ b \in PageNo /\ range[f] \subseteq Nat /\ range[b] \subseteq Nat
  BY <1>1, <1>2
<1>4. level[f] = 0 /\ level[b] = 0 /\ KidsOf(pages)[f] = {} /\ KidsOf(pages)[b] = {}
  BY <1>3, TreeKnows
<1>5. /\ range2 \in [PageNo -> SUBSET Nat]
      /\ range2[f] = Below(range[f] \cup range[b], key)
      /\ range2[b] = From(range[f] \cup range[b], key)
      /\ \A q \in PageNo : q # f /\ q # b => range2[q] = range[q]
  <2>1. /\ Below(range[f] \cup range[b], key) \in SUBSET Nat
        /\ From(range[f] \cup range[b], key) \in SUBSET Nat
    BY <1>3 DEF Below, From
  <2> QED
    BY <1>1, <1>3, <2>1 DEF BalancedRange
<1>6. /\ np \in InternalPages(PageNo) /\ np.count = pages[p].count /\ np.kids = pages[p].kids
      /\ Formed(np) /\ Divides(np, range[p], range2)
  <2> DEFINE pg == pages[p]
             R == range[p]
  <2>1. /\ pg \in InternalPages(PageNo) /\ Formed(pg) /\ UpdateKey(pg, key, f, b).status = "ok"
        /\ np = UpdateKey(pg, key, f, b).page /\ R \in SUBSET Nat /\ Divides(pg, R, range)
    BY <1>1, WholeSame
  <2>2. \A k \in Kids(pg) : k # f /\ k # b => range2[k] = range[k]
    BY <1>1, <1>5
  <2> HIDE DEF pg, R
  <2>3. /\ np \in InternalPages(PageNo) /\ np.count = pg.count /\ np.kids = pg.kids
        /\ Formed(np) /\ Divides(np, R, range2)
    BY <1>5, <2>1, <2>2, UpdateKeyDivides
  <2> QED
    BY <2>3 DEF pg, R
<1>7. /\ np \in Pages /\ np.type = "internal" /\ pf \in Pages /\ pf.type = "leaf"
      /\ pb \in Pages /\ pb.type = "leaf" /\ Kids(np) = Kids(pages[p])
  BY <1>6, PageKinds DEF Kids
<1>8. /\ now \in [PageNo -> Pages] /\ now[f] = pf /\ now[b] = pb /\ now[p] = np
      /\ \A q \in PageNo : q # f /\ q # b /\ q # p => now[q] = pages[q]
  <2>1. /\ pages \in [PageNo -> Pages] /\ f \in PageNo /\ b \in PageNo /\ f # p /\ b # p
        /\ pf \in Pages /\ pb \in Pages /\ np \in Pages
    BY <1>1, <1>2, <1>3, <1>7
  <2> DEFINE one == Put(pages, f, pf)
             two == Put(one, b, pb)
  <2>2. one \in [PageNo -> Pages] /\ one[f] = pf /\ \A q \in PageNo : q # f => one[q] = pages[q]
    BY <2>1 DEF Put
  <2> HIDE DEF one
  <2>3. two \in [PageNo -> Pages] /\ two[b] = pb /\ \A q \in PageNo : q # b => two[q] = one[q]
    BY <2>1, <2>2 DEF Put
  <2> HIDE DEF two
  <2>4. now = Put(two, p, np)
    BY DEF one, two
  <2>5. now \in [PageNo -> Pages] /\ now[p] = np /\ \A q \in PageNo : q # p => now[q] = two[q]
    BY <2>1, <2>3, <2>4 DEF Put
  <2> QED
    BY <2>1, <2>2, <2>3, <2>5
<1>9. /\ \A q \in PageNo : KidsOf(now)[q] = KidsOf(pages)[q]
      /\ \A q \in PageNo : q \in UsedIn(now) <=> q \in UsedIn(pages)
  <2> SUFFICES ASSUME NEW q \in PageNo
               PROVE  /\ KidsOf(now)[q] = KidsOf(pages)[q]
                      /\ q \in UsedIn(now) <=> q \in UsedIn(pages)
    OBVIOUS
  <2>0. /\ KidsOf(now)[f] = {} /\ f \in UsedIn(now)
        /\ KidsOf(now)[b] = {} /\ b \in UsedIn(now)
        /\ KidsOf(now)[p] = Kids(np) /\ p \in UsedIn(now)
    BY <1>3, <1>7, <1>8, KindsOf
  <2>1. CASE q # f /\ q # b /\ q # p
    BY <1>1, <1>8, <2>1, KindsOf
  <2>2. CASE q = f \/ q = b
    BY <1>2, <1>4, <2>0, <2>2
  <2>3. CASE q = p
    BY <1>1, <1>7, <2>0, <2>3
  <2> QED
    BY <2>1, <2>2, <2>3
<1>10. UsedIn(now) = UsedIn(pages) /\ KidsOf(now) = KidsOf(pages)
  <2>1. UsedIn(now) \subseteq PageNo /\ UsedIn(pages) \subseteq PageNo
    BY DEF UsedIn
  <2>2. KidsOf(now) \in [PageNo -> SUBSET PageNo]
    BY <1>8, PageTypes
  <2>3. UsedIn(now) = UsedIn(pages)
    BY <1>9, <2>1
  <2>4. KidsOf(now) = KidsOf(pages)
    BY <1>1, <1>9, <2>2
  <2> QED
    BY <2>3, <2>4
<1>11. Shaped(UsedIn(now), KidsOf(now), r, NoCarry, range2, level)
  <2>1. level[f] = level[b]
    BY <1>4
  <2>2. Shaped(UsedIn(pages), KidsOf(pages), r, NoCarry, range2, level)
    BY <1>1, <1>2, <2>1, ShapeBalance
  <2> QED
    BY <1>10, <2>2
<1>12. Kept(pages, now, {f, b, p}, NoCarry, range, level, NoCarry, range2, level)
  <2> SUFFICES ASSUME NEW q \in UsedIn(now) \ {f, b, p}
               PROVE  /\ now[q] = pages[q] /\ range2[q] = range[q]
                      /\ \A k \in KidsOf(now)[q] : Whole(NoCarry, range2)[k] = Whole(NoCarry, range)[k]
    BY DEF Kept
  <2>1. q \in PageNo /\ q \in UsedIn(pages)
    BY <1>1, <1>10
  <2>2. ASSUME NEW k \in KidsOf(now)[q]
        PROVE  Whole(NoCarry, range2)[k] = Whole(NoCarry, range)[k]
    <3>1. k \in KidsOf(pages)[q] /\ k \in PageNo
      BY <1>1, <1>10, <2>1
    <3>2. k # f /\ k # b
      BY <1>1, <1>2, <2>1, <3>1
    <3> QED
      BY <1>5, <3>1, <3>2, WholeNone
  <2> QED
    BY <1>5, <1>8, <2>1, <2>2
<1>13. Fitting(now, {f, b, p}, NoCarry, range2, level)
  <2>1. Formed(now[p]) /\ Divides(now[p], range2[p], Whole(NoCarry, range2))
    BY <1>1, <1>2, <1>5, <1>6, <1>8, WholeSame
  <2>2. /\ level[f] = 0 /\ Ascends(now[f].recs) /\ KeySet(now[f].recs) \subseteq range2[f]
        /\ level[b] = 0 /\ Ascends(now[b].recs) /\ KeySet(now[b].recs) \subseteq range2[b]
    BY <1>4, <1>5, <1>8 DEF Sorted
  <2> QED
    BY <1>7, <1>8, <2>1, <2>2 DEF Fitting
<1>14. Tree(now, r, NoCarry, range2, level)
  BY <1>8, <1>11, <1>12, <1>13, TreeChanged
<1> QED
  BY <1>6, <1>7, <1>10, <1>14

\* A page that holds what two pages held.
Joining(pages, range, f, b, pf) ==
    \/ /\ pf \in LeafPages /\ pages[f].type = "leaf" /\ pages[b].type = "leaf"
       /\ pf.recs \in Sorted /\ KeySet(pf.recs) \subseteq range[f] \cup range[b]
    \/ /\ pf \in InternalPages(PageNo) /\ Formed(pf)
       /\ Kids(pf) = KidsOf(pages)[f] \cup KidsOf(pages)[b]
       /\ Divides(pf, range[f] \cup range[b], range)

\* Two children of a page, one behind the other.
Neighbours(pg, f, b) == \E i \in 1 .. pg.count : f = pg.kids[i] /\ b = pg.kids[i + 1]

\* Two neighbours become one, and their parent loses the second.
LEMMA TreeMerge ==
    ASSUME NEW pages, NEW r, NEW range, NEW level, Tree(pages, r, NoCarry, range, level),
           NEW p \in PageNo, pages[p].type = "internal", NEW f, NEW b, Neighbours(pages[p], f, b),
           NEW np, np = RemoveKid(pages[p], b).page,
           NEW pf, Joining(pages, range, f, b, pf), NEW pb \in FreePages,
           NEW now, now = Put(Put(Put(pages, f, pf), b, pb), p, np),
           NEW range2, range2 = MergedRange(range, f, b)
    PROVE  /\ Tree(now, r, NoCarry, range2, level) /\ UsedIn(now) = UsedIn(pages) \ {b}
           /\ np.type = "internal" /\ np.count = pages[p].count - 1
           /\ f \in Kids(pages[p]) /\ b \in Kids(pages[p]) /\ f # b
           /\ RemoveKid(pages[p], b).status = "ok"
<1>i. PICK i \in 1 .. pages[p].count : f = pages[p].kids[i] /\ b = pages[p].kids[i + 1]
  BY DEF Neighbours
<1>1. /\ pages \in [PageNo -> Pages] /\ Shaped(UsedIn(pages), KidsOf(pages), r, NoCarry, range, level)
      /\ range \in [PageNo -> SUBSET Nat] /\ UsedIn(pages) \subseteq PageNo \ {0}
      /\ KidsOf(pages) \in [PageNo -> SUBSET PageNo]
      /\ p \in UsedIn(pages) /\ KidsOf(pages)[p] = Kids(pages[p])
      /\ pages[p] \in InternalPages(PageNo) /\ Formed(pages[p])
      /\ Divides(pages[p], range[p], Whole(NoCarry, range))
  BY TreeKnows
<1>0. f \in Kids(pages[p]) /\ b \in Kids(pages[p]) /\ f # b
  <2>1. pages[p].count \in Nat /\ DOMAIN pages[p].kids = 1 .. pages[p].count + 1
    BY <1>1, PageShape DEF Formed
  <2>2. i \in DOMAIN pages[p].kids /\ i + 1 \in DOMAIN pages[p].kids /\ i # i + 1
    BY <2>1
  <2>3. f \in Kids(pages[p]) /\ b \in Kids(pages[p])
    BY <1>i, <2>2 DEF Kids
  <2>4. f # b
    BY <1>i, <1>1, <2>2 DEF Formed
  <2> QED
    BY <2>3, <2>4
<1>2. /\ f \in UsedIn(pages) /\ b \in UsedIn(pages) /\ f # p /\ b # p
      /\ level[p] = level[f] + 1 /\ level[p] = level[b] + 1
      /\ \A q \in UsedIn(pages) : level[q] \in Nat
      /\ \A q \in UsedIn(pages) : \A k \in KidsOf(pages)[q] :
            /\ level[q] = level[k] + 1 /\ k \in UsedIn(pages)
            /\ \A x \in UsedIn(pages) : k \in KidsOf(pages)[x] => x = q
  BY <1>0, <1>1, ShapeKids
<1>3. f \in PageNo /\ b \in PageNo /\ range[f] \subseteq Nat /\ range[b] \subseteq Nat
  BY <1>1, <1>2
<1>4. level[f] = level[b]
  BY <1>2
<1>5. /\ range2 \in [PageNo -> SUBSET Nat] /\ range2[f] = range[f] \cup range[b]
      /\ \A q \in PageNo : q # f => range2[q] = range[q]
  BY <1>1, <1>3 DEF MergedRange
<1>6. /\ np \in InternalPages(PageNo) /\ np.count = pages[p].count - 1
      /\ Formed(np) /\ Kids(np) = Kids(pages[p]) \ {b} /\ Divides(np, range[p], range2)
  <2> DEFINE pg == pages[p]
             R == range[p]
  <2>1. /\ pg \in InternalPages(PageNo) /\ Formed(pg) /\ i \in 1 .. pg.count
        /\ f = pg.kids[i] /\ b = pg.kids[i + 1]
        /\ np = RemoveKid(pg, pg.kids[i + 1]).page /\ R \in SUBSET Nat /\ Divides(pg, R, range)
        /\ range2[pg.kids[i]] = range[pg.kids[i]] \cup range[pg.kids[i + 1]]
    BY <1>i, <1>1, <1>5, WholeSame
  <2>2. \A k \in Kids(pg) : k # pg.kids[i] /\ k # pg.kids[i + 1] => range2[k] = range[k]
    <3>1. f = pg.kids[i] /\ pg \in InternalPages(PageNo)
      BY <2>1
    <3>2. \A q \in PageNo : q # f => range2[q] = range[q]
      BY <1>5
    <3>3. Kids(pg) \subseteq PageNo
      <4> HIDE DEF pg, R
      <4> QED
        BY <3>1, PageShape DEF Kids
    <3> HIDE DEF pg, R
    <3> QED
      BY <3>1, <3>2, <3>3
  <2> HIDE DEF pg, R
  <2>3. /\ np \in InternalPages(PageNo) /\ np.count = pg.count - 1
        /\ Formed(np) /\ Kids(np) = Kids(pg) \ {pg.kids[i + 1]} /\ Divides(np, R, range2)
    BY <2>1, <2>2, RemoveKidDivides
  <2> QED
    BY <2>1, <2>3 DEF pg, R
<1>7. /\ np \in Pages /\ np.type = "internal" /\ pb \in Pages /\ pb.type = "free"
      /\ pf \in Pages /\ pf.type \in {"leaf", "internal"}
  BY <1>6, PageKinds DEF Joining
<1>8. /\ now \in [PageNo -> Pages] /\ now[f] = pf /\ now[b] = pb /\ now[p] = np
      /\ \A q \in PageNo : q # f /\ q # b /\ q # p => now[q] = pages[q]
  <2>1. /\ pages \in [PageNo -> Pages] /\ f \in PageNo /\ b \in PageNo /\ f # p /\ b # p /\ f # b
        /\ pf \in Pages /\ pb \in Pages /\ np \in Pages
    BY <1>0, <1>1, <1>2, <1>3, <1>7
  <2> DEFINE one == Put(pages, f, pf)
             two == Put(one, b, pb)
  <2>2. one \in [PageNo -> Pages] /\ one[f] = pf /\ \A q \in PageNo : q # f => one[q] = pages[q]
    BY <2>1 DEF Put
  <2> HIDE DEF one
  <2>3. two \in [PageNo -> Pages] /\ two[b] = pb /\ \A q \in PageNo : q # b => two[q] = one[q]
    BY <2>1, <2>2 DEF Put
  <2> HIDE DEF two
  <2>4. now = Put(two, p, np)
    BY DEF one, two
  <2>5. now \in [PageNo -> Pages] /\ now[p] = np /\ \A q \in PageNo : q # p => now[q] = two[q]
    BY <2>1, <2>3, <2>4 DEF Put
  <2> QED
    BY <2>1, <2>2, <2>3, <2>5
<1>9. /\ KidsOf(now)[f] = KidsOf(pages)[f] \cup KidsOf(pages)[b] /\ f \in UsedIn(now)
      /\ KidsOf(now)[b] = {} /\ b \notin UsedIn(now)
      /\ KidsOf(now)[p] = Kids(np) /\ p \in UsedIn(now)
  <2>1. /\ KidsOf(now)[b] = {} /\ b \notin UsedIn(now)
        /\ KidsOf(now)[p] = Kids(np) /\ p \in UsedIn(now)
    <3>1. b \in PageNo /\ now[b].type = "free" /\ p \in PageNo /\ now[p].type = "internal"
          /\ now[p] = np
      BY <1>3, <1>7, <1>8
    <3>2. KidsOf(now)[b] = {} /\ b \notin UsedIn(now)
      BY <3>1 DEF KidsOf, UsedIn
    <3>3. KidsOf(now)[p] = Kids(np) /\ p \in UsedIn(now)
      BY <3>1 DEF KidsOf, UsedIn
    <3> QED
      BY <3>2, <3>3
  <2>2. CASE pf \in LeafPages /\ pages[f].type = "leaf" /\ pages[b].type = "leaf"
    <3>1. KidsOf(pages)[f] = {} /\ KidsOf(pages)[b] = {}
      BY <1>1, <1>3, <2>2, KindsOf
    <3>2. pf.type = "leaf"
      BY <2>2, PageKinds
    <3>3. KidsOf(now)[f] = {} /\ f \in UsedIn(now)
      BY <1>3, <1>8, <3>2 DEF KidsOf, UsedIn
    <3> QED
      BY <2>1, <3>1, <3>3
  <2>3. CASE pf \in InternalPages(PageNo) /\ Kids(pf) = KidsOf(pages)[f] \cup KidsOf(pages)[b]
    <3>1. pf.type = "internal"
      BY <2>3, PageKinds
    <3>2. KidsOf(now)[f] = Kids(pf) /\ f \in UsedIn(now)
      BY <1>3, <1>8, <3>1, KindsOf
    <3> QED
      BY <2>1, <2>3, <3>2
  <2> QED
    BY <2>2, <2>3 DEF Joining
<1>10. \A q \in PageNo : q # f /\ q # b /\ q # p =>
          KidsOf(now)[q] = KidsOf(pages)[q] /\ (q \in UsedIn(now) <=> q \in UsedIn(pages))
  BY <1>1, <1>8, KindsOf
<1>11. UsedIn(now) = UsedIn(pages) \ {b}
  <2>1. UsedIn(now) \subseteq PageNo /\ UsedIn(pages) \subseteq PageNo
    BY DEF UsedIn
  <2>2. \A q \in PageNo : q \in UsedIn(now) <=> q \in UsedIn(pages) \ {b}
    <3> TAKE q \in PageNo
    <3>1. CASE q = b
      BY <1>9, <3>1
    <3>2. CASE q = f
      BY <1>0, <1>2, <1>9, <3>2
    <3>3. CASE q = p
      BY <1>1, <1>2, <1>9, <3>3
    <3>4. CASE q # f /\ q # b /\ q # p
      BY <1>10, <3>4
    <3> QED
      BY <3>1, <3>2, <3>3, <3>4
  <2> QED
    BY <2>1, <2>2
<1>12. Shaped(UsedIn(now), KidsOf(now), r, NoCarry, range2, level)
  <2> DEFINE new == KidsOf(now)
             kids == KidsOf(pages)
  <2>1. /\ new \in [PageNo -> SUBSET PageNo] /\ f \in kids[p] /\ b \in kids[p] /\ f # b
        /\ new[p] = kids[p] \ {b} /\ new[f] = kids[f] \cup kids[b] /\ new[b] = {}
    BY <1>0, <1>1, <1>6, <1>8, <1>9, PageTypes
  <2>2. \A q \in PageNo : q \notin {p, f, b} => new[q] = kids[q]
    BY <1>10
  <2>3. Shaped(UsedIn(pages), kids, r, NoCarry, range, level) /\ p \in UsedIn(pages)
    BY <1>1
  <2> HIDE DEF new, kids
  <2>4. Shaped(UsedIn(pages) \ {b}, new, r, NoCarry, range2, level)
    BY <2>1, <2>2, <2>3, ShapeMerge
  <2> QED
    BY <1>11, <2>4 DEF new
<1>13. Kept(pages, now, {f, b, p}, NoCarry, range, level, NoCarry, range2, level)
  <2> SUFFICES ASSUME NEW q \in UsedIn(now) \ {f, b, p}
               PROVE  /\ now[q] = pages[q] /\ range2[q] = range[q]
                      /\ \A k \in KidsOf(now)[q] : Whole(NoCarry, range2)[k] = Whole(NoCarry, range)[k]
    BY DEF Kept
  <2>1. q \in PageNo /\ q \in UsedIn(pages) /\ q # f /\ q # b /\ q # p
    BY <1>1, <1>11
  <2>2. ASSUME NEW k \in KidsOf(now)[q]
        PROVE  Whole(NoCarry, range2)[k] = Whole(NoCarry, range)[k]
    <3>1. k \in KidsOf(pages)[q] /\ k \in PageNo
      BY <1>1, <1>10, <2>1
    <3>2. k # f
      BY <1>0, <1>1, <1>2, <2>1, <3>1
    <3> QED
      BY <1>5, <3>1, <3>2, WholeNone
  <2> QED
    BY <1>5, <1>8, <2>1, <2>2
<1>14. Fitting(now, {f, b, p}, NoCarry, range2, level)
  <2>1. Formed(now[p]) /\ Divides(now[p], range2[p], Whole(NoCarry, range2))
    BY <1>1, <1>2, <1>5, <1>6, <1>8, WholeSame
  <2>2. now[f].type = "leaf" =>
           level[f] = 0 /\ Ascends(now[f].recs) /\ KeySet(now[f].recs) \subseteq range2[f]
    <3> SUFFICES ASSUME now[f].type = "leaf"
                 PROVE  level[f] = 0 /\ Ascends(now[f].recs) /\ KeySet(now[f].recs) \subseteq range2[f]
      OBVIOUS
    <3>1. /\ pf \in LeafPages /\ pages[f].type = "leaf"
          /\ pf.recs \in Sorted /\ KeySet(pf.recs) \subseteq range[f] \cup range[b]
      BY <1>8, PageKinds DEF Joining
    <3>2. level[f] = 0
      BY <1>3, <3>1, TreeKnows
    <3> QED
      BY <1>5, <1>8, <3>1, <3>2 DEF Sorted
  <2>3. now[f].type = "internal" =>
           Formed(now[f]) /\ Divides(now[f], range2[f], Whole(NoCarry, range2))
    <3> SUFFICES ASSUME now[f].type = "internal"
                 PROVE  Formed(now[f]) /\ Divides(now[f], range2[f], Whole(NoCarry, range2))
      OBVIOUS
    <3>1. /\ pf \in InternalPages(PageNo) /\ Formed(pf)
          /\ Kids(pf) = KidsOf(pages)[f] \cup KidsOf(pages)[b]
          /\ Divides(pf, range[f] \cup range[b], range)
      BY <1>8, PageKinds DEF Joining
    <3>2. \A k \in Kids(pf) : range2[k] = range[k]
      <4> TAKE k \in Kids(pf)
      <4>1. k \in KidsOf(pages)[f] \/ k \in KidsOf(pages)[b]
        BY <3>1
      <4>2. level[f] = level[k] + 1 /\ k \in UsedIn(pages) /\ level[k] \in Nat
        BY <1>2, <1>4, <4>1
      <4>3. k # f /\ k \in PageNo
        BY <1>1, <4>2
      <4> QED
        BY <1>5, <4>3
    <3> DEFINE R == range[f] \cup range[b]
    <3>3. R = range2[f] /\ Divides(pf, R, range)
      BY <1>5, <3>1
    <3> HIDE DEF R
    <3>4. Divides(pf, R, range2)
      BY <3>1, <3>2, <3>3, DividesSame
    <3> QED
      BY <1>5, <1>8, <3>1, <3>3, <3>4, WholeSame
  <2>4. now[b].type = "free" /\ now[p].type = "internal"
    BY <1>7, <1>8
  <2>5. now[b].type # "leaf" /\ now[b].type # "internal" /\ now[p].type # "leaf"
    BY <2>4
  <2>6. \A q \in {f, b, p} : now[q].type = "leaf" => q = f
    BY <2>5
  <2>7. \A q \in {f, b, p} : now[q].type = "internal" => q = f \/ q = p
    BY <2>5
  <2> QED
    BY <2>1, <2>2, <2>3, <2>6, <2>7 DEF Fitting
<1>15. Tree(now, r, NoCarry, range2, level)
  <2> DEFINE changed == {f, b, p}
  <2>1. /\ now \in [PageNo -> Pages] /\ Tree(pages, r, NoCarry, range, level)
        /\ Shaped(UsedIn(now), KidsOf(now), r, NoCarry, range2, level)
        /\ Kept(pages, now, changed, NoCarry, range, level, NoCarry, range2, level)
        /\ Fitting(now, changed, NoCarry, range2, level)
    BY <1>8, <1>12, <1>13, <1>14
  <2> HIDE DEF changed
  <2> QED
    BY <2>1, TreeChanged
<1>16. RemoveKid(pages[p], b).status = "ok"
  BY <1>i, <1>1, RemoveKidWrites
<1> QED
  BY <1>0, <1>6, <1>7, <1>11, <1>15, <1>16

-----------------------------------------------------------------------------
(* The parts of the invariant                                              *)

\* Calls that remove nothing.
Inserting(calls) == \A i \in DOMAIN calls : calls[i].kind = "insert"

\* A run of inserts.
OnlyInserts == ~Removals /\ \A plan \in Plans : Inserting(plan.calls)

\* Pages beyond the file are unused.
Counted(pages, count) == \A p \in PageNo : p >= count => pages[p] = Unused

\* A page without keys, which removals leave behind, is above internal pages.
FedOK(pages, level, but) ==
    \A p \in InternalsOf(pages) \ but : pages[p].count = 0 => ~OnlyInserts /\ level[p] >= 2

\* While nothing is removed, the page in front of a leaf is a leaf with smaller keys,
\* and only the first leaf has none in front.
Backward(pages, range) ==
    OnlyInserts =>
        \A p \in LeavesOf(pages) :
            /\ pages[p].prev = 0 <=> 0 \in range[p]
            /\ pages[p].prev # 0 =>
                  /\ pages[p].prev \in LeavesOf(pages)
                  /\ \A k \in range[pages[p].prev] : \A l \in range[p] : k < l

\* The leaves from the first to the last along next_page, each with smaller keys than
\* those behind it.
Listed(pages, range, order) ==
    /\ order \in Seq(PageNo) /\ Len(order) > 0 /\ 0 \in range[order[1]]
    /\ LeavesOf(pages) = {order[i] : i \in 1 .. Len(order)}
    /\ \A i, j \in 1 .. Len(order) : order[i] = order[j] => i = j
    /\ \A i \in 1 .. Len(order) :
          pages[order[i]].next = IF i < Len(order) THEN order[i + 1] ELSE 0
    /\ \A i, j \in 1 .. Len(order) :
          i < j => \A k \in range[order[i]] : \A l \in range[order[j]] : k < l

\* While nothing is removed, there is such a list.
Forward(pages, range) == OnlyInserts => \E order : Listed(pages, range, order)

Linked(pages, range) == Backward(pages, range) /\ Forward(pages, range)

\* A tree between two calls.
Resting(pages, r, range, level) ==
    Tree(pages, r, NoCarry, range, level) /\ FedOK(pages, level, {}) /\ Linked(pages, range)

\* The pages passed on the way down are a path, one level after the other.
Path(pages, s, r, level) ==
    /\ s \in Seq(PageNo)
    /\ s # <<>> => s[1] = r
    /\ \A j \in 1 .. Len(s) : s[j] \in UsedIn(pages) /\ level[s[j]] + j = level[r] + 1
    /\ \A j \in 1 .. Len(s) : j < Len(s) => HasKid(pages[s[j]], s[j + 1])

\* The page in the loop is the root, or a child of the page on top of the stack.
Follows(pages, s, r, no) == IF s = <<>> THEN no = r ELSE HasKid(pages[s[Len(s)]], no)

\* adjust_tree's pointer is on the page it is at, or on one further down.
PointerOK(pages, level, u) ==
    /\ u \in [pointer : PageNo, no : InternalsOf(pages)]
    /\ u.pointer # u.no =>
          /\ level[u.no] >= 2
          /\ \/ pages[u.pointer].type = "free"
             \/ /\ pages[u.pointer].type = "internal" /\ pages[u.pointer].count > 0
                /\ level[u.pointer] < level[u.no]

\* What is looked for lies in the range of the page; a key to insert is new, a
\* key to remove is there.
SearchOK(pages, s, o, range) ==
    /\ s # <<>> /\ o.key \in Keys /\ o.key \in range[s[Len(s)]]
    /\ \/ /\ o.kind = "insert" /\ o.size \in Sizes
          /\ \A p \in LeavesOf(pages) : o.key \notin KeySet(pages[p].recs)
       \/ /\ o.kind = "remove" /\ ~OnlyInserts
          /\ \E p \in LeavesOf(pages) : o.key \in KeySet(pages[p].recs)

\* The calls by where they are.
Searching(range, level) ==
    pc = "search" /\ SearchOK(page, stack, op, range) /\ Resting(page, root, range, level) /\ carry = NoCarry

InsertingUp(range, level) ==
    /\ pc = "insert_up" /\ carry # NoCarry /\ Follows(page, stack, root, carry.front)
    /\ Tree(page, root, carry, range, level) /\ FedOK(page, level, {}) /\ Linked(page, range)

AdjustingLeaf(range, level) ==
    /\ pc = "adjust_leaf" /\ ~OnlyInserts /\ Len(stack) > 1 /\ page[stack[Len(stack)]].type = "leaf"
    /\ Resting(page, root, range, level) /\ carry = NoCarry

AdjustingUp(range, level) ==
    /\ pc = "adjust_up" /\ ~OnlyInserts /\ carry = NoCarry
    /\ Tree(page, root, carry, range, level) /\ FedOK(page, level, {upper.no})
    /\ Follows(page, stack, root, upper.no) /\ PointerOK(page, level, upper)

Calling(range, level) ==
    /\ Path(page, stack, root, level)
    /\ \/ pc = "idle" /\ stack = <<>> /\ carry = NoCarry /\ Resting(page, root, range, level)
       \/ Searching(range, level) \/ InsertingUp(range, level)
       \/ AdjustingLeaf(range, level) \/ AdjustingUp(range, level)
       \/ pc = "aborted" /\ Tree(page, root, carry, range, level)

\* The file is a tree of its own unless a commit left out a page.
DiskOK ==
    ~torn =>
        /\ disk.free \in Nat /\ disk.pageCount \in 2 .. MaxPages
        /\ Counted(disk.page, disk.pageCount)
        /\ \E range, level : Resting(disk.page, disk.root, range, level)

\* A search that failed has found a page without keys.
FailOK ==
    /\ fail # "none" => pc = "aborted"
    /\ fail = "search_page" => Starved(page) # {}

\* What is marked as written, the free list and the rest of the file.
FileOK ==
    /\ free \in Nat /\ pageCount \in 2 .. MaxPages
    /\ dirty \subseteq 1 .. pageCount - 1
    /\ Counted(page, pageCount)

\* What is left of a plan.
PlanOK == ops \in Plan /\ (OnlyInserts => Inserting(ops.calls))

IInv ==
    ~broken =>
        /\ FileOK /\ writing \in BOOLEAN /\ PlanOK /\ FailOK /\ DiskOK
        /\ \E range, level : Calling(range, level)

-----------------------------------------------------------------------------
(* Paths                                                                   *)

\* A page in use lies within the file.
LEMMA UsedBelow ==
    ASSUME NEW pages, NEW count \in Nat, Counted(pages, count), UsedIn(pages) \subseteq PageNo \ {0},
           NEW p \in UsedIn(pages)
    PROVE  p \in 1 .. count - 1
<1>1. p \in PageNo /\ p # 0 /\ pages[p].type \in {"leaf", "internal"}
  BY DEF UsedIn
<1>2. pages[p] # Unused
  BY <1>1 DEF Unused
<1>3. ~(p >= count)
  BY <1>1, <1>2 DEF Counted
<1>4. p \in Nat
  BY <1>1, BTreeAssumption DEF PageNo
<1> QED
  BY <1>1, <1>3, <1>4

\* The last page of a path, and the one above it.
LEMMA PathTop ==
    ASSUME NEW pages, NEW s, NEW r, NEW level, Path(pages, s, r, level), s # <<>>
    PROVE  /\ Len(s) \in Nat /\ Len(s) > 0 /\ Last(s) = s[Len(s)]
           /\ s[Len(s)] \in UsedIn(pages) /\ s[Len(s)] \in PageNo
           /\ level[s[Len(s)]] + Len(s) = level[r] + 1
           /\ Len(s) > 1 =>
                 /\ s[Len(s) - 1] \in UsedIn(pages) /\ s[Len(s) - 1] \in PageNo
                 /\ HasKid(pages[s[Len(s) - 1]], s[Len(s)])
<1>1. s \in Seq(PageNo) /\ Len(s) \in Nat /\ Len(s) > 0
  BY DEF Path
<1>2. Len(s) \in 1 .. Len(s) /\ (Len(s) > 1 => Len(s) - 1 \in 1 .. Len(s) /\ Len(s) - 1 < Len(s))
  BY <1>1
<1>3. \A j \in 1 .. Len(s) : s[j] \in PageNo
  BY <1>1
<1>4. Len(s) > 1 => HasKid(pages[s[Len(s) - 1]], s[Len(s)])
  <2> SUFFICES ASSUME Len(s) > 1 PROVE HasKid(pages[s[Len(s) - 1]], s[Len(s)])
    OBVIOUS
  <2> DEFINE n == Len(s) - 1
  <2>1. n \in 1 .. Len(s) /\ n < Len(s) /\ n + 1 = Len(s)
    BY <1>1, <1>2
  <2>2. HasKid(pages[s[n]], s[n + 1])
    BY <2>1 DEF Path
  <2> QED
    BY <2>1, <2>2
<1>5. Last(s) = s[Len(s)]
  BY DEF Last
<1> QED
  BY <1>1, <1>2, <1>3, <1>4, <1>5 DEF Path

\* The first m pages of a path as they are now.
Passes(now, s, m, level, level2) ==
    \A j \in 1 .. m : /\ s[j] \in UsedIn(now) /\ level2[s[j]] = level[s[j]]
                      /\ j < Len(s) => HasKid(now[s[j]], s[j + 1])

\* The upper part of a path is a path to the page that follows it.
LEMMA PathPart ==
    ASSUME NEW pages, NEW s, NEW r, NEW level, Path(pages, s, r, level),
           NEW now, NEW level2, NEW m \in 0 .. Len(s), NEW t, t = SubSeq(s, 1, m),
           Passes(now, s, m, level, level2)
    PROVE  Path(now, t, r, level2) /\ (m < Len(s) => Follows(now, t, r, s[m + 1]))
<1>0. \A j \in 1 .. m : /\ s[j] \in UsedIn(now) /\ level2[s[j]] = level[s[j]]
                        /\ j < Len(s) => HasKid(now[s[j]], s[j + 1])
  BY DEF Passes
<1>1. s \in Seq(PageNo) /\ Len(s) \in Nat /\ m \in Nat /\ m <= Len(s)
  BY DEF Path
<1>2. t \in Seq(PageNo) /\ Len(t) = m /\ \A j \in 1 .. m : t[j] = s[j]
  BY <1>1
<1>3. m > 0 => s # <<>> /\ s[1] = r /\ level2[r] = level[r]
  <2> HAVE m > 0
  <2>1. s # <<>> /\ 1 \in 1 .. m
    BY <1>1
  <2>2. s[1] = r
    BY <2>1 DEF Path
  <2> QED
    BY <1>0, <2>1, <2>2
<1>4. t # <<>> => m > 0 /\ 1 \in 1 .. m
  BY <1>1, <1>2
<1>5. t # <<>> => t[1] = r
  BY <1>2, <1>3, <1>4
<1>6. \A j \in 1 .. Len(t) : t[j] \in UsedIn(now) /\ level2[t[j]] + j = level2[r] + 1
  <2> TAKE j \in 1 .. Len(t)
  <2>1. j \in 1 .. m /\ j \in 1 .. Len(s) /\ m > 0
    BY <1>1, <1>2
  <2>2. level[s[j]] + j = level[r] + 1
    BY <2>1 DEF Path
  <2> QED
    BY <1>0, <1>2, <1>3, <2>1, <2>2
<1>7. \A j \in 1 .. Len(t) : j < Len(t) => HasKid(now[t[j]], t[j + 1])
  <2> TAKE j \in 1 .. Len(t)
  <2> HAVE j < Len(t)
  <2>1. j \in 1 .. m /\ j + 1 \in 1 .. m /\ j < Len(s)
    BY <1>1, <1>2
  <2> QED
    BY <1>0, <1>2, <2>1
<1>8. Path(now, t, r, level2)
  BY <1>2, <1>5, <1>6, <1>7 DEF Path
<1>9. m < Len(s) => Follows(now, t, r, s[m + 1])
  <2> SUFFICES ASSUME m < Len(s) PROVE Follows(now, t, r, s[m + 1])
    OBVIOUS
  <2>0. m < Len(s)
    OBVIOUS
  <2>1. CASE m = 0
    <3>1. t = <<>> /\ s # <<>>
      BY <1>1, <1>2, <2>1
    <3>2. s[m + 1] = r
      BY <2>1, <3>1 DEF Path
    <3> QED
      BY <3>1, <3>2 DEF Follows
  <2>2. CASE m > 0
    <3>0. m \in 1 .. m
      BY <1>1, <2>2
    <3>1. t # <<>> /\ t[Len(t)] = s[m]
      BY <1>2, <2>2, <3>0
    <3>2. HasKid(now[s[m]], s[m + 1])
      BY <1>0, <2>0, <3>0
    <3> QED
      BY <3>1, <3>2 DEF Follows
  <2> QED
    BY <1>1, <2>1, <2>2
<1> QED
  BY <1>8, <1>9

\* Pages above a level stay.
HigherStay(pages, now, level, level2, low) ==
    \A q \in UsedIn(pages) : level[q] > low => now[q] = pages[q] /\ level2[q] = level[q]

\* So it is when only pages no higher than the one that follows it change.
LEMMA PathKept ==
    ASSUME NEW pages, NEW s, NEW r, NEW level, Path(pages, s, r, level),
           level \in [PageNo -> Nat], NEW now, NEW level2,
           NEW m \in 0 .. Len(s), m < Len(s), NEW t, t = SubSeq(s, 1, m),
           NEW next, next = s[m + 1], HigherStay(pages, now, level, level2, level[next])
    PROVE  Path(now, t, r, level2) /\ Follows(now, t, r, next)
<1>1. s \in Seq(PageNo) /\ Len(s) \in Nat /\ m \in Nat
  BY DEF Path
<1>2. \A j \in 1 .. Len(s) : /\ s[j] \in UsedIn(pages) /\ level[s[j]] + j = level[r] + 1
                             /\ level[s[j]] \in Nat /\ (j < Len(s) => HasKid(pages[s[j]], s[j + 1]))
  BY DEF Path, UsedIn
<1>3. level[r] \in Nat
  <2>1. s # <<>>
    BY <1>1
  <2>2. 1 \in 1 .. Len(s) /\ s[1] = r
    BY <1>1, <2>1 DEF Path
  <2> QED
    BY <1>2, <2>2
<1>4. \A j \in 1 .. m : /\ j \in 1 .. Len(s) /\ now[s[j]] = pages[s[j]] /\ level2[s[j]] = level[s[j]]
  <2> TAKE j \in 1 .. m
  <2>1. j \in 1 .. Len(s) /\ m + 1 \in 1 .. Len(s) /\ j < m + 1
    BY <1>1
  <2> DEFINE a == level[s[j]]
             b == level[s[m + 1]]
  <2>2. a \in Nat /\ b \in Nat /\ a + j = level[r] + 1 /\ b + (m + 1) = level[r] + 1
    BY <1>2, <2>1
  <2>3. a > b
    <3> HIDE DEF a, b
    <3> QED
      BY <1>1, <1>3, <2>1, <2>2
  <2> QED
    BY <1>2, <2>1, <2>3 DEF HigherStay
<1>5. \A j \in 1 .. m : s[j] \in UsedIn(now) /\ level2[s[j]] = level[s[j]]
  BY <1>2, <1>4 DEF UsedIn
<1>6. \A j \in 1 .. m : j < Len(s) => HasKid(now[s[j]], s[j + 1])
  BY <1>2, <1>4
<1>7. Path(now, t, r, level2) /\ (m < Len(s) => Follows(now, t, r, s[m + 1]))
  <2>1. Passes(now, s, m, level, level2)
    BY <1>5, <1>6 DEF Passes
  <2>2. Path(pages, s, r, level) /\ m \in 0 .. Len(s) /\ t = SubSeq(s, 1, m)
    OBVIOUS
  <2>3. Path(now, t, r, level2)
    BY <2>1, <2>2, PathPart
  <2>4. m < Len(s) => Follows(now, t, r, s[m + 1])
    BY <2>1, <2>2, PathPart
  <2> QED
    BY <2>3, <2>4
<1> QED
  BY <1>7

\* And when only leaves change.
LEMMA PathSame ==
    ASSUME NEW pages, NEW s, NEW r, NEW level, Path(pages, s, r, level),
           NEW now, UsedIn(now) = UsedIn(pages),
           \A q \in UsedIn(pages) : pages[q].type = "internal" => now[q] = pages[q]
    PROVE  Path(now, s, r, level)
<1>1. \A j \in 1 .. Len(s) : j < Len(s) => HasKid(now[s[j]], s[j + 1])
  <2> TAKE j \in 1 .. Len(s)
  <2> HAVE j < Len(s)
  <2>1. s[j] \in UsedIn(pages) /\ HasKid(pages[s[j]], s[j + 1])
    BY DEF Path
  <2>2. now[s[j]] = pages[s[j]]
    BY <2>1 DEF HasKid
  <2> QED
    BY <2>1, <2>2
<1> QED
  BY <1>1 DEF Path

\* The first page of a path, and the next one.
LEMMA PathFirst ==
    ASSUME NEW pages, NEW r \in PageNo, r \in UsedIn(pages), NEW level, level[r] \in Nat
    PROVE  Path(pages, <<r>>, r, level)
<1>1. <<r>> \in Seq(PageNo) /\ Len(<<r>>) = 1 /\ <<r>>[1] = r
  OBVIOUS
<1>2. \A j \in 1 .. 1 : j = 1
  OBVIOUS
<1> QED
  BY <1>1, <1>2 DEF Path

LEMMA PathNext ==
    ASSUME NEW pages, NEW s, NEW r, NEW level, Path(pages, s, r, level), s # <<>>,
           NEW no \in PageNo, no \in UsedIn(pages), HasKid(pages[s[Len(s)]], no),
           level[s[Len(s)]] = level[no] + 1, level[no] \in Nat, level[r] \in Nat
    PROVE  Path(pages, Append(s, no), r, level) /\ Append(s, no) # <<>>
           /\ Append(s, no)[Len(Append(s, no))] = no
<1> DEFINE t == Append(s, no)
<1>1. s \in Seq(PageNo) /\ Len(s) \in Nat /\ Len(s) > 0
  BY DEF Path
<1>2. /\ t \in Seq(PageNo) /\ Len(t) = Len(s) + 1 /\ t[Len(s) + 1] = no
      /\ \A j \in 1 .. Len(s) : t[j] = s[j]
  BY <1>1
<1> HIDE DEF t
<1>3. t # <<>> /\ t[Len(t)] = no
  BY <1>1, <1>2
<1>4. t[1] = r
  <2>1. 1 \in 1 .. Len(s) /\ s[1] = r
    BY <1>1 DEF Path
  <2> QED
    BY <1>2, <2>1
<1>5. \A j \in 1 .. Len(t) : t[j] \in UsedIn(pages) /\ level[t[j]] + j = level[r] + 1
  <2> TAKE j \in 1 .. Len(t)
  <2>1. CASE j \in 1 .. Len(s)
    BY <1>2, <2>1 DEF Path
  <2>2. CASE j = Len(s) + 1
    <3>1. level[s[Len(s)]] + Len(s) = level[r] + 1
      BY <1>1, SMTT(30) DEF Path
    <3> QED
      BY <1>1, <1>2, <2>2, <3>1, SMTT(30)
  <2> QED
    BY <1>1, <1>2, <2>1, <2>2
<1>6. \A j \in 1 .. Len(t) : j < Len(t) => HasKid(pages[t[j]], t[j + 1])
  <2> TAKE j \in 1 .. Len(t)
  <2> HAVE j < Len(t)
  <2>1. CASE j < Len(s)
    <3>1. j \in 1 .. Len(s) /\ j + 1 \in 1 .. Len(s)
      BY <1>1, <1>2, <2>1
    <3> QED
      BY <1>2, <2>1, <3>1 DEF Path
  <2>2. CASE j = Len(s)
    BY <1>1, <1>2, <2>2
  <2> QED
    BY <1>1, <1>2, <2>1, <2>2
<1>7. Path(pages, t, r, level)
  BY <1>2, <1>4, <1>5, <1>6 DEF Path
<1> QED
  BY <1>3, <1>7 DEF t

-----------------------------------------------------------------------------
(* What the steps have in common                                           *)

\* The keys a page buffer holds are numbers.
LEMMA OldKeysAre ==
    ASSUME page \in [PageNo -> Pages], NEW no \in PageNo
    PROVE  \A old \in OldKeys(no) : old \in [Slots -> Nat]
<1>1. \A old \in Leftovers : old \in [Slots -> Nat]
  BY LeftoversAssumption
<1>2. page[no].type = "free" => page[no].keys \in [Slots -> Nat] \cup {<<>>}
  BY PageTypes DEF FreePages
<1> QED
  BY <1>1, <1>2 DEF OldKeys

\* release_page makes it a free page.
LEMMA Releases ==
    ASSUME page \in [PageNo -> Pages], free \in Nat, NEW no \in PageNo
    PROVE  Released(no) \in FreePages
<1>1. page[no].type = "internal" => page[no].keys \in [Slots -> Nat]
  BY PageTypes, PageShape
<1>2. page[no].type = "internal" => page[no].count \in Nat
  BY PageTypes, PageShape
<1>3. PageSize \in Nat
  BY BTreeAssumption
<1> QED
  BY <1>1, <1>2, <1>3 DEF Released, FreePages

\* A page past the file's end or on the free list is taken.
LEMMA Allocates ==
    ASSUME page \in [PageNo -> Pages], FileOK, CanAllocate, Allocate
    PROVE  /\ Allocated \in PageNo /\ Allocated # 0 /\ Allocated \notin UsedIn(page)
           /\ free' \in Nat /\ pageCount' \in 2 .. MaxPages /\ pageCount <= pageCount'
           /\ Allocated \in 1 .. pageCount' - 1
<1>1. pageCount \in Nat /\ pageCount >= 2 /\ pageCount <= MaxPages /\ MaxPages \in Nat /\ free \in Nat
  BY BTreeAssumption DEF FileOK
<1>2. CASE free # 0
  <2>1. free \in 0 .. pageCount - 1 /\ page[free].type = "free" /\ Allocated = free
    BY <1>2 DEF CanAllocate, IsType, Exists, Allocated
  <2>2. free \in PageNo
    BY <1>1, <2>1 DEF PageNo
  <2>3. page[free].word \in Nat
    BY <2>1, <2>2, PageTypes DEF FreePages
  <2>4. free' = page[free].word /\ pageCount' = pageCount
    BY <1>2 DEF Allocate
  <2>5. free \notin UsedIn(page)
    BY <2>1 DEF UsedIn
  <2>6. free \in 1 .. pageCount - 1
    BY <1>1, <1>2, <2>1
  <2> QED
    BY <1>1, <1>2, <2>1, <2>2, <2>3, <2>4, <2>5, <2>6
<1>3. CASE free = 0
  <2>1. pageCount < MaxPages /\ pageCount' = pageCount + 1 /\ free' = free /\ Allocated = pageCount
    BY <1>3 DEF Allocate, Allocated
  <2>2. pageCount \in PageNo
    BY <1>1, <2>1 DEF PageNo
  <2>3. page[pageCount] = Unused
    BY <1>1, <2>2 DEF FileOK, Counted
  <2>4. pageCount \notin UsedIn(page)
    BY <2>3 DEF UsedIn, Unused
  <2> QED
    BY <1>1, <2>1, <2>2, <2>4
<1> QED
  BY <1>2, <1>3

\* Pages of the file are written.
LEMMA FileStays ==
    ASSUME FileOK, free' \in Nat, pageCount' \in 2 .. MaxPages, pageCount <= pageCount',
           NEW changed, changed \subseteq 1 .. pageCount' - 1,
           \A p \in PageNo : p \notin changed => page'[p] = page[p],
           dirty' \subseteq dirty \cup changed
    PROVE  FileOK'
<1>1. pageCount \in Nat /\ pageCount' \in Nat
  BY DEF FileOK
<1>0. \A q \in changed : q \in 1 .. pageCount' - 1
  OBVIOUS
<1>2. dirty' \subseteq 1 .. pageCount' - 1
  <2>1. \A q \in dirty : q \in 1 .. pageCount - 1
    BY DEF FileOK
  <2>2. \A q \in dirty : q \in 1 .. pageCount' - 1
    BY <1>1, <2>1
  <2> QED
    BY <1>0, <2>2
<1>3. Counted(page, pageCount)'
  <2> SUFFICES ASSUME NEW p \in PageNo, p >= pageCount'
               PROVE  page'[p] = Unused
    BY DEF Counted
  <2>1. p \in Nat
    BY BTreeAssumption DEF PageNo
  <2>2. p >= pageCount
    BY <1>1, <2>1
  <2>3. ASSUME NEW count \in Nat, p >= count
        PROVE  p \notin 1 .. count - 1
    BY <2>1, <2>3
  <2>4. p \notin changed
    BY <1>0, <1>1, <2>3
  <2> QED
    BY <2>2, <2>4 DEF FileOK, Counted
<1> QED
  BY <1>2, <1>3 DEF FileOK

\* A step of a call that goes on.
LEMMA GoesOn ==
    ASSUME IInv, ~broken, pc # "aborted", pc' # "aborted", Quiet, FileOK',
           NEW range, NEW level, Calling(range, level)'
    PROVE  IInv'
<1>1. writing' = writing /\ ops' = ops /\ fail' = fail /\ disk' = disk /\ torn' = torn
  BY DEF Quiet
<1>2. fail = "none" /\ writing \in BOOLEAN /\ PlanOK /\ DiskOK
  BY DEF IInv, FailOK
<1>3. DiskOK' /\ PlanOK'
  BY <1>1, <1>2 DEF DiskOK, PlanOK
<1>4. FailOK'
  BY <1>1, <1>2 DEF FailOK
<1> QED
  BY <1>1, <1>2, <1>3, <1>4 DEF IInv

\* A call that has ended leaves a tree.
LEMMA Returned ==
    ASSUME Return, NEW range, NEW level, Resting(page, root, range, level)'
    PROVE  pc' = "idle" /\ carry' = NoCarry /\ Calling(range, level)'
<1>1. pc' = "idle" /\ stack' = <<>> /\ carry' = NoCarry
  BY DEF Return
<1>2. Path(page', <<>>, root', level)
  BY DEF Path
<1> QED
  BY <1>1, <1>2 DEF Calling

\* A step that ends a call.
LEMMA Returns ==
    ASSUME IInv, ~broken, pc # "aborted", Return, Quiet, FileOK',
           NEW range, NEW level, Resting(page, root, range, level)'
    PROVE  IInv'
<1>1. pc' = "idle" /\ Calling(range, level)'
  BY Returned
<1> QED
  BY <1>1, GoesOn

\* The page a search or a loop is at.
LEMMA AtTop ==
    ASSUME NEW range, NEW level, Tree(page, root, carry, range, level),
           Path(page, stack, root, level), stack # <<>>, FileOK
    PROVE  /\ Top = stack[Len(stack)] /\ Top \in UsedIn(page) /\ Top \in PageNo
           /\ Top \in 1 .. pageCount - 1 /\ Top \in Nat /\ Top # 0
           /\ \A type : IsType(Top, type) <=> page[Top].type = type
           /\ Len(stack) \in Nat /\ Len(stack) > 0 /\ Front(stack) = SubSeq(stack, 1, Len(stack) - 1)
<1>1. Top = stack[Len(stack)] /\ Top \in UsedIn(page) /\ Top \in PageNo /\ Len(stack) \in Nat /\ Len(stack) > 0
  BY PathTop DEF Top
<1>2. pageCount \in Nat /\ Counted(page, pageCount) /\ UsedIn(page) \subseteq PageNo \ {0}
  BY TreeKnows DEF FileOK
<1>3. Top \in 1 .. pageCount - 1
  BY <1>1, <1>2, UsedBelow
<1>4. Top \in 0 .. pageCount - 1 /\ Top \in Nat /\ Top # 0
  BY <1>2, <1>3
<1>5. \A type : IsType(Top, type) <=> page[Top].type = type
  BY <1>4 DEF IsType, Exists
<1>6. Front(stack) = SubSeq(stack, 1, Len(stack) - 1)
  BY DEF Front
<1> QED
  BY <1>1, <1>3, <1>4, <1>5, <1>6

\* What is known of a call by where it is.
LEMMA CallingAt ==
    ASSUME NEW range, NEW level, Calling(range, level)
    PROVE  /\ Tree(page, root, carry, range, level) /\ Path(page, stack, root, level)
           /\ pc = "idle" => stack = <<>> /\ carry = NoCarry /\ Resting(page, root, range, level)
           /\ pc = "search" => Searching(range, level)
           /\ pc = "insert_up" => InsertingUp(range, level)
           /\ pc = "adjust_leaf" => AdjustingLeaf(range, level)
           /\ pc = "adjust_up" => AdjustingUp(range, level)
<1>1. Path(page, stack, root, level)
  BY DEF Calling
<1>2. CASE pc = "idle" /\ stack = <<>> /\ carry = NoCarry /\ Resting(page, root, range, level)
  BY <1>1, <1>2 DEF Resting
<1>3. CASE Searching(range, level)
  <2>1. pc = "search" /\ Resting(page, root, range, level) /\ carry = NoCarry
    BY <1>3 DEF Searching
  <2> QED
    BY <1>1, <1>3, <2>1 DEF Resting
<1>4. CASE InsertingUp(range, level)
  <2>1. pc = "insert_up" /\ Tree(page, root, carry, range, level)
    BY <1>4 DEF InsertingUp
  <2> QED
    BY <1>1, <1>4, <2>1
<1>5. CASE AdjustingLeaf(range, level)
  <2>1. pc = "adjust_leaf" /\ Resting(page, root, range, level) /\ carry = NoCarry
    BY <1>5 DEF AdjustingLeaf
  <2> QED
    BY <1>1, <1>5, <2>1 DEF Resting
<1>6. CASE AdjustingUp(range, level)
  <2>1. pc = "adjust_up" /\ Tree(page, root, carry, range, level)
    BY <1>6 DEF AdjustingUp
  <2> QED
    BY <1>1, <1>6, <2>1
<1>7. CASE pc = "aborted" /\ Tree(page, root, carry, range, level)
  BY <1>1, <1>7
<1> QED
  BY <1>2, <1>3, <1>4, <1>5, <1>6, <1>7 DEF Calling

\* The root of a tree has every key.
LEMMA RootHolds ==
    ASSUME NEW pages, NEW r, NEW range, NEW level, Tree(pages, r, NoCarry, range, level)
    PROVE  r \in PageNo /\ r \in UsedIn(pages) /\ range[r] = Nat
<1>1. r \in PageNo /\ RootOK(UsedIn(pages), r, NoCarry, range, level)
  BY DEF Tree, Shaped
<1>2. r \in UsedIn(pages) /\ Whole(NoCarry, range)[r] = Nat
  BY <1>1 DEF RootOK
<1> QED
  BY <1>1, <1>2, WholeNone

-----------------------------------------------------------------------------
(* Calls                                                                   *)

\* A call is the next one of the plan, or one of those that follow.
LEMMA PlanGoesOn ==
    ASSUME PlanOK, NEW kind, NEW key, NEW size, Start(kind, key, size)
    PROVE  PlanOK' /\ (OnlyInserts /\ kind = "remove" => SetUp)
<1>1. /\ ops \in [calls : Seq(Call), keys : SUBSET Keys, more : Nat]
      /\ OnlyInserts => Inserting(ops.calls)
  BY DEF PlanOK, Plan
<1>2. CASE SetUp
  <2>1. ops' = [ops EXCEPT !.more = ops.more - 1] /\ ops.more > 0
    BY <1>2 DEF Start
  <2>2. ops.more \in Nat /\ ops.more - 1 \in Nat
    BY <1>1, <2>1
  <2>3. ops'.calls = ops.calls /\ ops' \in [calls : Seq(Call), keys : SUBSET Keys, more : Nat]
    BY <1>1, <2>1, <2>2
  <2> QED
    BY <1>1, <1>2, <2>3 DEF PlanOK, Plan
<1>3. CASE ~SetUp
  <2>1. /\ ops' = [ops EXCEPT !.calls = Tail(ops.calls)] /\ op' = Head(ops.calls)
        /\ op'.kind = kind /\ ops.calls # <<>> /\ ops.calls \in Seq(Call)
    BY <1>1, <1>3 DEF Start, SetUp
  <2>2. /\ Tail(ops.calls) \in Seq(Call)
        /\ \A i \in DOMAIN Tail(ops.calls) :
              i + 1 \in DOMAIN ops.calls /\ Tail(ops.calls)[i] = ops.calls[i + 1]
        /\ 1 \in DOMAIN ops.calls /\ Head(ops.calls) = ops.calls[1]
    BY <2>1
  <2>3. ops'.calls = Tail(ops.calls) /\ ops' \in [calls : Seq(Call), keys : SUBSET Keys, more : Nat]
    BY <1>1, <2>1, <2>2
  <2>4. OnlyInserts => Inserting(ops'.calls) /\ kind = "insert"
    BY <1>1, <2>1, <2>2, <2>3 DEF Inserting
  <2> QED
    BY <2>3, <2>4 DEF PlanOK, Plan
<1> QED
  BY <1>2, <1>3

\* A call begins at the root.
LEMMA StartTree ==
    ASSUME IInv, ~broken, NEW key \in Keys, NEW kind, NEW size, Start(kind, key, size),
           NEW range, NEW level, Calling(range, level),
           \/ /\ kind = "insert" /\ size \in Sizes
              /\ \A p \in LeavesOf(page) : key \notin KeySet(page[p].recs)
           \/ /\ kind = "remove" /\ ~OnlyInserts
              /\ \E p \in LeavesOf(page) : key \in KeySet(page[p].recs)
    PROVE  Calling(range, level)'
<1>2. /\ pc = "idle" /\ pc' = "search" /\ stack' = <<root>>
      /\ page' = page /\ root' = root /\ free' = free /\ pageCount' = pageCount /\ dirty' = dirty
      /\ disk' = disk /\ writing' = writing /\ carry' = carry /\ fail' = fail /\ torn' = torn
      /\ op'.kind = kind /\ op'.key = key /\ op'.size = size
  BY DEF Start, treeVars
<1>3. Resting(page, root, range, level) /\ carry = NoCarry
  BY <1>2, CallingAt
<1>4. root \in PageNo /\ root \in UsedIn(page) /\ range[root] = Nat /\ level[root] \in Nat
  <2>1. Tree(page, root, NoCarry, range, level)
    BY <1>3 DEF Resting
  <2>2. level \in [PageNo -> Nat]
    BY <2>1, TreeKnows
  <2> QED
    BY <2>1, <2>2, RootHolds
<1>5. Path(page, <<root>>, root, level)
  BY <1>4, PathFirst
<1>6. SearchOK(page, stack', op', range)
  <2>1. key \in Nat
    BY BTreeAssumption
  <2>2. stack' # <<>> /\ stack'[Len(stack')] = root
    BY <1>2
  <2> QED
    BY <1>2, <1>4, <2>1, <2>2 DEF SearchOK
<1>7. Searching(range, level)'
  BY <1>2, <1>3, <1>6 DEF Searching
<1>8. Path(page, stack, root, level)'
  BY <1>2, <1>5
<1> QED
  BY <1>7, <1>8 DEF Calling

LEMMA StartStep ==
    ASSUME IInv, ~broken, NEW key \in Keys, NEW kind, NEW size, Start(kind, key, size),
           \/ /\ kind = "insert" /\ size \in Sizes
              /\ \A p \in LeavesOf(page) : key \notin KeySet(page[p].recs)
           \/ /\ kind = "remove" /\ ~OnlyInserts
              /\ \E p \in LeavesOf(page) : key \in KeySet(page[p].recs)
    PROVE  IInv'
<1>1. PICK range, level : Calling(range, level)
  BY DEF IInv
<1>2. /\ pc = "idle" /\ pc' = "search" /\ stack' = <<root>>
      /\ page' = page /\ root' = root /\ free' = free /\ pageCount' = pageCount /\ dirty' = dirty
      /\ disk' = disk /\ writing' = writing /\ carry' = carry /\ fail' = fail /\ torn' = torn
      /\ op'.kind = kind /\ op'.key = key /\ op'.size = size
  BY DEF Start, treeVars
<1>3. Calling(range, level)'
  BY <1>1, StartTree
<1>4. FileOK /\ writing \in BOOLEAN /\ PlanOK /\ FailOK /\ DiskOK
  BY DEF IInv
<1>7. PlanOK'
  BY <1>4, PlanGoesOn
<1>5. FileOK' /\ DiskOK'
  BY <1>2, <1>4 DEF FileOK, DiskOK
<1>6. FailOK'
  BY <1>2, <1>4 DEF FailOK
<1> QED
  BY <1>2, <1>3, <1>4, <1>5, <1>6, <1>7 DEF IInv

LEMMA InsertStep ==
    ASSUME ~Repeats, IInv, ~broken, NEW key \in Keys, NEW size \in Sizes, Insert(key, size)
    PROVE  IInv'
<1>1. Start("insert", key, size) /\ key \notin Stored
  BY DEF Insert
<1>2. \A p \in LeavesOf(page) : key \notin KeySet(page[p].recs)
  BY <1>1 DEF LeavesOf, Stored
<1> QED
  BY <1>1, <1>2, StartStep

\* Records are only removed where a run may remove them.
LEMMA Removing ==
    ASSUME IInv, ~broken, NEW key \in Keys, RemoveKey(key)
    PROVE  ~OnlyInserts
<1>1. Start("remove", key, 0) /\ (SetUp => Removals) /\ PlanOK
  BY DEF RemoveKey, IInv
<1>2. OnlyInserts => SetUp
  BY <1>1, PlanGoesOn
<1> QED
  BY <1>1, <1>2 DEF OnlyInserts

LEMMA RemoveStep ==
    ASSUME IInv, ~broken, NEW key \in Keys, RemoveKey(key)
    PROVE  IInv'
<1>1. Start("remove", key, 0) /\ key \in Stored
  BY DEF RemoveKey
<1>2. \E p \in LeavesOf(page) : key \in KeySet(page[p].recs)
  BY <1>1 DEF LeavesOf, Stored
<1>3. ~OnlyInserts
  BY Removing
<1> QED
  BY <1>1, <1>2, <1>3, StartStep

-----------------------------------------------------------------------------
(* search_page, and inserts                                                *)

\* Leaves keep what is in front of them as long as their ranges and links stay.
LEMMA BackwardSame ==
    ASSUME NEW pages, NEW range, Backward(pages, range), NEW now, NEW range2,
           \A p \in PageNo : now[p].type = "leaf" <=> pages[p].type = "leaf",
           \A p \in LeavesOf(pages) : now[p].prev = pages[p].prev /\ range2[p] = range[p]
    PROVE  Backward(now, range2)
<1>1. LeavesOf(now) = LeavesOf(pages)
  BY DEF LeavesOf
<1> SUFFICES ASSUME OnlyInserts, NEW p \in LeavesOf(pages)
             PROVE  /\ now[p].prev = 0 <=> 0 \in range2[p]
                    /\ now[p].prev # 0 =>
                          /\ now[p].prev \in LeavesOf(pages)
                          /\ \A k \in range2[now[p].prev] : \A l \in range2[p] : k < l
  BY <1>1 DEF Backward
<1>2. /\ pages[p].prev = 0 <=> 0 \in range[p]
      /\ pages[p].prev # 0 =>
            /\ pages[p].prev \in LeavesOf(pages)
            /\ \A k \in range[pages[p].prev] : \A l \in range[p] : k < l
  BY DEF Backward
<1> QED
  BY <1>2

\* And the list of leaves stays.
LEMMA ForwardSame ==
    ASSUME NEW pages, NEW range, Forward(pages, range), NEW now, NEW range2,
           \A p \in PageNo : now[p].type = "leaf" <=> pages[p].type = "leaf",
           \A p \in LeavesOf(pages) : now[p].next = pages[p].next /\ range2[p] = range[p]
    PROVE  Forward(now, range2)
<1>1. LeavesOf(now) = LeavesOf(pages)
  BY DEF LeavesOf
<1> SUFFICES ASSUME OnlyInserts PROVE \E order : Listed(now, range2, order)
  BY DEF Forward
<1>2. PICK order : Listed(pages, range, order)
  BY DEF Forward
<1>3. \A i \in 1 .. Len(order) : now[order[i]].next = pages[order[i]].next /\ range2[order[i]] = range[order[i]]
  <2>1. \A i \in 1 .. Len(order) : order[i] \in LeavesOf(pages)
    BY <1>2 DEF Listed
  <2> QED
    BY <2>1
<1>4. 1 \in 1 .. Len(order)
  BY <1>2 DEF Listed
<1>5. Listed(now, range2, order)
  BY <1>1, <1>2, <1>3, <1>4 DEF Listed
<1> QED
  BY <1>5

LEMMA LinkedSame ==
    ASSUME NEW pages, NEW range, Linked(pages, range), NEW now, NEW range2,
           \A p \in PageNo : now[p].type = "leaf" <=> pages[p].type = "leaf",
           \A p \in LeavesOf(pages) :
              now[p].prev = pages[p].prev /\ now[p].next = pages[p].next /\ range2[p] = range[p]
    PROVE  Linked(now, range2)
<1>1. Backward(now, range2)
  BY BackwardSame DEF Linked
<1>2. Forward(now, range2)
  BY ForwardSame DEF Linked
<1> QED
  BY <1>1, <1>2 DEF Linked

\* search_page goes on to the child whose range has the key.
LEMMA DescendTree ==
    ASSUME IInv, ~broken, Descend, NEW range, NEW level, Calling(range, level)
    PROVE  /\ pc # "aborted" /\ pc' # "aborted" /\ Quiet /\ FileOK'
           /\ Calling(range, level)'
<1>2. /\ pc = "search" /\ page[Top].type = "internal" /\ page[Top].count > 0 /\ pc' = pc
      /\ stack' = Append(stack, ChildFor(page[Top], op.key))
      /\ page' = page /\ root' = root /\ free' = free /\ pageCount' = pageCount /\ dirty' = dirty
      /\ carry' = carry /\ op' = op /\ Quiet
  BY DEF Descend, IsType, treeVars
<1>3. /\ SearchOK(page, stack, op, range) /\ Resting(page, root, range, level) /\ carry = NoCarry
      /\ Tree(page, root, carry, range, level) /\ Path(page, stack, root, level)
  BY <1>2, CallingAt DEF Searching
<1>4. FileOK /\ stack # <<>>
  BY <1>3 DEF IInv, SearchOK
<1>5. Top = stack[Len(stack)] /\ Top \in UsedIn(page) /\ Top \in PageNo
  BY <1>3, <1>4, AtTop
<1>6. /\ page[Top] \in InternalPages(PageNo) /\ Formed(page[Top])
      /\ Divides(page[Top], range[Top], Whole(NoCarry, range))
      /\ range \in [PageNo -> SUBSET Nat] /\ level \in [PageNo -> Nat]
      /\ KidsOf(page)[Top] = Kids(page[Top]) /\ root \in PageNo /\ UsedIn(page) \subseteq PageNo
      /\ Shaped(UsedIn(page), KidsOf(page), root, carry, range, level)
  BY <1>2, <1>3, <1>5, TreeKnows
<1>7. op.key \in Nat /\ op.key \in range[Top] /\ range[Top] \in SUBSET Nat
  BY <1>3, <1>5, <1>6, BTreeAssumption DEF SearchOK
<1>8. PICK i \in DOMAIN page[Top].kids :
         ChildFor(page[Top], op.key) = page[Top].kids[i] /\ op.key \in Share(range[Top], page[Top], i)
  BY <1>6, <1>7, ChildHolds
<1> DEFINE no == ChildFor(page[Top], op.key)
<1>9. no \in Kids(page[Top]) /\ op.key \in range[no]
  <2>1. Whole(NoCarry, range) = range
    BY <1>6, WholeSame
  <2> QED
    BY <1>6, <1>8, <2>1 DEF Divides, Kids
<1>10. no \in UsedIn(page) /\ level[Top] = level[no] + 1 /\ no \in PageNo
  BY <1>5, <1>6, <1>9, ShapeKids
<1> HIDE DEF no
<1>11. stack' = Append(stack, no)
  BY <1>2 DEF no
<1>12. HasKid(page[stack[Len(stack)]], no)
  BY <1>2, <1>5, <1>9 DEF HasKid
<1>13. Path(page, stack', root, level) /\ stack' # <<>> /\ stack'[Len(stack')] = no
  <2>1. /\ level[stack[Len(stack)]] = level[no] + 1 /\ level[no] \in Nat /\ level[root] \in Nat
    BY <1>5, <1>6, <1>10
  <2> QED
    BY <1>3, <1>4, <1>10, <1>11, <1>12, <2>1, PathNext
<1>14. SearchOK(page, stack', op, range)
  BY <1>3, <1>9, <1>13 DEF SearchOK
<1>15. Calling(range, level)'
  <2>1. Searching(range, level)'
    BY <1>2, <1>3, <1>14 DEF Searching
  <2> QED
    BY <1>2, <1>13, <2>1 DEF Calling
<1>16. FileOK'
  BY <1>2, <1>4 DEF FileOK
<1> QED
  BY <1>2, <1>15, <1>16

LEMMA DescendStep ==
    ASSUME IInv, ~broken, Descend
    PROVE  IInv'
<1>1. PICK range, level : Calling(range, level)
  BY DEF IInv
<1>2. pc # "aborted" /\ pc' # "aborted" /\ Quiet /\ FileOK' /\ Calling(range, level)'
  BY <1>1, DescendTree
<1> QED
  BY <1>2, GoesOn

\* A new record goes into the leaf the search has ended at.
LEMMA InsertIntoLeafTree ==
    ASSUME IInv, ~broken, InsertIntoLeaf, NEW range, NEW level, Calling(range, level)
    PROVE  /\ pc # "aborted" /\ pc' # "aborted" /\ Quiet /\ FileOK' /\ carry' = NoCarry
           /\ Calling(range, level)'
<1> DEFINE rec == [key |-> op.key, size |-> op.size]
           pg  == [page[Top] EXCEPT !.recs = Place(@, rec)]
<1>2. /\ pc = "search" /\ op.kind = "insert" /\ page[Top].type = "leaf"
      /\ op.key \notin KeySet(page[Top].recs) /\ dirty' = dirty \cup {Top}
      /\ root' = root /\ free' = free /\ pageCount' = pageCount /\ Return /\ Quiet
  BY DEF InsertIntoLeaf, IsType
<1>3. /\ SearchOK(page, stack, op, range) /\ Resting(page, root, range, level) /\ carry = NoCarry
      /\ Tree(page, root, carry, range, level) /\ Path(page, stack, root, level)
  BY <1>2, CallingAt DEF Searching
<1>4. FileOK /\ stack # <<>>
  BY <1>3 DEF IInv, SearchOK
<1>5. /\ Top = stack[Len(stack)] /\ Top \in UsedIn(page) /\ Top \in PageNo
      /\ Top \in 1 .. pageCount - 1
  BY <1>3, <1>4, AtTop
<1>6. /\ page[Top] \in LeafPages /\ page[Top].recs \in Sorted /\ KeySet(page[Top].recs) \subseteq range[Top]
      /\ page \in [PageNo -> Pages]
  BY <1>2, <1>3, <1>5, TreeKnows
<1>7. rec \in Record /\ rec.key = op.key /\ op.key \in range[Top]
  BY <1>2, <1>3, <1>5 DEF SearchOK, Record
<1>8. Place(page[Top].recs, rec) \in Sorted /\ KeySet(Place(page[Top].recs, rec)) = KeySet(page[Top].recs) \cup {op.key}
  <2> HIDE DEF rec
  <2> QED
    BY <1>2, <1>6, <1>7, PlaceSorted
<1>9. page' = Put(page, Top, pg)
  BY <1>6 DEF InsertIntoLeaf, Put
<1>10. /\ pg \in LeafPages /\ pg.recs = Place(page[Top].recs, rec) /\ pg.type = "leaf"
       /\ pg.prev = page[Top].prev /\ pg.next = page[Top].next
  <2> HIDE DEF rec
  <2> QED
    BY <1>6, <1>8 DEF LeafPages, Sorted
<1> HIDE DEF pg, rec
<1>11. pg.recs \in Sorted /\ KeySet(pg.recs) \subseteq range[Top]
  BY <1>6, <1>7, <1>8, <1>10
<1>12. Tree(page', root, carry, range, level)
  BY <1>2, <1>3, <1>5, <1>9, <1>10, <1>11, TreeLeaf
<1>13. page'[Top] = pg /\ \A q \in PageNo : q # Top => page'[q] = page[q]
  BY <1>5, <1>6, <1>9, <1>10 DEF Put
<1>14. FedOK(page', level, {})
  <2>1. InternalsOf(page') = InternalsOf(page) /\ \A q \in InternalsOf(page) : page'[q] = page[q]
    BY <1>2, <1>10, <1>13 DEF InternalsOf
  <2> QED
    BY <1>3, <2>1 DEF Resting, FedOK
<1>15. Linked(page', range)
  <2>1. Linked(page, range)
    BY <1>3 DEF Resting
  <2>2. \A q \in PageNo : page'[q].type = "leaf" <=> page[q].type = "leaf"
    BY <1>2, <1>10, <1>13
  <2>3. \A q \in LeavesOf(page) : page'[q].prev = page[q].prev /\ page'[q].next = page[q].next
    BY <1>10, <1>13 DEF LeavesOf
  <2> QED
    BY <2>1, <2>2, <2>3, LinkedSame
<1>16. Resting(page, root, range, level)'
  BY <1>2, <1>3, <1>12, <1>14, <1>15 DEF Resting
<1>17. FileOK'
  <2>1. pageCount \in Nat /\ free' \in Nat /\ pageCount' \in 2 .. MaxPages /\ pageCount <= pageCount'
    BY <1>2, <1>4 DEF FileOK
  <2> DEFINE changed == {Top}
  <2>2. /\ changed \subseteq 1 .. pageCount' - 1 /\ dirty' \subseteq dirty \cup changed
        /\ \A q \in PageNo : q \notin changed => page'[q] = page[q]
    BY <1>2, <1>5, <1>13
  <2> HIDE DEF changed
  <2> QED
    BY <1>4, <2>1, <2>2, FileStays
<1>18. pc' = "idle" /\ carry' = NoCarry /\ Calling(range, level)'
  BY <1>2, <1>16, Returned
<1> QED
  BY <1>2, <1>17, <1>18

LEMMA InsertIntoLeafStep ==
    ASSUME IInv, ~broken, InsertIntoLeaf
    PROVE  IInv'
<1>1. PICK range, level : Calling(range, level)
  BY DEF IInv
<1>2. pc # "aborted" /\ pc' # "aborted" /\ Quiet /\ FileOK' /\ Calling(range, level)'
  BY <1>1, InsertIntoLeafTree
<1> QED
  BY <1>2, GoesOn

\* A leaf is split off behind another one.
LEMMA BackwardSplit ==
    ASSUME NEW pages, NEW range \in [PageNo -> SUBSET Nat], Backward(pages, range),
           NEW p \in LeavesOf(pages), p # 0, NEW no \in PageNo, no \notin LeavesOf(pages),
           NEW key \in Nat \ {0}, NEW now,
           now[p].type = "leaf", now[p].prev = pages[p].prev, now[no].type = "leaf", now[no].prev = p,
           \A q \in PageNo : q # p /\ q # no => now[q] = pages[q],
           NEW range2, range2 = SplitRange(range, p, no, key)
    PROVE  Backward(now, range2)
<1>1. p \in PageNo /\ p # no /\ range[p] \in SUBSET Nat
  BY DEF LeavesOf
<1>2. /\ range2[p] = Below(range[p], key) /\ range2[no] = From(range[p], key)
      /\ \A q \in PageNo : q # p /\ q # no => range2[q] = range[q]
  BY <1>1 DEF SplitRange
<1>3. \A q \in PageNo : q # no => range2[q] \subseteq range[q] /\ range[q] \subseteq Nat
  <2> TAKE q \in PageNo
  <2> HAVE q # no
  <2>1. CASE q = p
    BY <1>1, <1>2, <2>1 DEF Below
  <2>2. CASE q # p
    BY <1>2, <2>2
  <2> QED
    BY <2>1, <2>2
<1>4. \A q \in PageNo : q # no => (0 \in range2[q] <=> 0 \in range[q])
  <2> TAKE q \in PageNo
  <2> HAVE q # no
  <2>1. CASE q = p
    BY <1>1, <1>2, <2>1 DEF Below
  <2>2. CASE q # p
    BY <1>2, <2>2
  <2> QED
    BY <2>1, <2>2
<1>5. LeavesOf(now) = LeavesOf(pages) \cup {no}
  <2>1. LeavesOf(now) \subseteq PageNo /\ LeavesOf(pages) \subseteq PageNo
    BY DEF LeavesOf
  <2>2. \A q \in PageNo : q \in LeavesOf(now) <=> q \in LeavesOf(pages) \cup {no}
    BY DEF LeavesOf
  <2> QED
    BY <2>1, <2>2
<1> SUFFICES ASSUME OnlyInserts, NEW q \in LeavesOf(now)
             PROVE  /\ now[q].prev = 0 <=> 0 \in range2[q]
                    /\ now[q].prev # 0 =>
                          /\ now[q].prev \in LeavesOf(now)
                          /\ \A k \in range2[now[q].prev] : \A l \in range2[q] : k < l
  BY DEF Backward
<1>6. CASE q = no
  <2>1. 0 \notin range2[no] /\ now[q].prev = p
    BY <1>2, <1>6 DEF From
  <2>2. \A k \in range2[p] : \A l \in range2[no] : k < l
    <3> TAKE k \in range2[p]
    <3> TAKE l \in range2[no]
    <3>1. k \in Nat /\ k < key /\ l \in Nat /\ key <= l
      BY <1>1, <1>2 DEF Below, From
    <3> QED
      BY <3>1
  <2> QED
    BY <1>5, <1>6, <2>1, <2>2
<1>7. CASE q # no
  <2> DEFINE v == pages[q].prev
  <2>1. q \in LeavesOf(pages) /\ q \in PageNo /\ now[q].prev = v
    <3>1. q \in LeavesOf(pages) /\ q \in PageNo
      BY <1>5, <1>7 DEF LeavesOf
    <3> QED
      BY <1>7, <3>1
  <2>2. /\ v = 0 <=> 0 \in range[q]
        /\ v # 0 =>
              /\ v \in LeavesOf(pages)
              /\ \A k \in range[v] : \A l \in range[q] : k < l
    BY <2>1 DEF Backward
  <2> HIDE DEF v
  <2>3. v = 0 <=> 0 \in range2[q]
    BY <1>4, <1>7, <2>1, <2>2
  <2>4. ASSUME v # 0
        PROVE  v \in LeavesOf(now) /\ \A k \in range2[v] : \A l \in range2[q] : k < l
    <3>1. v \in LeavesOf(pages) /\ v \in PageNo /\ v # no
      BY <2>2, <2>4 DEF LeavesOf
    <3>2. range2[v] \subseteq range[v] /\ range2[q] \subseteq range[q]
      BY <1>3, <1>7, <2>1, <3>1
    <3> QED
      BY <1>5, <2>2, <2>4, <3>1, <3>2
  <2> QED
    BY <2>1, <2>3, <2>4
<1> QED
  BY <1>6, <1>7

\* And the new one comes next in the list of leaves.
LEMMA ForwardSplit ==
    ASSUME NEW pages, NEW range \in [PageNo -> SUBSET Nat], Forward(pages, range),
           NEW p \in LeavesOf(pages), NEW no \in PageNo, no \notin LeavesOf(pages),
           NEW key \in Nat \ {0}, NEW now,
           now[p].type = "leaf", now[p].next = no, now[no].type = "leaf", now[no].next = pages[p].next,
           \A q \in PageNo : q # p /\ q # no => now[q] = pages[q],
           NEW range2, range2 = SplitRange(range, p, no, key)
    PROVE  Forward(now, range2)
<1>1. p \in PageNo /\ p # no /\ range[p] \in SUBSET Nat
  BY DEF LeavesOf
<1>2. /\ range2[p] = Below(range[p], key) /\ range2[no] = From(range[p], key)
      /\ \A q \in PageNo : q # p /\ q # no => range2[q] = range[q]
  BY <1>1 DEF SplitRange
<1>3. /\ range2[p] \subseteq range[p] /\ range2[no] \subseteq range[p]
      /\ 0 \in range[p] => 0 \in range2[p]
      /\ \A k \in range2[p] : \A l \in range2[no] : k < l
  <2>1. \A k \in range2[p] : \A l \in range2[no] : k < l
    <3> TAKE k \in range2[p]
    <3> TAKE l \in range2[no]
    <3>1. k \in Nat /\ k < key /\ l \in Nat /\ key <= l
      BY <1>1, <1>2 DEF Below, From
    <3> QED
      BY <3>1
  <2> QED
    BY <1>1, <1>2, <2>1 DEF Below, From
<1>4. LeavesOf(now) = LeavesOf(pages) \cup {no}
  <2>1. LeavesOf(now) \subseteq PageNo /\ LeavesOf(pages) \subseteq PageNo
    BY DEF LeavesOf
  <2>2. \A q \in PageNo : q \in LeavesOf(now) <=> q \in LeavesOf(pages) \cup {no}
    BY DEF LeavesOf
  <2> QED
    BY <2>1, <2>2
<1> SUFFICES ASSUME OnlyInserts PROVE \E order : Listed(now, range2, order)
  BY DEF Forward
<1>5. PICK order : Listed(pages, range, order)
  BY DEF Forward
<1> DEFINE N == Len(order)
<1>6. /\ order \in Seq(PageNo) /\ N \in Nat /\ N > 0 /\ 0 \in range[order[1]]
      /\ LeavesOf(pages) = {order[i] : i \in 1 .. N}
      /\ \A i, j \in 1 .. N : order[i] = order[j] => i = j
      /\ \A i \in 1 .. N : pages[order[i]].next = IF i < N THEN order[i + 1] ELSE 0
      /\ \A i, j \in 1 .. N : i < j => \A k \in range[order[i]] : \A l \in range[order[j]] : k < l
  BY <1>5 DEF Listed
<1>a. \A i \in 1 .. N : order[i] \in PageNo
  BY <1>6
<1>b. N \in Nat /\ N > 0
  BY <1>6
<1>7. PICK m \in 1 .. N : order[m] = p
  BY <1>6
<1> DEFINE new == InsertAt(order, m + 1, no)
<1>8. /\ new \in Seq(PageNo) /\ Len(new) = N + 1 /\ new[m + 1] = no
      /\ \A k \in 1 .. N + 1 : /\ k < m + 1 => new[k] = order[k]
                               /\ k > m + 1 => new[k] = order[k - 1]
  <2> DEFINE i == m + 1
  <2>1. i \in 1 .. Len(order) + 1 /\ order \in Seq(PageNo)
    BY <1>6
  <2> HIDE DEF i
  <2>2. /\ InsertAt(order, i, no) \in Seq(PageNo) /\ Len(InsertAt(order, i, no)) = Len(order) + 1
        /\ InsertAt(order, i, no)[i] = no
        /\ \A k \in 1 .. Len(order) + 1 : /\ k < i => InsertAt(order, i, no)[k] = order[k]
                                          /\ k > i => InsertAt(order, i, no)[k] = order[k - 1]
    BY <2>1, InsertAtElements
  <2> QED
    BY <2>2 DEF i
<1> DEFINE at(k) == IF k <= m THEN k ELSE k - 1
<1> HIDE DEF new, N
<1>9. ASSUME NEW k \in 1 .. N + 1
      PROVE  /\ at(k) \in 1 .. N
             /\ k # m + 1 => new[k] = order[at(k)] /\ new[k] # no
             /\ k # m /\ k # m + 1 => new[k] # p
             /\ k = m => new[k] = p /\ at(k) = m
             /\ k = m + 1 => new[k] = no /\ at(k) = m
  <2>1. at(k) \in 1 .. N
    BY <1>b
  <2>2. \A i \in 1 .. N : order[i] # no
    BY <1>6
  <2>3. \A i \in 1 .. N : i # m => order[i] # p
    BY <1>6, <1>7
  <2>4. CASE k <= m
    BY <1>6, <1>7, <1>8, <2>1, <2>2, <2>3, <2>4
  <2>5. CASE k = m + 1
    BY <1>6, <1>7, <1>8, <2>1, <2>5
  <2>6. CASE k > m + 1
    <3>1. k - 1 \in 1 .. N /\ k - 1 # m /\ at(k) = k - 1
      BY <1>b, <2>6
    <3>2. new[k] = order[k - 1]
      BY <1>8, <2>6
    <3> QED
      BY <1>b, <2>2, <2>3, <2>6, <3>1, <3>2
  <2> QED
    BY <1>6, <1>7, <2>4, <2>5, <2>6
<1>10. \A k \in 1 .. N + 1 : range2[new[k]] \subseteq range[order[at(k)]]
  <2> TAKE k \in 1 .. N + 1
  <2>1. order[at(k)] \in PageNo
    <3>1. at(k) \in 1 .. N
      BY <1>9
    <3> QED
      BY <1>a, <3>1
  <2>2. CASE k = m \/ k = m + 1
    BY <1>3, <1>7, <1>9, <2>2
  <2>3. CASE k # m /\ k # m + 1
    <3> HIDE DEF at
    <3> QED
      BY <1>2, <1>9, <2>1, <2>3
  <2> QED
    BY <2>2, <2>3
<1>11. \A i, j \in 1 .. N + 1 : i < j => at(i) < at(j) \/ (i = m /\ j = m + 1)
  BY <1>b
<1>12. 0 \in range2[new[1]]
  <2>1. 1 \in 1 .. N /\ 1 \in 1 .. N + 1 /\ 1 # m + 1 /\ at(1) = 1
    BY <1>b
  <2>2. new[1] = order[1] /\ new[1] # no /\ order[1] \in PageNo
    <3>1. new[1] = order[at(1)] /\ new[1] # no
      BY <1>9, <2>1
    <3>2. order[1] \in PageNo
      BY <1>a, <2>1
    <3> QED
      BY <2>1, <3>1, <3>2
  <2>3. CASE order[1] = p
    BY <1>3, <1>6, <2>2, <2>3
  <2>4. CASE order[1] # p
    BY <1>2, <1>6, <2>2, <2>4
  <2> QED
    BY <2>3, <2>4
<1>13. LeavesOf(now) = {new[i] : i \in 1 .. N + 1}
  <2>1. \A i \in 1 .. N + 1 : new[i] \in LeavesOf(now)
    <3> TAKE i \in 1 .. N + 1
    <3>1. at(i) \in 1 .. N /\ (i # m + 1 => new[i] = order[at(i)]) /\ (i = m + 1 => new[i] = no)
      BY <1>9
    <3> HIDE DEF at
    <3> QED
      BY <1>4, <1>6, <3>1
  <2>2. \A i \in 1 .. N : \E j \in 1 .. N + 1 : new[j] = order[i]
    <3> TAKE i \in 1 .. N
    <3>1. CASE i <= m
      <4>1. i \in 1 .. N + 1 /\ i < m + 1
        BY <1>b, <3>1
      <4> QED
        BY <1>8, <4>1
    <3>2. CASE i > m
      <4>1. i + 1 \in 1 .. N + 1 /\ i + 1 > m + 1 /\ (i + 1) - 1 = i
        BY <1>b, <3>2
      <4> QED
        BY <1>8, <4>1
    <3> QED
      BY <1>7, <3>1, <3>2
  <2>3. m + 1 \in 1 .. N + 1
    BY <1>b
  <2>4. new[m + 1] = no
    BY <1>8
  <2>5. \A q \in LeavesOf(now) : \E j \in 1 .. N + 1 : new[j] = q
    <3> TAKE q \in LeavesOf(now)
    <3>1. CASE q = no
      BY <2>3, <2>4, <3>1
    <3>2. CASE q # no
      <4>1. PICK i \in 1 .. N : order[i] = q
        BY <1>4, <1>6, <3>2
      <4> QED
        BY <2>2, <4>1
    <3> QED
      BY <3>1, <3>2
  <2> QED
    BY <2>1, <2>5
<1>14. \A i, j \in 1 .. N + 1 : new[i] = new[j] => i = j
  <2> SUFFICES ASSUME NEW i \in 1 .. N + 1, NEW j \in 1 .. N + 1, i < j PROVE new[i] # new[j]
    OBVIOUS
  <2>1. CASE i = m + 1 \/ j = m + 1
    BY <1>9, <2>1
  <2>2. CASE i # m + 1 /\ j # m + 1
    <3>1. at(i) # at(j) /\ at(i) \in 1 .. N /\ at(j) \in 1 .. N
      BY <1>6, <1>7, <1>9, <2>2
    <3>2. new[i] = order[at(i)] /\ new[j] = order[at(j)]
      BY <1>9, <2>2
    <3> HIDE DEF at
    <3> QED
      BY <1>6, <3>1, <3>2
  <2> QED
    BY <2>1, <2>2
<1>15. ASSUME NEW i \in 1 .. N + 1
       PROVE  now[new[i]].next = IF i < N + 1 THEN new[i + 1] ELSE 0
  <2>0. i \in Nat /\ m \in Nat /\ m <= N /\ i <= N + 1 /\ i >= 1 /\ N \in Nat
    BY <1>b
  <2>1. CASE i = m
    <3>1. new[i] = p /\ new[i + 1] = no /\ i < N + 1
      BY <1>8, <1>9, <2>0, <2>1
    <3> QED
      BY <3>1
  <2>2. CASE i = m + 1
    <3>1. new[i] = no /\ now[new[i]].next = IF m < N THEN order[m + 1] ELSE 0
      BY <1>6, <1>7, <1>8, <2>2
    <3>2. m < N => new[i + 1] = order[m + 1]
      <4>1. m < N => i + 1 \in 1 .. N + 1 /\ i + 1 > m + 1 /\ (i + 1) - 1 = m + 1
        BY <2>0, <2>2
      <4> QED
        BY <1>8, <4>1
    <3>3. i < N + 1 <=> m < N
      BY <2>0, <2>2
    <3> QED
      BY <3>1, <3>2, <3>3
  <2>3. CASE i < m
    <3>1. new[i] = order[i] /\ new[i] # p /\ new[i] # no /\ i \in 1 .. N /\ order[i] \in PageNo
      BY <1>6, <1>8, <1>9, <2>0, <2>3
    <3>2. i < N /\ i + 1 \in 1 .. N + 1 /\ i + 1 < m + 1 /\ i < N + 1
      BY <2>0, <2>3
    <3>3. pages[order[i]].next = order[i + 1] /\ new[i + 1] = order[i + 1]
      BY <1>6, <1>8, <3>1, <3>2
    <3> QED
      BY <3>1, <3>2, <3>3
  <2>4. CASE i > m + 1
    <3>1. i - 1 \in 1 .. N /\ i # m /\ i # m + 1 /\ (i - 1) + 1 = i /\ (i - 1 < N <=> i < N + 1)
      BY <2>0, <2>4
    <3>2. new[i] = order[i - 1] /\ new[i] # p /\ new[i] # no /\ order[i - 1] \in PageNo
      <4>1. new[i] = order[i - 1] /\ order[i - 1] \in PageNo
        BY <1>8, <1>a, <2>4, <3>1
      <4> HIDE DEF at
      <4>2. new[i] # p /\ new[i] # no
        BY <1>9, <3>1
      <4> QED
        BY <4>1, <4>2
    <3>3. pages[order[i - 1]].next = IF i < N + 1 THEN order[i] ELSE 0
      BY <1>6, <3>1
    <3>4. i < N + 1 => new[i + 1] = order[i]
      <4>1. i < N + 1 => i + 1 \in 1 .. N + 1 /\ i + 1 > m + 1 /\ (i + 1) - 1 = i
        BY <2>0, <2>4
      <4> QED
        BY <1>8, <4>1
    <3> QED
      BY <3>2, <3>3, <3>4
  <2> QED
    BY <2>0, <2>1, <2>2, <2>3, <2>4
<1>16. ASSUME NEW i \in 1 .. N + 1, NEW j \in 1 .. N + 1, i < j,
              NEW k \in range2[new[i]], NEW l \in range2[new[j]]
       PROVE  k < l
  <2>1. CASE at(i) < at(j)
    <3>1. at(i) \in 1 .. N /\ at(j) \in 1 .. N
      BY <1>9
    <3>2. k \in range[order[at(i)]] /\ l \in range[order[at(j)]]
      BY <1>10
    <3> HIDE DEF at
    <3> QED
      BY <1>6, <2>1, <3>1, <3>2
  <2>2. CASE i = m /\ j = m + 1
    <3>1. new[i] = p /\ new[j] = no
      BY <1>9, <2>2
    <3> QED
      BY <1>3, <3>1
  <2> QED
    BY <1>11, <1>16, <2>1, <2>2
<1>17. Listed(now, range2, new)
  <2>1. Len(new) = N + 1 /\ Len(new) > 0
    BY <1>6, <1>8
  <2> HIDE DEF at
  <2> QED
    BY <1>8, <1>12, <1>13, <1>14, <1>15, <1>16, <2>1 DEF Listed
<1> QED
  BY <1>17

LEMMA LinkedSplit ==
    ASSUME NEW pages, NEW range \in [PageNo -> SUBSET Nat], Linked(pages, range),
           NEW p \in LeavesOf(pages), p # 0, NEW no \in PageNo, no \notin LeavesOf(pages),
           NEW key \in Nat \ {0}, NEW now,
           now[p].type = "leaf", now[p].prev = pages[p].prev, now[p].next = no,
           now[no].type = "leaf", now[no].prev = p, now[no].next = pages[p].next,
           \A q \in PageNo : q # p /\ q # no => now[q] = pages[q],
           NEW range2, range2 = SplitRange(range, p, no, key)
    PROVE  Linked(now, range2)
<1>1. Backward(now, range2)
  BY BackwardSplit DEF Linked
<1>2. Forward(now, range2)
  BY ForwardSplit DEF Linked
<1> QED
  BY <1>1, <1>2 DEF Linked

\* A full leaf is split, and the new record goes into one of the halves.
LEMMA SplitLeafTree ==
    ASSUME IInv, ~broken, SplitLeaf, NEW range, NEW level, Calling(range, level)
    PROVE  /\ pc # "aborted" /\ pc' # "aborted" /\ Quiet /\ FileOK'
           /\ \E range2, level2 : range2 = SplitRange(range, Top, Allocated, carry'.key) /\ Calling(range2, level2)'
<1> DEFINE no   == Allocated
           rec  == [key |-> op.key, size |-> op.size]
           recs == page[Top].recs
           b    == BalanceLeaves(recs, <<>>)
           mid  == b.last[1].key
           goal == IF op.key > mid THEN b.last ELSE b.first
           new1 == IF op.key > mid THEN b.first ELSE Place(b.first, rec)
           new2 == IF op.key > mid THEN Place(b.last, rec) ELSE b.last
<1>2. /\ pc = "search" /\ op.kind = "insert" /\ page[Top].type = "leaf"
      /\ CanAllocate /\ Allocate /\ BalanceOk(b) /\ op.key \notin KeySet(goal)
      /\ dirty' = dirty \cup {Top, no} /\ carry' = Sent(mid, Top, no)
      /\ stack' = Front(stack) /\ pc' = "insert_up" /\ root' = root /\ Quiet
  BY DEF SplitLeaf, LeafFull, IsType, Sent
<1>3. /\ SearchOK(page, stack, op, range) /\ Resting(page, root, range, level) /\ carry = NoCarry
      /\ Tree(page, root, carry, range, level) /\ Path(page, stack, root, level)
  BY <1>2, CallingAt DEF Searching
<1>4. FileOK /\ stack # <<>>
  BY <1>3 DEF IInv, SearchOK
<1>5. /\ Top = stack[Len(stack)] /\ Top \in UsedIn(page) /\ Top \in PageNo
      /\ Top \in 1 .. pageCount - 1 /\ Top \in Nat /\ Top # 0
      /\ Len(stack) \in Nat /\ Len(stack) > 0 /\ Front(stack) = SubSeq(stack, 1, Len(stack) - 1)
  BY <1>3, <1>4, AtTop
<1>6. /\ page[Top] \in LeafPages /\ recs \in Sorted /\ KeySet(recs) \subseteq range[Top]
      /\ page \in [PageNo -> Pages] /\ level[Top] = 0 /\ KidsOf(page)[Top] = {}
      /\ range \in [PageNo -> SUBSET Nat] /\ level \in [PageNo -> Nat]
  <2>1. Tree(page, root, carry, range, level) /\ page[Top].type = "leaf" /\ Top \in PageNo
    BY <1>2, <1>3, <1>5
  <2>2. /\ page \in [PageNo -> Pages]
        /\ range \in [PageNo -> SUBSET Nat] /\ level \in [PageNo -> Nat]
        /\ \A p \in PageNo : page[p].type = "leaf" =>
              /\ level[p] = 0 /\ KidsOf(page)[p] = {}
              /\ page[p] \in LeafPages /\ page[p].recs \in Sorted
              /\ KeySet(page[p].recs) \subseteq range[p]
    BY <2>1, TreeKnows
  <2> QED
    BY <2>1, <2>2
<1>7. /\ no \in PageNo /\ no # 0 /\ no \notin UsedIn(page)
      /\ free' \in Nat /\ pageCount' \in 2 .. MaxPages /\ pageCount <= pageCount'
      /\ no \in 1 .. pageCount' - 1
  BY <1>2, <1>4, <1>6, Allocates
<1>8. no # Top
  BY <1>5, <1>7
<1>9. rec \in Record /\ rec.key = op.key /\ op.key \in range[Top] /\ op.key \notin KeySet(recs) /\ op.key \in Nat
  <2>1. op.key \in Keys /\ op.size \in Sizes /\ op.key \in range[Top] /\ Top \in LeavesOf(page)
    BY <1>2, <1>3, <1>5 DEF SearchOK, LeavesOf
  <2>2. op.key \notin KeySet(recs)
    BY <1>2, <1>3, <2>1 DEF SearchOK
  <2> QED
    BY <2>1, <2>2, BTreeAssumption DEF Record
<1>10. /\ b.first \in Sorted /\ b.last \in Sorted /\ KeySet(b.first) \cup KeySet(b.last) \subseteq KeySet(recs)
  <2>1. <<>> \in Sorted /\ KeySet(<<>>) = {}
    BY DEF Sorted, Ascends, KeySet
  <2> HIDE DEF recs
  <2> QED
    BY <1>6, <2>1, BalancedSorted
<1>11. /\ mid \in KeySet(b.last) /\ mid \in Nat \ {0}
       /\ \A k \in KeySet(b.first) : k < mid
       /\ \A k \in KeySet(b.last) : mid <= k
  BY <1>2, <1>10, BalancedApart
<1> HIDE DEF b, rec
<1>12. /\ new1 \in Sorted /\ KeySet(new1) \subseteq Below(range[Top], mid)
       /\ new2 \in Sorted /\ KeySet(new2) \subseteq From(range[Top], mid)
  <2>1. KeySet(b.first) \subseteq Below(range[Top], mid) /\ KeySet(b.last) \subseteq From(range[Top], mid)
    BY <1>6, <1>10, <1>11 DEF Below, From
  <2>2. CASE op.key > mid
    <3>1. new1 = b.first /\ new2 = Place(b.last, rec) /\ op.key \notin KeySet(b.last)
      BY <1>2, <2>2
    <3>2. new2 \in Sorted /\ KeySet(new2) = KeySet(b.last) \cup {op.key}
      BY <1>9, <1>10, <3>1, PlaceSorted
    <3>3. op.key \in From(range[Top], mid)
      BY <1>9, <1>11, <2>2 DEF From
    <3> QED
      BY <1>10, <2>1, <3>1, <3>2, <3>3
  <2>3. CASE ~(op.key > mid)
    <3>1. new2 = b.last /\ new1 = Place(b.first, rec) /\ op.key \notin KeySet(b.first)
      BY <1>2, <2>3
    <3>2. new1 \in Sorted /\ KeySet(new1) = KeySet(b.first) \cup {op.key}
      BY <1>9, <1>10, <3>1, PlaceSorted
    <3>3. op.key # mid
      BY <1>9, <1>10, <1>11
    <3>4. op.key \in Below(range[Top], mid)
      BY <1>9, <1>11, <2>3, <3>3 DEF Below
    <3> QED
      BY <1>10, <2>1, <3>1, <3>2, <3>4
  <2> QED
    BY <2>2, <2>3
<1> DEFINE pg1 == [page[Top] EXCEPT !.next = no, !.recs = new1]
           pg2 == NewLeaf(Top, page[Top].next, new2)
<1>13. page' = [page EXCEPT ![Top] = pg1, ![no] = pg2]
  BY <1>6 DEF SplitLeaf, b, rec
<1>14. /\ pg1 \in LeafPages /\ pg1.type = "leaf" /\ pg1.recs = new1 /\ pg1.prev = page[Top].prev
       /\ pg2 \in LeafPages /\ pg2.type = "leaf" /\ pg2.recs = new2 /\ pg2.prev = Top
       /\ pg1.next = no /\ pg2.next = page[Top].next
  <2> HIDE DEF new1, new2, no
  <2>1. no \in Nat
    BY <1>7, BTreeAssumption DEF PageNo
  <2> QED
    BY <1>5, <1>6, <1>12, <2>1 DEF LeafPages, Sorted, NewLeaf, Leaf
<1> HIDE DEF pg1, pg2, new1, new2, no, mid, recs, goal
<1>15. /\ page' \in [PageNo -> Pages] /\ page'[Top] = pg1 /\ page'[no] = pg2
       /\ \A q \in PageNo : q # Top /\ q # no => page'[q] = page[q]
  BY <1>5, <1>6, <1>7, <1>8, <1>13, <1>14, PageKinds
<1>a. PICK range2 : range2 = SplitRange(range, Top, no, mid)
  OBVIOUS
<1>b. PICK level2 : level2 = SplitLevel(level, Top, no)
  OBVIOUS
<1>16. Tree(page', root, carry', range2, level2)
  <2>1. Halves(page, page', carry, Top, no)
    <3>1. /\ KidsOf(page')[Top] = {} /\ KidsOf(page')[no] = {} /\ Top \in UsedIn(page') /\ no \in UsedIn(page')
      BY <1>5, <1>7, <1>14, <1>15 DEF KidsOf, UsedIn
    <3> QED
      BY <1>3, <1>6, <1>15, <3>1 DEF Halves
  <2>2. /\ HalfOK(page'[Top], level[Top], Below(range[Top], mid), range)
        /\ HalfOK(page'[no], level[Top], From(range[Top], mid), range)
    BY <1>6, <1>12, <1>14, <1>15 DEF HalfOK, Sorted
  <2>3. mid \in Nat /\ no \in PageNo \ {0} /\ carry' = Sent(mid, Top, no)
    BY <1>2, <1>7, <1>11
  <2> QED
    BY <1>3, <1>5, <1>7, <1>15, <1>a, <1>b, <2>1, <2>2, <2>3, TreeSplit
<1>17. \A q \in PageNo : q # no => level2[q] = level[q]
  BY <1>6, <1>b DEF SplitLevel
<1>18. Path(page', stack', root, level2) /\ Follows(page', stack', root, Top)
  <2> DEFINE m == Len(stack) - 1
  <2>1. m \in 0 .. Len(stack) /\ m < Len(stack) /\ Top = stack[m + 1]
    BY <1>5
  <2>2. HigherStay(page, page', level, level2, level[Top])
    <3> SUFFICES ASSUME NEW q \in UsedIn(page), level[q] > level[Top]
                 PROVE  page'[q] = page[q] /\ level2[q] = level[q]
      BY DEF HigherStay
    <3>1. q \in PageNo /\ q # no /\ q # Top
      BY <1>5, <1>6, <1>7 DEF UsedIn
    <3> QED
      BY <1>15, <1>17, <3>1
  <2>3. stack' = SubSeq(stack, 1, m)
    BY <1>2, <1>5
  <2> HIDE DEF m
  <2> QED
    BY <1>3, <1>6, <2>1, <2>2, <2>3, PathKept
<1>19. FedOK(page', level2, {})
  <2>1. \A q \in InternalsOf(page') : q \in InternalsOf(page) /\ page'[q] = page[q] /\ level2[q] = level[q]
    BY <1>14, <1>15, <1>17 DEF InternalsOf
  <2> QED
    BY <1>3, <2>1 DEF Resting, FedOK
<1>20. Linked(page', range2)
  <2>1. Top \in LeavesOf(page) /\ no \notin LeavesOf(page) /\ Linked(page, range)
    BY <1>2, <1>3, <1>5, <1>7 DEF LeavesOf, UsedIn, Resting
  <2>2. /\ page'[Top].type = "leaf" /\ page'[Top].prev = page[Top].prev /\ page'[Top].next = no
        /\ page'[no].type = "leaf" /\ page'[no].prev = Top /\ page'[no].next = page[Top].next
    BY <1>14, <1>15
  <2>3. Top # 0 /\ no \in PageNo /\ mid \in Nat \ {0} /\ range \in [PageNo -> SUBSET Nat]
    BY <1>5, <1>6, <1>7, <1>11
  <2>4. \A q \in PageNo : q # Top /\ q # no => page'[q] = page[q]
    BY <1>15
  <2> QED
    BY <2>1, <2>2, <2>3, <2>4, <1>a, LinkedSplit, SMTT(30)
<1>21. Calling(range2, level2)'
  <2>1. carry' # NoCarry /\ carry'.front = Top
    BY <1>2, <1>7 DEF Sent, NoCarry
  <2>2. InsertingUp(range2, level2)'
    BY <1>2, <1>16, <1>18, <1>19, <1>20, <2>1 DEF InsertingUp
  <2> QED
    BY <1>2, <1>18, <2>2 DEF Calling
<1>22. FileOK'
  <2> DEFINE changed == {Top, no}
  <2>1. pageCount \in Nat /\ pageCount' \in Nat
    BY <1>4, <1>7 DEF FileOK
  <2>2. Top \in 1 .. pageCount' - 1
    BY <1>5, <1>7, <2>1
  <2>3. /\ changed \subseteq 1 .. pageCount' - 1 /\ dirty' \subseteq dirty \cup changed
        /\ \A q \in PageNo : q \notin changed => page'[q] = page[q]
    BY <1>2, <1>7, <1>15, <2>2
  <2> HIDE DEF changed
  <2> QED
    BY <1>4, <1>7, <2>3, FileStays
<1>23. range2 = SplitRange(range, Top, Allocated, carry'.key)
  BY <1>2, <1>a DEF no, Sent
<1> QED
  BY <1>2, <1>21, <1>22, <1>23

LEMMA SplitLeafStep ==
    ASSUME IInv, ~broken, SplitLeaf
    PROVE  IInv'
<1>1. PICK range, level : Calling(range, level)
  BY DEF IInv
<1>2. pc # "aborted" /\ pc' # "aborted" /\ Quiet /\ FileOK'
  BY <1>1, SplitLeafTree
<1>3. PICK range2, level2 : Calling(range2, level2)'
  BY <1>1, SplitLeafTree
<1> QED
  BY <1>2, <1>3, GoesOn

-----------------------------------------------------------------------------
(* insert, on the way up                                                   *)

\* The separator goes into an internal page with room.
LEMMA InsertIntoInternalTree ==
    ASSUME IInv, ~broken, InsertIntoInternal, NEW range, NEW level, Calling(range, level)
    PROVE  /\ pc # "aborted" /\ pc' # "aborted" /\ Quiet /\ FileOK' /\ carry' = NoCarry
           /\ Calling(range, level)'
<1> DEFINE np == InsertKey(page[Top], carry.key, carry.front, carry.back).page
<1>2. /\ pc = "insert_up" /\ stack # <<>> /\ page[Top].type = "internal"
      /\ InsertKey(page[Top], carry.key, carry.front, carry.back).status = "ok"
      /\ page' = Put(page, Top, np) /\ dirty' = dirty \cup {Top}
      /\ root' = root /\ free' = free /\ pageCount' = pageCount /\ Return /\ Quiet
  BY DEF InsertIntoInternal, IsType, Put
<1> HIDE DEF np
<1>3. /\ Tree(page, root, carry, range, level) /\ Path(page, stack, root, level)
      /\ carry # NoCarry /\ Follows(page, stack, root, carry.front)
      /\ FedOK(page, level, {}) /\ Linked(page, range)
  BY <1>2, CallingAt DEF InsertingUp
<1>4. FileOK
  BY DEF IInv
<1>5. /\ Top = stack[Len(stack)] /\ Top \in UsedIn(page) /\ Top \in PageNo
      /\ Top \in 1 .. pageCount - 1
  BY <1>2, <1>3, <1>4, AtTop
<1>6. HasKid(page[Top], carry.front)
  BY <1>2, <1>3, <1>5 DEF Follows
<1>7. /\ Tree(page', root, NoCarry, range, level) /\ UsedIn(page') = UsedIn(page)
      /\ np.type = "internal" /\ np.count > 0
  BY <1>2, <1>3, <1>5, <1>6, TreeAbsorb DEF np
<1>8. page'[Top] = np /\ \A q \in PageNo : q # Top => page'[q] = page[q]
  <2>1. page \in [PageNo -> Pages]
    BY <1>3, TreeKnows
  <2> QED
    BY <1>2, <1>5, <2>1 DEF Put
<1>9. FedOK(page', level, {})
  <2>1. \A q \in InternalsOf(page') : q = Top \/ (q \in InternalsOf(page) /\ page'[q] = page[q])
    BY <1>8 DEF InternalsOf
  <2> QED
    BY <1>3, <1>7, <1>8, <2>1 DEF FedOK
<1>10. Linked(page', range)
  <2>1. \A q \in PageNo : page'[q].type = "leaf" <=> page[q].type = "leaf"
    BY <1>2, <1>7, <1>8
  <2>2. \A q \in LeavesOf(page) : page'[q].prev = page[q].prev /\ page'[q].next = page[q].next
    BY <1>2, <1>8 DEF LeavesOf
  <2> QED
    BY <1>3, <2>1, <2>2, LinkedSame
<1>11. Resting(page, root, range, level)'
  BY <1>2, <1>7, <1>9, <1>10 DEF Resting
<1>12. FileOK'
  <2>1. pageCount \in Nat /\ free' \in Nat /\ pageCount' \in 2 .. MaxPages /\ pageCount <= pageCount'
    BY <1>2, <1>4 DEF FileOK
  <2> DEFINE changed == {Top}
  <2>2. /\ changed \subseteq 1 .. pageCount' - 1 /\ dirty' \subseteq dirty \cup changed
        /\ \A q \in PageNo : q \notin changed => page'[q] = page[q]
    BY <1>2, <1>5, <1>8
  <2> HIDE DEF changed
  <2> QED
    BY <1>4, <2>1, <2>2, FileStays
<1>13. pc' = "idle" /\ carry' = NoCarry /\ Calling(range, level)'
  BY <1>2, <1>11, Returned
<1> QED
  BY <1>2, <1>12, <1>13

LEMMA InsertIntoInternalStep ==
    ASSUME IInv, ~broken, InsertIntoInternal
    PROVE  IInv'
<1>1. PICK range, level : Calling(range, level)
  BY DEF IInv
<1>2. pc # "aborted" /\ pc' # "aborted" /\ Quiet /\ FileOK' /\ Calling(range, level)'
  BY <1>1, InsertIntoInternalTree
<1> QED
  BY <1>2, GoesOn

\* Every level was split: a new root above the old one and its new half.
LEMMA NewRootTree ==
    ASSUME IInv, ~broken, NewRoot, NEW range, NEW level, Calling(range, level)
    PROVE  /\ pc # "aborted" /\ pc' # "aborted" /\ Quiet /\ FileOK' /\ carry' = NoCarry
           /\ \E range2, level2 : range2 = RootRange(range, Allocated) /\ Calling(range2, level2)'
<1>c. PICK old \in OldKeys(Allocated) :
          page' = [page EXCEPT ![Allocated] =
                      InsertKey(InitPage(0, 0, old), carry.key, carry.front, carry.back).page]
  BY DEF NewRoot
<1> DEFINE no == Allocated
           np == InsertKey(InitPage(0, 0, old), carry.key, carry.front, carry.back).page
<1>2. /\ pc = "insert_up" /\ stack = <<>> /\ CanAllocate /\ Allocate
      /\ page' = Put(page, no, np) /\ dirty' = dirty \cup {no}
      /\ root' = no /\ Return /\ Quiet
  BY <1>c DEF NewRoot, Put
<1>3. /\ Tree(page, root, carry, range, level)
      /\ carry # NoCarry /\ Follows(page, stack, root, carry.front)
      /\ FedOK(page, level, {}) /\ Linked(page, range)
  BY <1>2, CallingAt DEF InsertingUp
<1>4. FileOK
  BY DEF IInv
<1>5. /\ page \in [PageNo -> Pages] /\ range \in [PageNo -> SUBSET Nat] /\ level \in [PageNo -> Nat]
  BY <1>3, TreeKnows
<1>6. /\ no \in PageNo /\ no # 0 /\ no \notin UsedIn(page)
      /\ free' \in Nat /\ pageCount' \in 2 .. MaxPages /\ pageCount <= pageCount'
      /\ no \in 1 .. pageCount' - 1
  BY <1>2, <1>4, <1>5, Allocates
<1>7. carry.front = root
  BY <1>2, <1>3 DEF Follows
<1>8. old \in [Slots -> Nat]
  BY <1>5, <1>6, <1>c, OldKeysAre
<1>a. PICK range2 : range2 = RootRange(range, no)
  OBVIOUS
<1>b. PICK level2 : level2 = RootLevel(level, root, no)
  OBVIOUS
<1> HIDE DEF no
<1>9. np = InsertKey(InitPage(0, 0, old), carry.key, carry.front, carry.back).page
  OBVIOUS
<1> HIDE DEF np
<1>10. Tree(page', no, NoCarry, range2, level2) /\ np.type = "internal" /\ np.count = 1
  <2>1. /\ Tree(page, root, carry, range, level) /\ carry # NoCarry /\ carry.front = root
        /\ no \in PageNo \ {0} /\ no \notin UsedIn(page) /\ old \in [Slots -> Nat]
        /\ np = InsertKey(InitPage(0, 0, old), carry.key, carry.front, carry.back).page
        /\ page' = Put(page, no, np) /\ range2 = RootRange(range, no) /\ level2 = RootLevel(level, root, no)
    BY <1>2, <1>3, <1>6, <1>7, <1>8, <1>9, <1>a, <1>b
  <2>2. Tree(page', no, NoCarry, range2, level2)
    BY <2>1, TreeNewRoot
  <2>3. np.type = "internal" /\ np.count = 1
    BY <2>1, InternalPageAssumption DEF InsertKey, InitPage, Ok
  <2> QED
    BY <2>2, <2>3
<1>11. page'[no] = np /\ \A q \in PageNo : q # no => page'[q] = page[q]
  BY <1>2, <1>5, <1>6 DEF Put
<1>12. \A q \in PageNo : q # no => range2[q] = range[q] /\ level2[q] = level[q]
  BY <1>5, <1>a, <1>b DEF RootRange, RootLevel
<1>13. FedOK(page', level2, {})
  <2>1. \A q \in InternalsOf(page') :
           q = no \/ (q \in InternalsOf(page) /\ page'[q] = page[q] /\ level2[q] = level[q])
    BY <1>11, <1>12 DEF InternalsOf
  <2>2. page'[no].count # 0
    BY <1>10, <1>11
  <2> QED
    BY <1>3, <2>1, <2>2 DEF FedOK
<1>14. Linked(page', range2)
  <2>1. page[no].type # "leaf"
    BY <1>6 DEF UsedIn
  <2>2. \A q \in PageNo : page'[q].type = "leaf" <=> page[q].type = "leaf"
    BY <1>10, <1>11, <2>1
  <2>3. \A q \in LeavesOf(page) :
           page'[q].prev = page[q].prev /\ page'[q].next = page[q].next /\ range2[q] = range[q]
    BY <1>11, <1>12, <2>1 DEF LeavesOf
  <2> QED
    BY <1>3, <2>2, <2>3, LinkedSame
<1>15. Resting(page, root, range2, level2)'
  BY <1>2, <1>10, <1>13, <1>14 DEF Resting
<1>16. FileOK'
  <2> DEFINE changed == {no}
  <2>1. /\ changed \subseteq 1 .. pageCount' - 1 /\ dirty' \subseteq dirty \cup changed
        /\ \A q \in PageNo : q \notin changed => page'[q] = page[q]
    BY <1>2, <1>6, <1>11
  <2> HIDE DEF changed
  <2> QED
    BY <1>4, <1>6, <2>1, FileStays
<1>17. pc' = "idle" /\ carry' = NoCarry /\ Calling(range2, level2)'
  BY <1>2, <1>15, Returned
<1>18. range2 = RootRange(range, Allocated)
  BY <1>a DEF no
<1> QED
  BY <1>2, <1>16, <1>17, <1>18

LEMMA NewRootStep ==
    ASSUME IInv, ~broken, NewRoot
    PROVE  IInv'
<1>1. PICK range, level : Calling(range, level)
  BY DEF IInv
<1>2. pc # "aborted" /\ pc' # "aborted" /\ Quiet /\ FileOK'
  BY <1>1, NewRootTree
<1>3. PICK range2, level2 : Calling(range2, level2)'
  BY <1>1, NewRootTree
<1> QED
  BY <1>2, <1>3, GoesOn

\* One half of a split page takes in what was split below it.
LEMMA HalfTakesIn ==
    ASSUME NEW pages, NEW r, NEW c, NEW range, NEW level, Tree(pages, r, c, range, level), c # NoCarry,
           NEW pg \in InternalPages(PageNo), Formed(pg), pg.count > 0, c.back \notin Kids(pg),
           InsertKey(pg, c.key, c.front, c.back).status = "ok",
           NEW np, np = InsertKey(pg, c.key, c.front, c.back).page,
           NEW R \in SUBSET Nat, Divides(pg, R, Whole(c, range))
    PROVE  /\ np \in InternalPages(PageNo) /\ np.count > 0 /\ Formed(np) /\ c.front \in Kids(pg)
           /\ Kids(np) = Kids(pg) \cup {c.back} /\ Divides(np, R, range)
<1>1. Shaped(UsedIn(pages), KidsOf(pages), r, c, range, level) /\ UsedIn(pages) \subseteq PageNo
  BY TreeKnows
<1>2. c.front \in UsedIn(pages) /\ c.back \in UsedIn(pages) /\ c.key \in Nat
  BY <1>1, ShapeKids
<1> DEFINE held == Whole(c, range)
<1>3. range[c.front] = Below(held[c.front], c.key) /\ range[c.back] = From(held[c.front], c.key)
  BY <1>1, SentShares
<1>4. \A q \in Kids(pg) : q # c.front => range[q] = held[q]
  <2> TAKE q \in Kids(pg)
  <2>1. q \in PageNo
    BY PageShape DEF Kids
  <2> QED
    BY <2>1, WholeOf
<1>5. c.front \in PageNo /\ c.back \in PageNo /\ Divides(pg, R, held)
  BY <1>1, <1>2
<1> HIDE DEF held
<1>6. /\ np \in InternalPages(PageNo) /\ np.count = pg.count + 1 /\ Formed(np) /\ c.front \in Kids(pg)
      /\ Kids(np) = Kids(pg) \cup {c.back} /\ Divides(np, R, range)
  BY <1>2, <1>3, <1>4, <1>5, InsertKeyDivides
<1> QED
  BY <1>6, PageShape

\* The other keeps what it has.
LEMMA HalfStays ==
    ASSUME NEW c, NEW range, NEW pg \in InternalPages(PageNo), c.front \notin Kids(pg),
           NEW R \in SUBSET Nat, Divides(pg, R, Whole(c, range))
    PROVE  Divides(pg, R, range)
<1>1. \A q \in Kids(pg) : range[q] = Whole(c, range)[q]
  <2> TAKE q \in Kids(pg)
  <2>1. q \in PageNo
    BY PageShape DEF Kids
  <2> QED
    BY <2>1, WholeOf
<1> QED
  BY <1>1, DividesSame

\* The halves a full internal page becomes.
Parted(c, s, front, back) ==
    \/ /\ front = s.front /\ InsertKey(s.back, c.key, c.front, c.back).status = "ok"
       /\ back = InsertKey(s.back, c.key, c.front, c.back).page
    \/ /\ back = s.back /\ InsertKey(s.front, c.key, c.front, c.back).status = "ok"
       /\ front = InsertKey(s.front, c.key, c.front, c.back).page

\* The children of the page and the new one are shared out.
SharedOut(pg, c, front, back) ==
    Kids(front) \cup Kids(back) = Kids(pg) \cup {c.back} /\ Kids(front) \cap Kids(back) = {}

\* Each half divides its side of the range.
LEMMA PartedDivides ==
    ASSUME NEW pages, NEW r, NEW c, NEW range, NEW level, Tree(pages, r, c, range, level), c # NoCarry,
           NEW p \in PageNo, pages[p].type = "internal", pages[p].count >= 3,
           NEW no \in PageNo, NEW old \in [Slots -> Nat],
           NEW s, s = SplitPage(pages[p], p, no, old),
           NEW front, NEW back, Parted(c, s, front, back)
    PROVE  /\ s.key \in Nat /\ front \in InternalPages(PageNo) /\ back \in InternalPages(PageNo)
           /\ front.count > 0 /\ back.count > 0 /\ Formed(front) /\ Formed(back)
           /\ SharedOut(pages[p], c, front, back)
           /\ Divides(front, Below(range[p], s.key), range) /\ Divides(back, From(range[p], s.key), range)
<1> DEFINE held == Whole(c, range)
           R    == range[p]
<1>1. /\ Shaped(UsedIn(pages), KidsOf(pages), r, c, range, level)
      /\ pages[p] \in InternalPages(PageNo) /\ Formed(pages[p]) /\ Divides(pages[p], R, held)
      /\ R \in SUBSET Nat /\ p \in UsedIn(pages) /\ KidsOf(pages)[p] = Kids(pages[p])
  BY TreeKnows
<1>2. p \in Nat /\ no \in Nat
  BY BTreeAssumption DEF PageNo
<1>3. c.back \notin Kids(pages[p])
  BY <1>1, ShapeKids
<1> DEFINE pg == pages[p]
           R1 == Below(R, s.key)
           R2 == From(R, s.key)
<1> HIDE DEF held, pg, R
<1>4. /\ s.key \in Nat /\ s.front \in InternalPages(PageNo) /\ s.back \in InternalPages(PageNo)
      /\ s.front.count > 0 /\ s.back.count > 0 /\ Formed(s.front) /\ Formed(s.back)
      /\ Kids(s.front) \cup Kids(s.back) = Kids(pg) /\ Kids(s.front) \cap Kids(s.back) = {}
      /\ Divides(s.front, R1, held) /\ Divides(s.back, R2, held)
  <2>1. /\ pg \in InternalPages(PageNo) /\ Formed(pg) /\ pg.count >= 3
        /\ p \in Nat /\ no \in Nat /\ old \in [Slots -> Nat]
        /\ R \in SUBSET Nat /\ Divides(pg, R, held) /\ s = SplitPage(pg, p, no, old)
    BY <1>1, <1>2 DEF pg
  <2>2. /\ s.key \in Nat /\ s.front \in InternalPages(PageNo) /\ s.back \in InternalPages(PageNo)
        /\ s.front.count > 0 /\ s.back.count > 0
    BY <2>1, SplitPageDivides
  <2>3. Formed(s.front) /\ Formed(s.back)
    BY <2>1, SplitPageDivides
  <2>4. Kids(s.front) \cup Kids(s.back) = Kids(pg)
    BY <2>1, SplitPageDivides
  <2>a. Separate(s.front, s.back)
    BY <2>1, SplitPageDivides
  <2>5. Kids(s.front) \cap Kids(s.back) = {}
    BY <2>a DEF Separate
  <2>6. Divides(s.front, Below(R, s.key), held) /\ Divides(s.back, From(R, s.key), held)
    BY <2>1, SplitPageDivides
  <2> QED
    BY <2>2, <2>3, <2>4, <2>5, <2>6
<1>5. R1 \in SUBSET Nat /\ R2 \in SUBSET Nat
  BY <1>1 DEF Below, From
<1>6. c.back \notin Kids(s.front) /\ c.back \notin Kids(s.back)
  BY <1>3, <1>4 DEF pg
<1> HIDE DEF R1, R2
<1>7. CASE /\ front = s.front /\ InsertKey(s.back, c.key, c.front, c.back).status = "ok"
           /\ back = InsertKey(s.back, c.key, c.front, c.back).page
  <2>1. /\ back \in InternalPages(PageNo) /\ back.count > 0 /\ Formed(back) /\ c.front \in Kids(s.back)
        /\ Kids(back) = Kids(s.back) \cup {c.back} /\ Divides(back, R2, range)
    BY <1>4, <1>5, <1>6, <1>7, HalfTakesIn DEF held
  <2>2. Divides(front, R1, range)
    BY <1>4, <1>5, <1>7, <2>1, HalfStays DEF held
  <2>3. Kids(front) \cup Kids(back) = Kids(pg) \cup {c.back} /\ Kids(front) \cap Kids(back) = {}
    BY <1>4, <1>6, <1>7, <2>1
  <2> QED
    BY <1>4, <1>7, <2>1, <2>2, <2>3 DEF pg, R1, R2, R, SharedOut
<1>8. CASE /\ back = s.back /\ InsertKey(s.front, c.key, c.front, c.back).status = "ok"
           /\ front = InsertKey(s.front, c.key, c.front, c.back).page
  <2>1. /\ front \in InternalPages(PageNo) /\ front.count > 0 /\ Formed(front) /\ c.front \in Kids(s.front)
        /\ Kids(front) = Kids(s.front) \cup {c.back} /\ Divides(front, R1, range)
    BY <1>4, <1>5, <1>6, <1>8, HalfTakesIn DEF held
  <2>2. Divides(back, R2, range)
    BY <1>4, <1>5, <1>8, <2>1, HalfStays DEF held
  <2>3. Kids(front) \cup Kids(back) = Kids(pg) \cup {c.back} /\ Kids(front) \cap Kids(back) = {}
    BY <1>4, <1>6, <1>8, <2>1
  <2> QED
    BY <1>4, <1>8, <2>1, <2>2, <2>3 DEF pg, R1, R2, R, SharedOut
<1> QED
  BY <1>7, <1>8 DEF Parted

\* A full internal page is split, and one half takes in what was split below it.
LEMMA SplitInternalTree ==
    ASSUME IInv, ~broken, SplitInternal, NEW range, NEW level, Calling(range, level)
    PROVE  /\ pc # "aborted" /\ pc' # "aborted" /\ Quiet /\ FileOK'
           /\ \E range2, level2 : range2 = SplitRange(range, Top, Allocated, carry'.key) /\ Calling(range2, level2)'
<1>1. PICK old \in OldKeys(Allocated) :
          LET h == SplitHalves(old)
          IN  /\ h.front.status = "ok" /\ h.back.status = "ok"
              /\ page' = [page EXCEPT ![Top] = h.front.page, ![h.no] = h.back.page]
              /\ dirty' = dirty \cup {Top, h.no}
              /\ carry' = [key |-> h.key, front |-> Top, back |-> h.no]
  BY DEF SplitInternal
<1> DEFINE no  == Allocated
           s   == SplitPage(page[Top], Top, no, old)
           pg1 == SplitHalves(old).front.page
           pg2 == SplitHalves(old).back.page
<1>2. /\ pc = "insert_up" /\ stack # <<>> /\ page[Top].type = "internal" /\ page[Top].count = KeyCapacity
      /\ CanAllocate /\ Allocate /\ SplitHalves(old).front.status = "ok" /\ SplitHalves(old).back.status = "ok"
      /\ page' = [page EXCEPT ![Top] = pg1, ![no] = pg2]
      /\ dirty' = dirty \cup {Top, no} /\ carry' = Sent(s.key, Top, no)
      /\ stack' = Front(stack) /\ pc' = "insert_up" /\ root' = root /\ Quiet
  BY <1>1 DEF SplitInternal, InternalFull, IsType, SplitHalves, Sent
<1>3. /\ Tree(page, root, carry, range, level) /\ Path(page, stack, root, level)
      /\ carry # NoCarry /\ Follows(page, stack, root, carry.front)
      /\ FedOK(page, level, {}) /\ Linked(page, range)
  BY <1>2, CallingAt DEF InsertingUp
<1>4. FileOK
  BY DEF IInv
<1>5. /\ Top = stack[Len(stack)] /\ Top \in UsedIn(page) /\ Top \in PageNo
      /\ Top \in 1 .. pageCount - 1 /\ Top # 0
      /\ Len(stack) \in Nat /\ Len(stack) > 0 /\ Front(stack) = SubSeq(stack, 1, Len(stack) - 1)
  BY <1>2, <1>3, <1>4, AtTop
<1>6. /\ page \in [PageNo -> Pages] /\ range \in [PageNo -> SUBSET Nat] /\ level \in [PageNo -> Nat]
      /\ KidsOf(page)[Top] = Kids(page[Top])
  BY <1>2, <1>3, <1>5, TreeKnows
<1>7. /\ no \in PageNo /\ no # 0 /\ no \notin UsedIn(page)
      /\ free' \in Nat /\ pageCount' \in 2 .. MaxPages /\ pageCount <= pageCount'
      /\ no \in 1 .. pageCount' - 1
  BY <1>2, <1>4, <1>6, Allocates
<1>8. no # Top
  BY <1>5, <1>7
<1>9. carry.front \in KidsOf(page)[Top]
  BY <1>2, <1>3, <1>5, <1>6 DEF Follows, HasKid
<1>10. old \in [Slots -> Nat]
  BY <1>1, <1>6, <1>7, OldKeysAre
<1> HIDE DEF no
<1>11. Parted(carry, s, pg1, pg2)
  <2>1. CASE carry.key > s.key
    <3>1. SplitHalves(old).front = Ok(s.front) /\ SplitHalves(old).back = InsertKey(s.back, carry.key, carry.front, carry.back)
      BY <2>1 DEF SplitHalves, no
    <3> QED
      BY <1>2, <3>1 DEF Parted, Ok
  <2>2. CASE ~(carry.key > s.key)
    <3>1. SplitHalves(old).back = Ok(s.back) /\ SplitHalves(old).front = InsertKey(s.front, carry.key, carry.front, carry.back)
      BY <2>2 DEF SplitHalves, no
    <3> QED
      BY <1>2, <3>1 DEF Parted, Ok
  <2> QED
    BY <2>1, <2>2
<1>12. s = SplitPage(page[Top], Top, no, old) /\ page[Top].count >= 3
  BY <1>2, InternalPageAssumption
<1> HIDE DEF s, pg1, pg2
<1>13. /\ s.key \in Nat /\ pg1 \in InternalPages(PageNo) /\ pg2 \in InternalPages(PageNo)
       /\ pg1.count > 0 /\ pg2.count > 0 /\ Formed(pg1) /\ Formed(pg2)
       /\ SharedOut(page[Top], carry, pg1, pg2)
       /\ Divides(pg1, Below(range[Top], s.key), range) /\ Divides(pg2, From(range[Top], s.key), range)
  <2>1. /\ Tree(page, root, carry, range, level) /\ carry # NoCarry
        /\ Top \in PageNo /\ page[Top].type = "internal" /\ page[Top].count >= 3
        /\ no \in PageNo /\ old \in [Slots -> Nat] /\ s = SplitPage(page[Top], Top, no, old)
        /\ Parted(carry, s, pg1, pg2)
    BY <1>2, <1>3, <1>5, <1>7, <1>10, <1>11, <1>12 DEF no
  <2>2. /\ s.key \in Nat /\ pg1 \in InternalPages(PageNo) /\ pg2 \in InternalPages(PageNo)
        /\ pg1.count > 0 /\ pg2.count > 0 /\ Formed(pg1) /\ Formed(pg2)
    BY <2>1, PartedDivides
  <2>3. SharedOut(page[Top], carry, pg1, pg2)
    BY <2>1, PartedDivides
  <2>5. Divides(pg1, Below(range[Top], s.key), range) /\ Divides(pg2, From(range[Top], s.key), range)
    BY <2>1, PartedDivides
  <2> QED
    BY <2>2, <2>3, <2>5
<1>14. /\ page' \in [PageNo -> Pages] /\ page'[Top] = pg1 /\ page'[no] = pg2
       /\ pg1.type = "internal" /\ pg2.type = "internal"
       /\ \A q \in PageNo : q # Top /\ q # no => page'[q] = page[q]
  BY <1>2, <1>5, <1>6, <1>7, <1>8, <1>13, PageKinds
<1>a. PICK range2 : range2 = SplitRange(range, Top, no, s.key)
  OBVIOUS
<1>b. PICK level2 : level2 = SplitLevel(level, Top, no)
  OBVIOUS
<1>15. Tree(page', root, carry', range2, level2)
  <2>1. Halves(page, page', carry, Top, no)
    <3>1. /\ KidsOf(page')[Top] = Kids(pg1) /\ KidsOf(page')[no] = Kids(pg2)
          /\ Top \in UsedIn(page') /\ no \in UsedIn(page')
      BY <1>5, <1>7, <1>14 DEF KidsOf, UsedIn
    <3> QED
      BY <1>3, <1>6, <1>13, <1>14, <3>1 DEF Halves, SharedOut
  <2>2. /\ HalfOK(page'[Top], level[Top], Below(range[Top], s.key), range)
        /\ HalfOK(page'[no], level[Top], From(range[Top], s.key), range)
    BY <1>13, <1>14 DEF HalfOK
  <2>3. s.key \in Nat /\ no \in PageNo \ {0} /\ carry' = Sent(s.key, Top, no)
    BY <1>2, <1>7, <1>13 DEF s, no
  <2> QED
    BY <1>3, <1>5, <1>7, <1>9, <1>14, <1>a, <1>b, <2>1, <2>2, <2>3, TreeSplit
<1>16. \A q \in PageNo : q # no => level2[q] = level[q]
  BY <1>6, <1>b DEF SplitLevel
<1>17. Path(page', stack', root, level2) /\ Follows(page', stack', root, Top)
  <2> DEFINE m == Len(stack) - 1
  <2>1. m \in 0 .. Len(stack) /\ m < Len(stack) /\ Top = stack[m + 1]
    BY <1>5
  <2>2. HigherStay(page, page', level, level2, level[Top])
    <3> SUFFICES ASSUME NEW q \in UsedIn(page), level[q] > level[Top]
                 PROVE  page'[q] = page[q] /\ level2[q] = level[q]
      BY DEF HigherStay
    <3>1. q \in PageNo /\ q # no /\ q # Top
      BY <1>5, <1>6, <1>7 DEF UsedIn
    <3> QED
      BY <1>14, <1>16, <3>1
  <2>3. stack' = SubSeq(stack, 1, m)
    BY <1>2, <1>5
  <2> HIDE DEF m
  <2> QED
    BY <1>3, <1>6, <2>1, <2>2, <2>3, PathKept
<1>18. FedOK(page', level2, {})
  <2>1. \A q \in InternalsOf(page') :
           \/ q = Top \/ q = no
           \/ q \in InternalsOf(page) /\ page'[q] = page[q] /\ level2[q] = level[q]
    BY <1>14, <1>16 DEF InternalsOf
  <2>2. page'[Top].count # 0 /\ page'[no].count # 0
    BY <1>13, <1>14
  <2> QED
    BY <1>3, <2>1, <2>2 DEF FedOK
<1>19. Linked(page', range2)
  <2>1. page[no].type # "leaf" /\ page[Top].type # "leaf"
    BY <1>2, <1>7 DEF UsedIn
  <2>2. \A q \in PageNo : page'[q].type = "leaf" <=> page[q].type = "leaf"
    BY <1>14, <2>1
  <2>3. \A q \in PageNo : q # Top /\ q # no => range2[q] = range[q]
    BY <1>6, <1>a DEF SplitRange
  <2>4. \A q \in LeavesOf(page) :
           page'[q].prev = page[q].prev /\ page'[q].next = page[q].next /\ range2[q] = range[q]
    BY <1>14, <2>1, <2>3 DEF LeavesOf
  <2> QED
    BY <1>3, <2>2, <2>4, LinkedSame
<1>20. Calling(range2, level2)'
  <2>1. carry' # NoCarry /\ carry'.front = Top
    BY <1>2, <1>5 DEF Sent, NoCarry
  <2>2. InsertingUp(range2, level2)'
    BY <1>2, <1>15, <1>17, <1>18, <1>19, <2>1 DEF InsertingUp
  <2> QED
    BY <1>2, <1>17, <2>2 DEF Calling
<1>21. FileOK'
  <2> DEFINE changed == {Top, no}
  <2>1. pageCount \in Nat /\ pageCount' \in Nat
    BY <1>4, <1>7 DEF FileOK
  <2>2. Top \in 1 .. pageCount' - 1
    BY <1>5, <1>7, <2>1
  <2>3. /\ changed \subseteq 1 .. pageCount' - 1 /\ dirty' \subseteq dirty \cup changed
        /\ \A q \in PageNo : q \notin changed => page'[q] = page[q]
    BY <1>2, <1>7, <1>14, <2>2 DEF no
  <2> HIDE DEF changed
  <2> QED
    BY <1>4, <1>7, <2>3, FileStays
<1>22. range2 = SplitRange(range, Top, Allocated, carry'.key)
  BY <1>2, <1>a DEF no, Sent
<1> QED
  BY <1>2, <1>20, <1>21, <1>22

LEMMA SplitInternalStep ==
    ASSUME IInv, ~broken, SplitInternal
    PROVE  IInv'
<1>1. PICK range, level : Calling(range, level)
  BY DEF IInv
<1>2. pc # "aborted" /\ pc' # "aborted" /\ Quiet /\ FileOK'
  BY <1>1, SplitInternalTree
<1>3. PICK range2, level2 : Calling(range2, level2)'
  BY <1>1, SplitInternalTree
<1> QED
  BY <1>2, <1>3, GoesOn

-----------------------------------------------------------------------------
(* cursor::remove and adjust_tree                                          *)

\* While records are removed nothing is said of the links back.
LEMMA LinkedNot == ASSUME ~OnlyInserts PROVE \A pages, range : Linked(pages, range)
BY DEF Linked, Backward, Forward

\* A record is taken out of its leaf.
LEMMA RemoveFromLeafStep ==
    ASSUME IInv, ~broken, RemoveFromLeaf
    PROVE  IInv'
<1>1. PICK range, level : Calling(range, level)
  BY DEF IInv
<1> DEFINE at   == CHOOSE i \in DOMAIN page[Top].recs : page[Top].recs[i].key = op.key
           left == RemoveAt(page[Top].recs, at)
           pg   == [page[Top] EXCEPT !.recs = left]
<1>2. /\ pc = "search" /\ op.kind = "remove" /\ page[Top].type = "leaf"
      /\ op.key \in KeySet(page[Top].recs) /\ dirty' = dirty \cup {Top}
      /\ root' = root /\ free' = free /\ pageCount' = pageCount /\ Quiet
      /\ \/ Len(stack) > 1 /\ pc' = "adjust_leaf" /\ stack' = stack /\ carry' = carry
         \/ Return
  BY DEF RemoveFromLeaf, IsType
<1>3. /\ SearchOK(page, stack, op, range) /\ Resting(page, root, range, level) /\ carry = NoCarry
      /\ Tree(page, root, carry, range, level) /\ Path(page, stack, root, level)
  BY <1>1, <1>2, CallingAt DEF Searching
<1>4. FileOK /\ stack # <<>> /\ ~OnlyInserts
  BY <1>2, <1>3 DEF IInv, SearchOK
<1>5. /\ Top = stack[Len(stack)] /\ Top \in UsedIn(page) /\ Top \in PageNo
      /\ Top \in 1 .. pageCount - 1
  BY <1>3, <1>4, AtTop
<1>6. /\ page[Top] \in LeafPages /\ page[Top].recs \in Sorted /\ KeySet(page[Top].recs) \subseteq range[Top]
      /\ page \in [PageNo -> Pages]
  BY <1>2, <1>3, <1>5, TreeKnows
<1>7. at \in DOMAIN page[Top].recs
  BY <1>2 DEF KeySet
<1> HIDE DEF at
<1>8. left \in Sorted /\ KeySet(left) \subseteq range[Top]
  BY <1>6, <1>7, RemoveSorted
<1>9. page' = Put(page, Top, pg)
  BY <1>6 DEF RemoveFromLeaf, Put, at
<1> HIDE DEF left
<1>10. pg \in LeafPages /\ pg.recs = left /\ pg.type = "leaf"
  BY <1>6, <1>8 DEF LeafPages, Sorted
<1> HIDE DEF pg
<1>11. Tree(page', root, carry, range, level) /\ UsedIn(page') = UsedIn(page)
  <2>1. pg.recs \in Sorted /\ KeySet(pg.recs) \subseteq range[Top]
    BY <1>8, <1>10
  <2> QED
    BY <1>2, <1>3, <1>5, <1>9, <1>10, <2>1, TreeLeaf
<1>12. page'[Top] = pg /\ \A q \in PageNo : q # Top => page'[q] = page[q]
  BY <1>5, <1>6, <1>9, <1>10 DEF Put
<1>13. FedOK(page', level, {})
  <2>1. InternalsOf(page') = InternalsOf(page) /\ \A q \in InternalsOf(page) : page'[q] = page[q]
    BY <1>2, <1>10, <1>12 DEF InternalsOf
  <2> QED
    BY <1>3, <2>1 DEF Resting, FedOK
<1>14. Resting(page, root, range, level)'
  BY <1>2, <1>3, <1>4, <1>11, <1>13, LinkedNot DEF Resting
<1>15. FileOK'
  <2>1. pageCount \in Nat /\ free' \in Nat /\ pageCount' \in 2 .. MaxPages /\ pageCount <= pageCount'
    BY <1>2, <1>4 DEF FileOK
  <2> DEFINE changed == {Top}
  <2>2. /\ changed \subseteq 1 .. pageCount' - 1 /\ dirty' \subseteq dirty \cup changed
        /\ \A q \in PageNo : q \notin changed => page'[q] = page[q]
    BY <1>2, <1>5, <1>12
  <2> HIDE DEF changed
  <2> QED
    BY <1>4, <2>1, <2>2, FileStays
<1>16. CASE Return
  BY <1>2, <1>14, <1>15, <1>16, Returns
<1>17. CASE Len(stack) > 1 /\ pc' = "adjust_leaf" /\ stack' = stack /\ carry' = carry
  <2>1. \A q \in UsedIn(page) : page[q].type = "internal" => page'[q] = page[q]
    BY <1>2, <1>12 DEF UsedIn
  <2>2. Path(page', stack, root, level)
    BY <1>3, <1>11, <2>1, PathSame
  <2>3. AdjustingLeaf(range, level)'
    BY <1>2, <1>3, <1>4, <1>5, <1>10, <1>12, <1>14, <1>17 DEF AdjustingLeaf
  <2>4. Calling(range, level)'
    BY <1>2, <1>17, <2>2, <2>3 DEF Calling
  <2> QED
    BY <1>2, <1>15, <1>17, <2>4, GoesOn
<1> QED
  BY <1>2, <1>16, <1>17

\* obtain_nearby_page finds a page and its neighbour.
LEMMA NearbyFound ==
    ASSUME NEW up, page[up] \in InternalPages(PageNo), Formed(page[up]), NEW no,
           page[up].count > 0, Nearby(up, no).found
    PROVE  /\ Neighbours(page[up], Nearby(up, no).front, Nearby(up, no).back)
           /\ no = Nearby(up, no).front \/ no = Nearby(up, no).back
<1> DEFINE kids == page[up].kids
           n == page[up].count
           i == KidPosition(kids, no)
           j == IF i = n + 1 THEN i - 1 ELSE i
<1>1. /\ n \in Nat /\ kids \in Seq(PageNo) /\ Len(kids) = n + 1 /\ DOMAIN kids = 1 .. n + 1 /\ n > 0
  BY PageShape DEF Formed
<1>2. i # 0 /\ Nearby(up, no).front = kids[j] /\ Nearby(up, no).back = kids[j + 1]
  BY DEF Nearby
<1>3. i \in 1 .. n + 1 /\ kids[i] = no
  <2> HIDE DEF kids
  <2>1. i \in DOMAIN kids /\ kids[i] = no
    BY <1>1, <1>2, KidFound
  <2> QED
    BY <1>1, <2>1
<1> HIDE DEF i, kids, n
<1>4. j \in 1 .. n /\ (no = kids[j] \/ no = kids[j + 1])
  BY <1>1, <1>3
<1> QED
  BY <1>2, <1>4 DEF kids, n, Neighbours

\* The two leaves adjust_tree starts with are neighbours below the page above on the path.
LEMMA LeavesFound ==
    ASSUME NEW range, NEW level, Calling(range, level), pc = "adjust_leaf", LeafPairOk, FileOK
    PROVE  /\ Tree(page, root, NoCarry, range, level) /\ Path(page, stack, root, level)
           /\ carry = NoCarry /\ ~OnlyInserts /\ FedOK(page, level, {}) /\ Len(stack) \in Nat /\ Len(stack) > 1
           /\ Parent \in PageNo /\ Parent \in 1 .. pageCount - 1 /\ page[Parent].type = "internal"
           /\ Neighbours(page[Parent], LeafPair.front, LeafPair.back)
           /\ page[LeafPair.front].type = "leaf" /\ page[LeafPair.back].type = "leaf"
           /\ LeafPair.front \in 1 .. pageCount - 1 /\ LeafPair.back \in 1 .. pageCount - 1
           /\ LeafPair.front \in Kids(page[Parent]) /\ LeafPair.back \in Kids(page[Parent])
           /\ LeafPair.front # LeafPair.back
           /\ level[Parent] = level[LeafPair.front] + 1 /\ level[Parent] = level[LeafPair.back] + 1
           /\ LeafPair.front # Parent /\ LeafPair.back # Parent
           /\ LeafPair.front \in PageNo /\ LeafPair.back \in PageNo
<1> DEFINE p == Parent
           f == LeafPair.front
           b == LeafPair.back
<1>1. /\ Tree(page, root, NoCarry, range, level) /\ Path(page, stack, root, level)
      /\ carry = NoCarry /\ ~OnlyInserts /\ FedOK(page, level, {}) /\ Len(stack) > 1
  BY CallingAt DEF AdjustingLeaf, Resting
<1>2. stack # <<>>
  BY <1>1
<1>3. /\ Len(stack) \in Nat /\ p \in UsedIn(page) /\ p \in PageNo /\ HasKid(page[p], stack[Len(stack)])
  BY <1>1, <1>2, PathTop DEF Parent
<1>4. page[p].type = "internal" /\ page[p].count > 0
  BY <1>3 DEF HasKid
<1>5. /\ UsedIn(page) \subseteq PageNo \ {0} /\ page[p] \in InternalPages(PageNo) /\ Formed(page[p])
      /\ KidsOf(page)[p] = Kids(page[p]) /\ level \in [PageNo -> Nat]
      /\ Shaped(UsedIn(page), KidsOf(page), root, NoCarry, range, level)
  BY <1>1, <1>3, <1>4, TreeKnows
<1>6. pageCount \in Nat /\ Counted(page, pageCount)
  BY DEF FileOK
<1>7. /\ LeafPair = Nearby(p, Top) /\ LeafPair.found
      /\ page[f].type = "leaf" /\ page[b].type = "leaf"
  BY DEF LeafPairOk, IsType, LeafPair
<1> HIDE DEF p
<1>a. Neighbours(page[p], f, b)
  BY <1>4, <1>5, <1>7, NearbyFound
<1>8. PICK i \in 1 .. page[p].count : f = page[p].kids[i] /\ b = page[p].kids[i + 1]
  BY <1>a DEF Neighbours
<1>9. /\ page[p].count \in Nat /\ Len(page[p].kids) = page[p].count + 1
      /\ DOMAIN page[p].kids = 1 .. page[p].count + 1
  BY <1>5, PageShape DEF Formed
<1>10. f \in Kids(page[p]) /\ b \in Kids(page[p]) /\ f # b
  <2>1. i \in DOMAIN page[p].kids /\ i + 1 \in DOMAIN page[p].kids /\ i # i + 1
    BY <1>9
  <2>2. f \in Kids(page[p]) /\ b \in Kids(page[p])
    BY <1>8, <2>1 DEF Kids
  <2>3. f # b
    BY <1>5, <1>8, <2>1 DEF Formed
  <2> QED
    BY <2>2, <2>3
<1>11. /\ f \in UsedIn(page) /\ b \in UsedIn(page) /\ f # p /\ b # p
       /\ level[p] = level[f] + 1 /\ level[p] = level[b] + 1
  BY <1>3, <1>5, <1>10, ShapeKids
<1>12. p \in 1 .. pageCount - 1 /\ f \in 1 .. pageCount - 1 /\ b \in 1 .. pageCount - 1
  BY <1>3, <1>5, <1>6, <1>11, UsedBelow
<1>13. f \in PageNo /\ b \in PageNo
  BY <1>5, <1>11
<1> QED
  BY <1>1, <1>3, <1>4, <1>7, <1>a, <1>10, <1>11, <1>12, <1>13 DEF p

\* Two leaves become one, and the page above loses the second.
LEMMA MergeLeavesStep ==
    ASSUME IInv, ~broken, MergeLeaves
    PROVE  IInv'
<1>1. PICK range, level : Calling(range, level)
  BY DEF IInv
<1> DEFINE p  == Parent
           f  == LeafPair.front
           b  == LeafPair.back
           np == RemoveKid(page[p], b).page
           pf == MergedLeaf(page[f], page[b])
           pb == Released(b)
<1>2. FileOK /\ LeafPairOk /\ pc = "adjust_leaf"
  BY DEF IInv, MergeLeaves
<1>3. /\ MergeOk(page[f].recs, page[b].recs)
      /\ page' = [page EXCEPT ![f] = pf, ![b] = pb, ![p] = np]
      /\ dirty' = dirty \cup {f, b} /\ free' = b /\ upper' = [pointer |-> p, no |-> p]
      /\ stack' = SubSeq(stack, 1, Len(stack) - 2) /\ pc' = "adjust_up"
      /\ root' = root /\ pageCount' = pageCount /\ carry' = carry /\ Quiet
  BY DEF MergeLeaves, Above
<1>4. /\ Tree(page, root, NoCarry, range, level) /\ Path(page, stack, root, level)
      /\ carry = NoCarry /\ ~OnlyInserts /\ FedOK(page, level, {}) /\ Len(stack) \in Nat /\ Len(stack) > 1
      /\ p \in PageNo /\ p \in 1 .. pageCount - 1 /\ page[p].type = "internal"
      /\ Neighbours(page[p], f, b)
      /\ page[f].type = "leaf" /\ page[b].type = "leaf" /\ f \in PageNo /\ b \in PageNo
      /\ f \in 1 .. pageCount - 1 /\ b \in 1 .. pageCount - 1 /\ f # b /\ f # p /\ b # p
      /\ level[p] = level[f] + 1 /\ level[p] = level[b] + 1
  BY <1>1, <1>2, LeavesFound
<1>5. p = stack[Len(stack) - 1]
  BY DEF Parent
<1> HIDE DEF p, f, b
<1>7. /\ page[f] \in LeafPages /\ page[f].recs \in Sorted /\ KeySet(page[f].recs) \subseteq range[f]
      /\ page[b] \in LeafPages /\ page[b].recs \in Sorted /\ KeySet(page[b].recs) \subseteq range[b]
      /\ page \in [PageNo -> Pages] /\ level \in [PageNo -> Nat]
  BY <1>4, TreeKnows
<1>8. Joining(page, range, f, b, pf)
  <2>1. /\ MergedRecords(page[f].recs, page[b].recs) \in Sorted
        /\ KeySet(MergedRecords(page[f].recs, page[b].recs)) \subseteq KeySet(page[f].recs) \cup KeySet(page[b].recs)
    BY <1>3, <1>7, MergedSorted DEF MergeOk
  <2>2. pf.recs = MergedRecords(page[f].recs, page[b].recs) /\ pf \in LeafPages
    BY <1>7, <2>1 DEF LeafPages, MergedLeaf, Leaf, Sorted
  <2> QED
    BY <1>4, <1>7, <2>1, <2>2 DEF Joining
<1>9. pf.type = "leaf"
  BY DEF MergedLeaf, Leaf
<1>10. pb \in FreePages /\ pb.type = "free"
  BY <1>2, <1>4, <1>7, Releases DEF FileOK, FreePages
<1> HIDE DEF pf, pb
<1>11. page' = Put(Put(Put(page, f, pf), b, pb), p, np)
  BY <1>3 DEF Put
<1>a. PICK range2 : range2 = MergedRange(range, f, b)
  OBVIOUS
<1>12. Tree(page', root, NoCarry, range2, level) /\ np.type = "internal"
  <2>1. /\ Tree(page, root, NoCarry, range, level) /\ p \in PageNo /\ page[p].type = "internal"
        /\ Neighbours(page[p], f, b)
        /\ np = RemoveKid(page[p], b).page /\ Joining(page, range, f, b, pf) /\ pb \in FreePages
        /\ page' = Put(Put(Put(page, f, pf), b, pb), p, np) /\ range2 = MergedRange(range, f, b)
    BY <1>4, <1>8, <1>10, <1>11, <1>a
  <2> HIDE DEF np
  <2>2. Tree(page', root, NoCarry, range2, level)
    BY <2>1, TreeMerge
  <2>3. np.type = "internal"
    BY <2>1, TreeMerge
  <2> QED
    BY <2>2, <2>3
<1> HIDE DEF np
<1>13. /\ page'[f] = pf /\ page'[b] = pb /\ page'[p] = np
       /\ \A q \in PageNo : q # f /\ q # b /\ q # p => page'[q] = page[q]
  BY <1>3, <1>4, <1>7
<1>14. Path(page', stack', root, level) /\ Follows(page', stack', root, p)
  <2> DEFINE m == Len(stack) - 2
  <2>1. m \in 0 .. Len(stack) /\ m < Len(stack) /\ p = stack[m + 1]
    BY <1>4, <1>5
  <2>2. HigherStay(page, page', level, level, level[p])
    <3> SUFFICES ASSUME NEW q \in UsedIn(page), level[q] > level[p]
                 PROVE  page'[q] = page[q] /\ level[q] = level[q]
      BY DEF HigherStay
    <3>1. q \in PageNo /\ level[f] \in Nat /\ level[b] \in Nat /\ level[p] \in Nat /\ level[q] \in Nat
      BY <1>4, <1>7 DEF UsedIn
    <3>2. q # p
      BY <3>1
    <3>3. q # f
      BY <1>4, <3>1
    <3>4. q # b
      BY <1>4, <3>1
    <3> QED
      BY <1>13, <3>1, <3>2, <3>3, <3>4
  <2>3. stack' = SubSeq(stack, 1, m)
    BY <1>3
  <2> HIDE DEF m
  <2> QED
    BY <1>4, <1>7, <2>1, <2>2, <2>3, PathKept
<1>15. FedOK(page', level, {upper'.no})
  <2>1. \A q \in InternalsOf(page') : q # p => q \in InternalsOf(page) /\ page'[q] = page[q]
    BY <1>9, <1>10, <1>13 DEF InternalsOf
  <2>2. upper'.no = p
    BY <1>3
  <2> QED
    BY <1>4, <2>1, <2>2 DEF FedOK
<1>16. PointerOK(page', level, upper')
  BY <1>3, <1>4, <1>12, <1>13 DEF PointerOK, InternalsOf
<1>17. Calling(range2, level)'
  <2>1. AdjustingUp(range2, level)'
    BY <1>3, <1>4, <1>12, <1>14, <1>15, <1>16 DEF AdjustingUp
  <2> QED
    BY <1>3, <1>14, <2>1 DEF Calling
<1>18. FileOK'
  <2>1. pageCount \in Nat /\ free' \in Nat /\ pageCount' \in 2 .. MaxPages /\ pageCount <= pageCount'
    BY <1>2, <1>3, <1>4 DEF FileOK
  <2> DEFINE changed == {f, b, p}
  <2>2. /\ changed \subseteq 1 .. pageCount' - 1 /\ dirty' \subseteq dirty \cup changed
        /\ \A q \in PageNo : q \notin changed => page'[q] = page[q]
    BY <1>3, <1>4, <1>13
  <2> HIDE DEF changed
  <2> QED
    BY <1>2, <2>1, <2>2, FileStays
<1> QED
  BY <1>2, <1>3, <1>17, <1>18, GoesOn

\* Two leaves share out their records anew, and the key between them changes above.
LEMMA BalanceLeafPairStep ==
    ASSUME IInv, ~broken, BalanceLeafPair
    PROVE  IInv'
<1>1. PICK range, level : Calling(range, level)
  BY DEF IInv
<1> DEFINE p   == Parent
           f   == LeafPair.front
           b   == LeafPair.back
           s   == BalanceLeaves(page[f].recs, page[b].recs)
           key == s.last[1].key
           np  == UpdateKey(page[p], key, f, b).page
           pf  == [page[f] EXCEPT !.recs = s.first]
           pb  == [page[b] EXCEPT !.recs = s.last]
<1>2. FileOK /\ LeafPairOk /\ pc = "adjust_leaf"
  BY DEF IInv, BalanceLeafPair
<1>3. /\ BalanceOk(s) /\ UpdateKey(page[p], key, f, b).status = "ok"
      /\ page' = [page EXCEPT ![f].recs = s.first, ![b].recs = s.last, ![p] = np]
      /\ dirty' = dirty \cup {f, b, p}
      /\ root' = root /\ free' = free /\ pageCount' = pageCount /\ Return /\ Quiet
  BY DEF BalanceLeafPair
<1>4. /\ Tree(page, root, NoCarry, range, level)
      /\ ~OnlyInserts /\ FedOK(page, level, {})
      /\ p \in PageNo /\ p \in 1 .. pageCount - 1 /\ page[p].type = "internal"
      /\ page[f].type = "leaf" /\ page[b].type = "leaf" /\ f \in PageNo /\ b \in PageNo
      /\ f \in Kids(page[p]) /\ b \in Kids(page[p])
      /\ f \in 1 .. pageCount - 1 /\ b \in 1 .. pageCount - 1 /\ f # b /\ f # p /\ b # p
  BY <1>1, <1>2, LeavesFound
<1> HIDE DEF p, f, b
<1>5. /\ page[f] \in LeafPages /\ page[f].recs \in Sorted /\ KeySet(page[f].recs) \subseteq range[f]
      /\ page[b] \in LeafPages /\ page[b].recs \in Sorted /\ KeySet(page[b].recs) \subseteq range[b]
      /\ page \in [PageNo -> Pages]
  BY <1>4, TreeKnows
<1>6. /\ s.first \in Sorted /\ s.last \in Sorted
      /\ KeySet(s.first) \cup KeySet(s.last) \subseteq KeySet(page[f].recs) \cup KeySet(page[b].recs)
  BY <1>5, BalancedSorted
<1> HIDE DEF s
<1>7. /\ key \in KeySet(s.last) /\ key \in Nat \ {0}
      /\ \A k \in KeySet(s.first) : k < key
      /\ \A k \in KeySet(s.last) : key <= k
  BY <1>3, <1>6, BalancedApart
<1> HIDE DEF key
<1>8. /\ key \in range[f] \cup range[b] /\ key \in Nat
      /\ KeySet(s.first) \subseteq Below(range[f] \cup range[b], key)
      /\ KeySet(s.last) \subseteq From(range[f] \cup range[b], key)
  BY <1>5, <1>6, <1>7 DEF Below, From
<1>9. pf \in LeafPages /\ pf.recs = s.first /\ pb \in LeafPages /\ pb.recs = s.last
  BY <1>5, <1>6 DEF LeafPages, Sorted
<1>10. pf.type = "leaf" /\ pb.type = "leaf"
  BY <1>9, PageKinds
<1>11. page' = [page EXCEPT ![f] = pf, ![b] = pb, ![p] = np]
  BY <1>3, <1>4, <1>5
<1> HIDE DEF pf, pb
<1>12. page' = Put(Put(Put(page, f, pf), b, pb), p, np)
  BY <1>11 DEF Put
<1>a. PICK range2 : range2 = BalancedRange(range, f, b, key)
  OBVIOUS
<1>13. Tree(page', root, NoCarry, range2, level) /\ np.type = "internal" /\ np.count = page[p].count
  <2>1. /\ Tree(page, root, NoCarry, range, level) /\ p \in PageNo /\ page[p].type = "internal"
        /\ f \in Kids(page[p]) /\ b \in Kids(page[p]) /\ f # b
        /\ page[f].type = "leaf" /\ page[b].type = "leaf"
        /\ key \in Nat /\ key \in range[f] \cup range[b]
        /\ UpdateKey(page[p], key, f, b).status = "ok" /\ np = UpdateKey(page[p], key, f, b).page
        /\ pf \in LeafPages /\ pf.recs \in Sorted /\ KeySet(pf.recs) \subseteq Below(range[f] \cup range[b], key)
        /\ pb \in LeafPages /\ pb.recs \in Sorted /\ KeySet(pb.recs) \subseteq From(range[f] \cup range[b], key)
        /\ page' = Put(Put(Put(page, f, pf), b, pb), p, np) /\ range2 = BalancedRange(range, f, b, key)
    BY <1>3, <1>4, <1>6, <1>8, <1>9, <1>12, <1>a
  <2> HIDE DEF np
  <2>2. Tree(page', root, NoCarry, range2, level)
    BY <2>1, TreeBalance, SMTT(30)
  <2>3. np.type = "internal" /\ np.count = page[p].count
    BY <2>1, TreeBalance
  <2> QED
    BY <2>2, <2>3
<1> HIDE DEF np
<1>14. /\ page'[f] = pf /\ page'[b] = pb /\ page'[p] = np
       /\ \A q \in PageNo : q # f /\ q # b /\ q # p => page'[q] = page[q]
  BY <1>4, <1>5, <1>11
<1>15. FedOK(page', level, {})
  <2>1. \A q \in InternalsOf(page') : q = p \/ (q \in InternalsOf(page) /\ page'[q] = page[q])
    BY <1>10, <1>14 DEF InternalsOf
  <2>2. p \in InternalsOf(page) /\ page'[p].count = page[p].count
    BY <1>4, <1>13, <1>14 DEF InternalsOf
  <2> QED
    BY <1>4, <2>1, <2>2 DEF FedOK
<1>16. Resting(page, root, range2, level)'
  BY <1>3, <1>4, <1>13, <1>15, LinkedNot DEF Resting
<1>17. FileOK'
  <2>1. pageCount \in Nat /\ free' \in Nat /\ pageCount' \in 2 .. MaxPages /\ pageCount <= pageCount'
    BY <1>2, <1>3 DEF FileOK
  <2> DEFINE changed == {f, b, p}
  <2>2. /\ changed \subseteq 1 .. pageCount' - 1 /\ dirty' \subseteq dirty \cup changed
        /\ \A q \in PageNo : q \notin changed => page'[q] = page[q]
    BY <1>3, <1>4, <1>14
  <2> HIDE DEF changed
  <2> QED
    BY <1>2, <2>1, <2>2, FileStays
<1> QED
  BY <1>2, <1>3, <1>16, <1>17, Returns

\* The page upper_page_no names, where the loop ends: it has keys, or internal pages below it.
LEMMA PointerFed ==
    ASSUME NEW range, NEW level, AdjustingUp(range, level), PointerCount # 0
    PROVE  FedOK(page, level, {})
<1>1. ~OnlyInserts /\ FedOK(page, level, {upper.no}) /\ PointerOK(page, level, upper)
  BY DEF AdjustingUp
<1>2. SUFFICES page[upper.no].count = 0 => level[upper.no] >= 2
  BY <1>1 DEF FedOK
<1>3. CASE upper.pointer = upper.no
  <2>1. page[upper.pointer].type = "internal"
    BY <1>1, <1>3 DEF PointerOK, InternalsOf
  <2>2. PointerCount = page[upper.no].count
    BY <1>3, <2>1 DEF PointerCount
  <2> QED
    BY <2>2
<1>4. CASE upper.pointer # upper.no
  BY <1>1, <1>4 DEF PointerOK
<1> QED
  BY <1>3, <1>4

\* The loop ends early.
LEMMA EnoughKeysStep ==
    ASSUME IInv, ~broken, EnoughKeys
    PROVE  IInv'
<1>1. PICK range, level : Calling(range, level)
  BY DEF IInv
<1>2. /\ pc = "adjust_up" /\ PointerCount >= KeyCapacity \div 4 /\ UNCHANGED treeVars /\ Return /\ Quiet
  BY DEF EnoughKeys
<1>3. PointerCount # 0
  <2>1. KeyCapacity \div 4 >= 2 /\ KeyCapacity \div 4 \in Nat
    BY InternalPageAssumption
  <2> QED
    BY <1>2, <2>1
<1>4. AdjustingUp(range, level) /\ ~OnlyInserts /\ Tree(page, root, NoCarry, range, level)
  BY <1>1, <1>2, CallingAt DEF AdjustingUp
<1>5. FedOK(page, level, {})
  BY <1>3, <1>4, PointerFed
<1>6. Resting(page, root, range, level)'
  BY <1>2, <1>4, <1>5, LinkedNot DEF Resting, treeVars
<1>7. FileOK'
  BY <1>2 DEF IInv, FileOK, treeVars
<1> QED
  BY <1>2, <1>6, <1>7, Returns

\* The top is reached, and a root without keys gives way to its only child.
LEMMA TopReachedStep ==
    ASSUME IInv, ~broken, TopReached
    PROVE  IInv'
<1>1. PICK range, level : Calling(range, level)
  BY DEF IInv
<1>2. pc = "adjust_up" /\ stack = <<>> /\ Return /\ Quiet
  BY DEF TopReached
<1>3. AdjustingUp(range, level) /\ ~OnlyInserts /\ Tree(page, root, NoCarry, range, level) /\ FileOK
  BY <1>1, <1>2, CallingAt DEF AdjustingUp, IInv
<1>4. /\ FedOK(page, level, {upper.no}) /\ PointerOK(page, level, upper) /\ upper.no = root
  BY <1>2, <1>3 DEF AdjustingUp, Follows
<1>5. CASE PointerCount = 0 /\ page[upper.pointer].type = "internal"
  <2>1. upper.pointer = root
    <3>1. PointerCount = page[upper.pointer].count
      BY <1>5 DEF PointerCount
    <3>2. page[upper.pointer].count = 0
      BY <1>5, <3>1
    <3> QED
      BY <1>4, <1>5, <3>2 DEF PointerOK
  <2>2. page[root].type = "internal" /\ page[root].count = 0
    BY <1>5, <2>1 DEF PointerCount
  <2> DEFINE top == page[root].kids[1]
             pg  == Released(root)
  <2>3. /\ page' = Put(page, root, pg) /\ root' = top /\ dirty' = dirty \cup {root}
        /\ free' = root /\ pageCount' = pageCount
    BY <1>4, <1>5, <2>1 DEF TopReached, Put
  <2>4. /\ page \in [PageNo -> Pages] /\ root \in UsedIn(page) /\ root \in PageNo /\ root \in Nat
        /\ UsedIn(page) \subseteq PageNo \ {0} /\ pageCount \in Nat /\ Counted(page, pageCount)
    <3>1. page \in [PageNo -> Pages] /\ root \in UsedIn(page) /\ UsedIn(page) \subseteq PageNo \ {0}
      BY <1>3, TreeKnows
    <3> QED
      BY <1>3, <3>1, BTreeAssumption DEF FileOK, PageNo
  <2>5. pg \in FreePages /\ pg.type = "free"
    BY <1>3, <2>4, Releases DEF FileOK, FreePages
  <2> HIDE DEF top, pg
  <2>6. Tree(page', root', NoCarry, range, level)
    BY <1>3, <2>2, <2>3, <2>5, TreeTop DEF top
  <2>7. page'[root] = pg /\ \A q \in PageNo : q # root => page'[q] = page[q]
    BY <2>3, <2>4 DEF Put
  <2>8. FedOK(page', level, {})
    <3>1. \A q \in InternalsOf(page') : q # root /\ q \in InternalsOf(page) /\ page'[q] = page[q]
      BY <2>5, <2>7 DEF InternalsOf
    <3> QED
      BY <1>4, <3>1 DEF FedOK
  <2>9. Resting(page, root, range, level)'
    BY <1>2, <1>3, <2>6, <2>8, LinkedNot DEF Resting
  <2>10. FileOK'
    <3>1. free' \in Nat /\ pageCount' \in 2 .. MaxPages /\ pageCount <= pageCount'
      BY <1>3, <2>3, <2>4 DEF FileOK
    <3> DEFINE changed == {root}
    <3>2. root \in 1 .. pageCount - 1
      BY <2>4, UsedBelow
    <3>3. /\ changed \subseteq 1 .. pageCount' - 1 /\ dirty' \subseteq dirty \cup changed
          /\ \A q \in PageNo : q \notin changed => page'[q] = page[q]
      BY <2>3, <2>7, <3>2
    <3> HIDE DEF changed
    <3> QED
      BY <1>3, <3>1, <3>3, FileStays
  <2> QED
    BY <1>2, <2>9, <2>10, Returns
<1>6. CASE ~(PointerCount = 0 /\ page[upper.pointer].type = "internal")
  <2>1. UNCHANGED treeVars
    BY <1>6 DEF TopReached
  <2>2. FedOK(page, level, {})
    <3>1. CASE PointerCount # 0
      BY <1>3, <3>1, PointerFed
    <3>2. CASE page[upper.pointer].type # "internal"
      <4>1. upper.pointer # upper.no
        BY <1>4, <3>2 DEF PointerOK, InternalsOf
      <4> QED
        BY <1>3, <1>4, <4>1 DEF PointerOK, FedOK
    <3> QED
      BY <1>6, <3>1, <3>2
  <2>3. Resting(page, root, range, level)'
    BY <1>2, <1>3, <2>1, <2>2, LinkedNot DEF Resting, treeVars
  <2>4. FileOK'
    BY <1>3, <2>1 DEF FileOK, treeVars
  <2> QED
    BY <1>2, <2>3, <2>4, Returns
<1> QED
  BY <1>5, <1>6

\* The pages adjust_tree merges on the way up are neighbours below the top of the stack.
LEMMA InternalsFound ==
    ASSUME NEW range, NEW level, Calling(range, level), pc = "adjust_up", stack # <<>>, InternalPairOk, FileOK
    PROVE  /\ Tree(page, root, NoCarry, range, level) /\ Path(page, stack, root, level)
           /\ carry = NoCarry /\ ~OnlyInserts /\ FedOK(page, level, {upper.no}) /\ PointerOK(page, level, upper)
           /\ Len(stack) \in Nat /\ Len(stack) > 0 /\ Top = stack[Len(stack)] /\ Front(stack) = SubSeq(stack, 1, Len(stack) - 1)
           /\ Top \in PageNo /\ Top \in 1 .. pageCount - 1 /\ page[Top].type = "internal"
           /\ Neighbours(page[Top], InternalPair.front, InternalPair.back)
           /\ upper.no = InternalPair.front \/ upper.no = InternalPair.back
           /\ page[InternalPair.front].type = "internal" /\ page[InternalPair.back].type = "internal"
           /\ InternalPair.front \in 1 .. pageCount - 1 /\ InternalPair.back \in 1 .. pageCount - 1
           /\ InternalPair.front \in Kids(page[Top]) /\ InternalPair.back \in Kids(page[Top])
           /\ InternalPair.front # InternalPair.back
           /\ level[Top] = level[InternalPair.front] + 1 /\ level[Top] = level[InternalPair.back] + 1
           /\ InternalPair.front # Top /\ InternalPair.back # Top
           /\ InternalPair.front \in PageNo /\ InternalPair.back \in PageNo
<1> DEFINE p == Top
           f == InternalPair.front
           b == InternalPair.back
<1>1. AdjustingUp(range, level) /\ Path(page, stack, root, level)
  BY CallingAt
<1>2. /\ Tree(page, root, NoCarry, range, level) /\ Tree(page, root, carry, range, level)
      /\ carry = NoCarry /\ ~OnlyInserts /\ FedOK(page, level, {upper.no}) /\ PointerOK(page, level, upper)
      /\ Follows(page, stack, root, upper.no)
  BY <1>1 DEF AdjustingUp
<1>3. /\ Len(stack) \in Nat /\ Len(stack) > 0 /\ p = stack[Len(stack)] /\ Front(stack) = SubSeq(stack, 1, Len(stack) - 1)
      /\ p \in UsedIn(page) /\ p \in PageNo /\ p \in 1 .. pageCount - 1
  BY <1>1, <1>2, AtTop
<1>4. page[p].type = "internal" /\ page[p].count > 0
  BY <1>2, <1>3 DEF Follows, HasKid
<1>5. /\ UsedIn(page) \subseteq PageNo \ {0} /\ page[p] \in InternalPages(PageNo) /\ Formed(page[p])
      /\ KidsOf(page)[p] = Kids(page[p]) /\ level \in [PageNo -> Nat]
      /\ Shaped(UsedIn(page), KidsOf(page), root, NoCarry, range, level)
  BY <1>2, <1>3, <1>4, TreeKnows
<1>6. pageCount \in Nat /\ Counted(page, pageCount)
  BY DEF FileOK
<1>7. /\ InternalPair = Nearby(p, upper.no) /\ InternalPair.found
      /\ page[f].type = "internal" /\ page[b].type = "internal"
  BY DEF InternalPairOk, IsType, InternalPair
<1> HIDE DEF p
<1>a. Neighbours(page[p], f, b) /\ (upper.no = f \/ upper.no = b)
  BY <1>4, <1>5, <1>7, NearbyFound
<1>8. PICK i \in 1 .. page[p].count : f = page[p].kids[i] /\ b = page[p].kids[i + 1]
  BY <1>a DEF Neighbours
<1>9. /\ page[p].count \in Nat /\ Len(page[p].kids) = page[p].count + 1
      /\ DOMAIN page[p].kids = 1 .. page[p].count + 1
  BY <1>5, PageShape DEF Formed
<1>10. f \in Kids(page[p]) /\ b \in Kids(page[p]) /\ f # b
  <2>1. i \in DOMAIN page[p].kids /\ i + 1 \in DOMAIN page[p].kids /\ i # i + 1
    BY <1>9
  <2>2. f \in Kids(page[p]) /\ b \in Kids(page[p])
    BY <1>8, <2>1 DEF Kids
  <2>3. f # b
    BY <1>5, <1>8, <2>1 DEF Formed
  <2> QED
    BY <2>2, <2>3
<1>11. /\ f \in UsedIn(page) /\ b \in UsedIn(page) /\ f # p /\ b # p
       /\ level[p] = level[f] + 1 /\ level[p] = level[b] + 1
  BY <1>3, <1>5, <1>10, ShapeKids
<1>12. f \in 1 .. pageCount - 1 /\ b \in 1 .. pageCount - 1
  BY <1>5, <1>6, <1>11, UsedBelow
<1>13. f \in PageNo /\ b \in PageNo
  BY <1>5, <1>11
<1> QED
  BY <1>2, <1>1, <1>3, <1>4, <1>7, <1>a, <1>10, <1>11, <1>12, <1>13 DEF p

\* The page that two neighbours become has what both had.
LEMMA MergedJoins ==
    ASSUME NEW pages, NEW r, NEW range, NEW level, Tree(pages, r, NoCarry, range, level),
           NEW p \in PageNo, pages[p].type = "internal", NEW f, NEW b,
           pages[f].type = "internal", pages[b].type = "internal", f \in PageNo, b \in PageNo, f # b,
           NEW i, i = PairPosition(pages[p], f, b), i # 0, NEW key, key = pages[p].keys[i],
           Mergeable(pages[f], pages[b], key), pages[f].count + pages[b].count + 1 < KeyCapacity,
           NEW pf, pf = MergePages(pages[f], pages[b], key)
    PROVE  Joining(pages, range, f, b, pf) /\ pf.type = "internal" /\ pf.count > 0
<1>1. /\ Shaped(UsedIn(pages), KidsOf(pages), r, NoCarry, range, level)
      /\ range \in [PageNo -> SUBSET Nat]
      /\ pages[p] \in InternalPages(PageNo) /\ Formed(pages[p]) /\ Divides(pages[p], range[p], Whole(NoCarry, range))
      /\ pages[f] \in InternalPages(PageNo) /\ Formed(pages[f]) /\ Divides(pages[f], range[f], Whole(NoCarry, range))
      /\ pages[b] \in InternalPages(PageNo) /\ Formed(pages[b]) /\ Divides(pages[b], range[b], Whole(NoCarry, range))
      /\ f \in UsedIn(pages) /\ b \in UsedIn(pages)
      /\ KidsOf(pages)[f] = Kids(pages[f]) /\ KidsOf(pages)[b] = Kids(pages[b])
  BY TreeKnows
<1>2. /\ Divides(pages[p], range[p], range) /\ Divides(pages[f], range[f], range) /\ Divides(pages[b], range[b], range)
  BY <1>1, WholeSame
<1>3. i \in 1 .. pages[p].count /\ pages[p].kids[i] = f /\ pages[p].kids[i + 1] = b
  BY <1>1, PairFound
<1>4. /\ pages[p].count \in Nat /\ DOMAIN pages[p].kids = 1 .. pages[p].count + 1
      /\ key \in Nat /\ range[p] \subseteq Nat
  BY <1>1, <1>3, PageShape, SMTT(30) DEF Formed
<1>5. range[f] = Share(range[p], pages[p], i) /\ range[b] = Share(range[p], pages[p], i + 1)
  <2>1. i \in DOMAIN pages[p].kids /\ i + 1 \in DOMAIN pages[p].kids
    BY <1>3, <1>4
  <2> QED
    BY <1>2, <1>3, <2>1 DEF Divides
<1>6. /\ \A k \in range[f] : k \in Nat /\ k < key
      /\ \A k \in range[b] : k \in Nat /\ key <= k
  <2>1. i \in Nat /\ i + 1 > 1 /\ i + 1 - 1 = i /\ i <= pages[p].count
    BY <1>3, <1>4
  <2> QED
    BY <1>4, <1>5, <2>1 DEF Share
<1> DEFINE R == range[f] \cup range[b]
<1>7. R \in SUBSET Nat /\ range[f] = Below(R, key) /\ range[b] = From(R, key)
  BY <1>4, <1>6 DEF Below, From
<1>8. Separate(pages[f], pages[b])
  <2>1. \A k \in Kids(pages[f]) : k \notin Kids(pages[b])
    BY <1>1, ShapeKids
  <2> QED
    BY <2>1 DEF Separate
<1> DEFINE F == pages[f]
           B == pages[b]
<1>9. /\ F \in InternalPages(PageNo) /\ B \in InternalPages(PageNo) /\ Formed(F) /\ Formed(B)
      /\ key \in Nat /\ Mergeable(F, B, key) /\ F.count + B.count + 1 <= KeyCapacity
      /\ Separate(F, B) /\ R \in SUBSET Nat
      /\ Divides(F, Below(R, key), range) /\ Divides(B, From(R, key), range)
      /\ pf = MergePages(F, B, key)
  <2>1. F.count \in Nat /\ B.count \in Nat /\ KeyCapacity \in Nat
    BY <1>1, PageShape
  <2> QED
    BY <1>1, <1>2, <1>4, <1>7, <1>8, <2>1, SMTT(30)
<1> HIDE DEF R, F, B
<1>10. /\ pf \in InternalPages(PageNo) /\ pf.count = F.count + B.count + 1
       /\ Formed(pf) /\ Kids(pf) = Kids(F) \cup Kids(B) /\ Divides(pf, R, range)
  BY <1>9, MergePagesDivides DEF Separate
<1>11. pf.type = "internal" /\ pf.count > 0
  BY <1>1, <1>10, PageShape, SMTT(30) DEF F, B
<1>12. Joining(pages, range, f, b, pf)
  BY <1>1, <1>10 DEF Joining, F, B, R
<1> QED
  BY <1>11, <1>12

\* Two internal pages become one, and the loop goes on a level above.
LEMMA MergeInternalStep ==
    ASSUME IInv, ~broken, MergeInternal
    PROVE  IInv'
<1>1. PICK range, level : Calling(range, level)
  BY DEF IInv
<1> DEFINE p   == Top
           f   == InternalPair.front
           b   == InternalPair.back
           i   == PairPosition(page[p], f, b)
           key == page[p].keys[i]
           np  == RemoveKid(page[p], b).page
           pf  == MergePages(page[f], page[b], key)
           pb  == Released(b)
<1>2. FileOK /\ InternalPairOk /\ pc = "adjust_up" /\ stack # <<>>
  BY DEF IInv, MergeInternal, AdjustUp
<1>3. /\ page[f].count + page[b].count + 1 < KeyCapacity
      /\ page' = [page EXCEPT ![f] = pf, ![b] = pb, ![p] = np]
      /\ dirty' = dirty \cup {f, b, p} /\ free' = b /\ upper' = [upper EXCEPT !.no = p]
      /\ stack' = Front(stack) /\ pc' = pc
      /\ root' = root /\ pageCount' = pageCount /\ carry' = carry /\ Quiet
  BY DEF MergeInternal
<1>a. i # 0 /\ Mergeable(page[f], page[b], key)
  BY <1>2 DEF InternalPairOk
<1>4. /\ Tree(page, root, NoCarry, range, level) /\ Path(page, stack, root, level)
      /\ carry = NoCarry /\ ~OnlyInserts /\ FedOK(page, level, {upper.no}) /\ PointerOK(page, level, upper)
      /\ Len(stack) \in Nat /\ Len(stack) > 0 /\ p = stack[Len(stack)] /\ Front(stack) = SubSeq(stack, 1, Len(stack) - 1)
      /\ p \in PageNo /\ p \in 1 .. pageCount - 1 /\ page[p].type = "internal"
      /\ Neighbours(page[p], f, b) /\ (upper.no = f \/ upper.no = b)
      /\ page[f].type = "internal" /\ page[b].type = "internal" /\ f \in PageNo /\ b \in PageNo
      /\ f \in 1 .. pageCount - 1 /\ b \in 1 .. pageCount - 1 /\ f # b /\ f # p /\ b # p
      /\ level[p] = level[f] + 1 /\ level[p] = level[b] + 1
  BY <1>1, <1>2, InternalsFound
<1> HIDE DEF p, f, b, i, key
<1>5. /\ page \in [PageNo -> Pages] /\ level \in [PageNo -> Nat]
      /\ Shaped(UsedIn(page), KidsOf(page), root, NoCarry, range, level)
      /\ page[f] \in InternalPages(PageNo) /\ Formed(page[f]) /\ KidsOf(page)[f] = Kids(page[f]) /\ f \in UsedIn(page)
  BY <1>4, TreeKnows
<1>6. Joining(page, range, f, b, pf) /\ pf.type = "internal" /\ pf.count > 0
  <2>1. /\ Tree(page, root, NoCarry, range, level) /\ p \in PageNo /\ page[p].type = "internal"
        /\ page[f].type = "internal" /\ page[b].type = "internal" /\ f \in PageNo /\ b \in PageNo /\ f # b
        /\ i = PairPosition(page[p], f, b) /\ i # 0 /\ key = page[p].keys[i]
        /\ Mergeable(page[f], page[b], key) /\ page[f].count + page[b].count + 1 < KeyCapacity
        /\ pf = MergePages(page[f], page[b], key)
    BY <1>3, <1>4, <1>a DEF i, key
  <2> HIDE DEF pf
  <2> QED
    BY <2>1, MergedJoins
<1>7. pb \in FreePages /\ pb.type = "free"
  BY <1>2, <1>4, <1>5, Releases DEF FileOK, FreePages
<1> HIDE DEF pf, pb
<1>8. page' = Put(Put(Put(page, f, pf), b, pb), p, np)
  BY <1>3 DEF Put
<1>b. PICK range2 : range2 = MergedRange(range, f, b)
  OBVIOUS
<1>9. Tree(page', root, NoCarry, range2, level) /\ np.type = "internal"
  <2>1. /\ Tree(page, root, NoCarry, range, level) /\ p \in PageNo /\ page[p].type = "internal"
        /\ Neighbours(page[p], f, b)
        /\ np = RemoveKid(page[p], b).page /\ Joining(page, range, f, b, pf) /\ pb \in FreePages
        /\ page' = Put(Put(Put(page, f, pf), b, pb), p, np) /\ range2 = MergedRange(range, f, b)
    BY <1>4, <1>6, <1>7, <1>8, <1>b
  <2> HIDE DEF np
  <2>2. Tree(page', root, NoCarry, range2, level)
    BY <2>1, TreeMerge
  <2>3. np.type = "internal"
    BY <2>1, TreeMerge
  <2> QED
    BY <2>2, <2>3
<1> HIDE DEF np
<1>10. /\ page'[f] = pf /\ page'[b] = pb /\ page'[p] = np
       /\ \A q \in PageNo : q # f /\ q # b /\ q # p => page'[q] = page[q]
  BY <1>3, <1>4, <1>5
<1>11. /\ level[p] >= 2 /\ level[f] \in Nat /\ level[b] \in Nat /\ level[p] \in Nat
       /\ level[f] = level[b] /\ level[f] < level[p]
  <2>1. level[f] \in Nat /\ level[b] \in Nat /\ level[p] \in Nat
    BY <1>4, <1>5
  <2>2. 1 \in DOMAIN page[f].kids
    BY <1>5, PageShape DEF Formed
  <2>3. page[f].kids[1] \in Kids(page[f])
    BY <2>2 DEF Kids
  <2>4. level[f] = level[page[f].kids[1]] + 1 /\ page[f].kids[1] \in UsedIn(page)
    BY <1>5, <2>3, ShapeKids
  <2>5. level[page[f].kids[1]] \in Nat
    BY <1>5, <2>4, ShapeKids
  <2>6. level[f] >= 1
    BY <2>4, <2>5
  <2>7. level[p] >= 2
    BY <1>4, <2>1, <2>6
  <2>8. level[f] = level[b] /\ level[f] < level[p]
    BY <1>4, <2>1
  <2> QED
    BY <2>1, <2>7, <2>8
<1>12. Path(page', stack', root, level) /\ Follows(page', stack', root, p)
  <2> DEFINE m == Len(stack) - 1
  <2>1. m \in 0 .. Len(stack) /\ m < Len(stack) /\ p = stack[m + 1]
    BY <1>4
  <2>2. HigherStay(page, page', level, level, level[p])
    <3> SUFFICES ASSUME NEW q \in UsedIn(page), level[q] > level[p]
                 PROVE  page'[q] = page[q] /\ level[q] = level[q]
      BY DEF HigherStay
    <3>1. q \in PageNo /\ level[q] \in Nat
      BY <1>5 DEF UsedIn
    <3>2. q # p
      BY <1>11, <3>1
    <3>3. q # f
      BY <1>11, <3>1
    <3>4. q # b
      BY <1>11, <3>1
    <3> QED
      BY <1>10, <3>1, <3>2, <3>3, <3>4
  <2>3. stack' = SubSeq(stack, 1, m)
    BY <1>3, <1>4
  <2> HIDE DEF m
  <2> QED
    BY <1>4, <1>5, <2>1, <2>2, <2>3, PathKept
<1>13. upper' = [pointer |-> upper.pointer, no |-> p] /\ upper.pointer \in PageNo
  BY <1>3, <1>4 DEF PointerOK
<1>14. FedOK(page', level, {upper'.no})
  <2>1. \A q \in InternalsOf(page') : q # p /\ q # f => q # b /\ q \in InternalsOf(page) /\ page'[q] = page[q]
    BY <1>7, <1>10 DEF InternalsOf
  <2>2. page'[f].count # 0
    BY <1>6, <1>10
  <2>3. upper'.no = p
    BY <1>13
  <2> QED
    BY <1>4, <2>1, <2>2, <2>3 DEF FedOK
<1>15. PointerOK(page', level, upper')
  <2> DEFINE u == upper.pointer
  <2>1. p \in InternalsOf(page')
    BY <1>4, <1>9, <1>10 DEF InternalsOf
  <2>2. \/ page'[u].type = "free"
        \/ page'[u].type = "internal" /\ page'[u].count > 0 /\ level[u] < level[p]
    <3>1. CASE u = b
      BY <1>7, <1>10, <3>1
    <3>2. CASE u = f
      BY <1>6, <1>10, <1>11, <3>2
    <3>3. CASE u # b /\ u # f
      <4>1. u # upper.no /\ upper.no \in PageNo /\ level[upper.no] = level[f]
        BY <1>4, <1>11, <3>3
      <4>2. CASE page[u].type = "free"
        <5>1. u # p
          BY <1>4, <4>2
        <5> QED
          BY <1>10, <1>13, <3>3, <4>2, <5>1
      <4>3. CASE page[u].type = "internal" /\ page[u].count > 0 /\ level[u] < level[upper.no]
        <5>1. level[u] < level[p] /\ u # p
          BY <1>5, <1>11, <1>13, <4>1, <4>3
        <5> QED
          BY <1>10, <1>13, <3>3, <4>3, <5>1
      <4> QED
        BY <1>4, <4>1, <4>2, <4>3 DEF PointerOK
    <3> QED
      BY <3>1, <3>2, <3>3
  <2>3. upper' \in [pointer : PageNo, no : InternalsOf(page')] /\ upper'.pointer = u /\ upper'.no = p
    BY <1>13, <2>1
  <2> QED
    BY <1>11, <2>2, <2>3 DEF PointerOK
<1>16. Calling(range2, level)'
  <2>1. AdjustingUp(range2, level)'
    BY <1>2, <1>3, <1>4, <1>9, <1>12, <1>13, <1>14, <1>15 DEF AdjustingUp
  <2> QED
    BY <1>2, <1>3, <1>12, <2>1 DEF Calling
<1>17. FileOK'
  <2>1. pageCount \in Nat /\ free' \in Nat /\ pageCount' \in 2 .. MaxPages /\ pageCount <= pageCount'
    BY <1>2, <1>3, <1>4 DEF FileOK
  <2> DEFINE changed == {f, b, p}
  <2>2. /\ changed \subseteq 1 .. pageCount' - 1 /\ dirty' \subseteq dirty \cup changed
        /\ \A q \in PageNo : q \notin changed => page'[q] = page[q]
    BY <1>3, <1>4, <1>10
  <2> HIDE DEF changed
  <2> QED
    BY <1>2, <2>1, <2>2, FileStays
<1> QED
  BY <1>2, <1>3, <1>16, <1>17, GoesOn

-----------------------------------------------------------------------------
(* Assertions, commits and restarts                                        *)

\* search_page fails only where a page is without keys above internal pages.
LEMMA SearchFailsStarved ==
    ASSUME IInv, ~broken, SearchFails
    PROVE  Starved(page) # {}
<1>1. PICK range, level : Calling(range, level)
  BY DEF IInv
<1>2. pc = "search" /\ FileOK
  BY DEF SearchFails, IInv
<1>3. /\ SearchOK(page, stack, op, range) /\ FedOK(page, level, {}) /\ carry = NoCarry
      /\ Tree(page, root, carry, range, level) /\ Path(page, stack, root, level)
      /\ Tree(page, root, NoCarry, range, level) /\ stack # <<>>
  BY <1>1, <1>2, CallingAt DEF Searching, Resting, SearchOK
<1>4. /\ Top = stack[Len(stack)] /\ Top \in UsedIn(page) /\ Top \in PageNo /\ Top # 0
      /\ \A type : IsType(Top, type) <=> page[Top].type = type
  BY <1>2, <1>3, AtTop
<1>5. /\ Shaped(UsedIn(page), KidsOf(page), root, NoCarry, range, level) /\ level \in [PageNo -> Nat]
      /\ range \in [PageNo -> SUBSET Nat]
      /\ page[Top].type = "leaf" \/ page[Top].type = "internal"
  BY <1>3, <1>4, TreeKnows
<1>6. CASE page[Top].type = "internal" /\ page[Top].count = 0
  <2>1. level[Top] >= 2
    BY <1>3, <1>4, <1>6 DEF FedOK, InternalsOf
  <2>2. page[Top] \in InternalPages(PageNo) /\ Formed(page[Top]) /\ KidsOf(page)[Top] = Kids(page[Top])
    BY <1>3, <1>4, <1>6, TreeKnows
  <2>3. 1 \in DOMAIN page[Top].kids
    BY <1>6, <2>2, PageShape DEF Formed
  <2> DEFINE kid == page[Top].kids[1]
  <2>4. kid \in Kids(page[Top])
    BY <2>3 DEF Kids
  <2> HIDE DEF kid
  <2>5. kid \in UsedIn(page) /\ level[Top] = level[kid] + 1
    BY <1>4, <1>5, <2>2, <2>4, ShapeKids
  <2>6. kid \in PageNo /\ level[kid] # 0
    BY <1>5, <2>1, <2>5 DEF UsedIn
  <2>7. page[kid].type = "internal"
    BY <1>3, <2>5, <2>6, TreeKnows
  <2>8. Top \in Starved(page)
    BY <1>4, <1>6, <2>7 DEF Starved, InternalsOf, kid
  <2> QED
    BY <2>8
<1>7. CASE op.kind = "remove" /\ page[Top].type = "leaf" /\ op.key \notin KeySet(page[Top].recs)
  <2>1. PICK p \in LeavesOf(page) : op.key \in KeySet(page[p].recs)
    BY <1>3, <1>7 DEF SearchOK
  <2>2. op.key \in range[Top] /\ p # Top
    BY <1>3, <1>4, <1>7, <2>1 DEF SearchOK
  <2>3. p \in PageNo /\ page[p].type = "leaf"
    BY <2>1 DEF LeavesOf
  <2>4. op.key \in range[p] /\ p \in UsedIn(page) /\ level[p] = 0 /\ level[Top] = 0
    BY <1>3, <1>4, <1>7, <2>1, <2>3, TreeKnows
  <2>5. range[p] \cap range[Top] = {}
    BY <1>4, <1>5, <2>2, <2>4 DEF Shaped, Apart
  <2> QED
    BY <2>2, <2>4, <2>5
<1> QED
  BY <1>4, <1>5, <1>6, <1>7 DEF SearchFails

\* An assertion ends the process.
LEMMA AbortsStep ==
    ASSUME IInv, ~broken, Aborts
    PROVE  IInv'
<1>1. PICK function \in DOMAIN Fails : Fails[function] /\ Abort(function)
  BY DEF Aborts
<1>2. PICK range, level : Calling(range, level)
  BY DEF IInv
<1>3. /\ pc' = "aborted" /\ fail' = function
      /\ UNCHANGED <<treeVars, disk, writing, op, stack, carry, upper, ops, torn, broken>>
  BY <1>1 DEF Abort
<1>4. function = "search_page" => Starved(page) # {}
  <2>1. function = "search_page" => SearchFails
    BY <1>1 DEF Fails
  <2> QED
    BY <2>1, SearchFailsStarved
<1>5. FailOK'
  BY <1>3, <1>4 DEF FailOK, treeVars
<1>6. FileOK' /\ DiskOK' /\ PlanOK'
  BY <1>3 DEF IInv, FileOK, DiskOK, PlanOK, treeVars
<1>7. Tree(page, root, carry, range, level) /\ Path(page, stack, root, level)
  BY <1>2, CallingAt
<1>8. Calling(range, level)'
  BY <1>3, <1>7 DEF Calling, treeVars
<1> QED
  BY <1>3, <1>5, <1>6, <1>8 DEF IInv

\* Writing is enabled for a call to come.
LEMMA EnableWriteStep ==
    ASSUME IInv, ~broken, EnableWrite
    PROVE  IInv'
<1>1. PICK range, level : Calling(range, level)
  BY DEF IInv
<1>2. writing' = TRUE /\ pc = "idle" /\ pc' = pc /\ UNCHANGED <<treeVars, disk, callVars, ops, fail, torn, broken>>
  BY DEF EnableWrite, callVars
<1>3. stack = <<>> /\ carry = NoCarry /\ Resting(page, root, range, level) /\ Path(page, stack, root, level)
  BY <1>1, <1>2, CallingAt
<1>4. Calling(range, level)'
  BY <1>2, <1>3 DEF Calling, treeVars, callVars
<1>5. FileOK' /\ DiskOK' /\ FailOK' /\ PlanOK'
  BY <1>2 DEF IInv, FileOK, DiskOK, FailOK, PlanOK, treeVars
<1> QED
  BY <1>2, <1>4, <1>5 DEF IInv

\* A commit that leaves out nothing puts the tree as it is into the file.
LEMMA CommitStep ==
    ASSUME IInv, ~broken, Commit
    PROVE  IInv'
<1>1. PICK range, level : Calling(range, level)
  BY DEF IInv
<1>2. /\ pc = "idle" /\ writing' = FALSE /\ dirty' = {}
      /\ UNCHANGED <<page, root, free, pageCount, callVars, ops, fail, broken>> /\ pc' = pc
      /\ disk' = [page |-> [p \in PageNo |-> IF p \in dirty THEN page[p] ELSE disk.page[p]],
                  root |-> root, free |-> free, pageCount |-> pageCount]
      /\ torn' = \E p \in PageNo \ dirty : page[p] # disk.page[p]
  BY DEF Commit, callVars
<1>3. stack = <<>> /\ carry = NoCarry /\ Resting(page, root, range, level) /\ Path(page, stack, root, level)
  BY <1>1, <1>2, CallingAt
<1>4. Calling(range, level)'
  BY <1>2, <1>3 DEF Calling, callVars
<1>5. FileOK' /\ FailOK' /\ PlanOK'
  BY <1>2 DEF IInv, FileOK, FailOK, PlanOK
<1>6. DiskOK'
  <2> SUFFICES ASSUME ~torn'
               PROVE  /\ disk'.free \in Nat /\ disk'.pageCount \in 2 .. MaxPages
                      /\ Counted(disk'.page, disk'.pageCount)
                      /\ \E range2, level2 : Resting(disk'.page, disk'.root, range2, level2)
    BY DEF DiskOK
  <2>1. page \in [PageNo -> Pages]
    BY <1>3, TreeKnows DEF Resting
  <2>2. disk'.page = page
    <3>1. disk'.page = [p \in PageNo |-> IF p \in dirty THEN page[p] ELSE disk.page[p]]
      BY <1>2
    <3>2. \A p \in PageNo : p \notin dirty => disk.page[p] = page[p]
      BY <1>2
    <3>3. \A p \in PageNo : disk'.page[p] = page[p]
      BY <3>1, <3>2
    <3> QED
      BY <2>1, <3>1, <3>3
  <2>3. disk'.free = free /\ disk'.pageCount = pageCount /\ disk'.root = root
    BY <1>2
  <2> QED
    BY <1>3, <2>2, <2>3 DEF IInv, FileOK
<1> QED
  BY <1>2, <1>4, <1>5, <1>6 DEF IInv

\* A file that was left whole is opened again as the tree it holds.
LEMMA ReopenStep ==
    ASSUME IInv, ~broken, Reopen
    PROVE  IInv'
<1> SUFFICES ASSUME ~torn
             PROVE  IInv'
  BY DEF Reopen, IInv
<1>1. /\ page' = disk.page /\ root' = disk.root /\ free' = disk.free /\ pageCount' = disk.pageCount
      /\ dirty' = {} /\ writing' = FALSE /\ fail' = "none" /\ Return
      /\ disk' = disk /\ ops' = ops /\ torn' = torn
  BY DEF Reopen
<1>2. /\ disk.free \in Nat /\ disk.pageCount \in 2 .. MaxPages
      /\ Counted(disk.page, disk.pageCount)
  BY DEF IInv, DiskOK
<1>3. PICK range, level : Resting(disk.page, disk.root, range, level)
  BY DEF IInv, DiskOK
<1>4. Resting(page, root, range, level)'
  BY <1>1, <1>3
<1>5. FileOK' /\ FailOK' /\ DiskOK' /\ PlanOK'
  BY <1>1, <1>2 DEF FileOK, FailOK, DiskOK, PlanOK, IInv
<1>6. Calling(range, level)'
  <2>1. Path(page', <<>>, root', level)
    BY DEF Path
  <2> QED
    BY <1>1, <1>4, <2>1 DEF Calling, Return
<1> QED
  BY <1>1, <1>5, <1>6 DEF IInv

\* A new file is a tree of one leaf.
LEMMA InitResting ==
    ASSUME NEW pages, pages = [p \in PageNo |-> IF p = 1 THEN Leaf(0, 0, <<>>) ELSE Unused]
    PROVE  Counted(pages, 2) /\ \E range, level : Resting(pages, 1, range, level)
<1> DEFINE range == [p \in PageNo |-> IF p = 1 THEN Nat ELSE {}]
           level == [p \in PageNo |-> 0]
           leaf  == Leaf(0, 0, <<>>)
<1>1. 1 \in PageNo /\ 0 \in PageNo /\ \A p \in PageNo : p \in Nat
  BY BTreeAssumption DEF PageNo
<1>2. leaf \in LeafPages /\ leaf.type = "leaf" /\ leaf.recs = <<>> /\ leaf.prev = 0 /\ leaf.next = 0
  BY DEF LeafPages, Leaf
<1> HIDE DEF leaf
<1>3. /\ pages[1] = leaf /\ \A p \in PageNo : p # 1 => pages[p] = Unused
      /\ pages \in [PageNo -> Pages]
  BY <1>1, <1>2, PageKinds DEF leaf
<1>4. Unused.type = "unused"
  BY PageKinds
<1>5. UsedIn(pages) = {1} /\ LeavesOf(pages) = {1} /\ InternalsOf(pages) = {}
  BY <1>1, <1>2, <1>3, <1>4 DEF UsedIn, LeavesOf, InternalsOf
<1>6. KidsOf(pages) = [p \in PageNo |-> {}]
  BY <1>2, <1>3, <1>4 DEF KidsOf
<1>7. range[1] = Nat /\ level[1] = 0 /\ range \in [PageNo -> SUBSET Nat] /\ level \in [PageNo -> Nat]
  BY <1>1
<1>8. Whole(NoCarry, range)[1] = Nat /\ NoCarry.back = 0
  BY <1>1, <1>7, WholeNone DEF NoCarry
<1> HIDE DEF range, level
<1>9. Shaped(UsedIn(pages), KidsOf(pages), 1, NoCarry, range, level)
  <2>1. KidsOf(pages) \in [PageNo -> SUBSET PageNo] /\ \A p \in PageNo : KidsOf(pages)[p] = {}
    BY <1>6
  <2>2. ParentsOK(UsedIn(pages), KidsOf(pages), 1, NoCarry)
    BY <1>1, <1>5, <2>1 DEF ParentsOK
  <2>3. LevelsOK(UsedIn(pages), KidsOf(pages), level)
    BY <1>1, <1>5, <2>1 DEF LevelsOK
  <2>4. RootOK(UsedIn(pages), 1, NoCarry, range, level)
    BY <1>5, <1>8 DEF RootOK
  <2>5. Apart(UsedIn(pages), range, level) /\ SplitOK(UsedIn(pages), 1, NoCarry, range, level)
    BY <1>5 DEF Apart, SplitOK
  <2>6. UsedIn(pages) \subseteq PageNo \ {0}
    BY <1>1, <1>5
  <2> QED
    BY <1>1, <1>7, <2>1, <2>2, <2>3, <2>4, <2>5, <2>6 DEF Shaped
<1>10. LeavesOK(pages, range, level) /\ InternalsOK(pages, NoCarry, range)
  <2>1. Ascends(<<>>) /\ KeySet(<<>>) = {}
    BY DEF Ascends, KeySet
  <2>2. pages[1].recs = <<>>
    BY <1>2, <1>3
  <2>3. Ascends(pages[1].recs) /\ KeySet(pages[1].recs) \subseteq range[1]
    BY <2>1, <2>2
  <2> QED
    BY <1>5, <1>7, <2>3 DEF LeavesOK, InternalsOK
<1>11. FedOK(pages, level, {}) /\ Linked(pages, range)
  <2>1. FedOK(pages, level, {}) /\ Backward(pages, range)
    BY <1>2, <1>3, <1>5, <1>7 DEF FedOK, Backward
  <2>2. Listed(pages, range, <<1>>)
    <3>1. /\ <<1>> \in Seq(PageNo) /\ Len(<<1>>) = 1 /\ <<1>>[1] = 1
          /\ \A i \in 1 .. 1 : i = 1 /\ ~(i < 1)
      BY <1>1
    <3>2. pages[1].next = 0 /\ 0 \in range[1]
      BY <1>2, <1>3, <1>7
    <3> QED
      BY <1>5, <3>1, <3>2 DEF Listed
  <2> QED
    BY <2>1, <2>2 DEF Linked, Forward
<1>12. Resting(pages, 1, range, level)
  BY <1>3, <1>9, <1>10, <1>11 DEF Resting, Tree
<1>13. Counted(pages, 2)
  BY <1>3 DEF Counted
<1> QED
  BY <1>12, <1>13

LEMMA InitHolds == Init => IInv
<1> SUFFICES ASSUME Init
             PROVE  IInv
  OBVIOUS
<1>1. /\ page = [p \in PageNo |-> IF p = 1 THEN Leaf(0, 0, <<>>) ELSE Unused]
      /\ root = 1 /\ free = 0 /\ pageCount = 2 /\ dirty = {}
      /\ disk.page = page /\ disk.root = root /\ disk.free = free /\ disk.pageCount = pageCount
      /\ writing = FALSE /\ pc = "idle" /\ stack = <<>> /\ carry = NoCarry /\ ops \in Plans /\ fail = "none"
  BY DEF Init
<1>2. Counted(page, 2)
  BY <1>1, InitResting
<1>3. PICK range, level : Resting(page, 1, range, level)
  BY <1>1, InitResting
<1>4. 2 \in 2 .. MaxPages
  BY BTreeAssumption
<1>5. FileOK /\ FailOK /\ PlanOK
  BY <1>1, <1>2, <1>4, BTreeAssumption DEF FileOK, FailOK, PlanOK, OnlyInserts
<1>6. DiskOK
  <2>1. disk.free \in Nat /\ disk.pageCount \in 2 .. MaxPages /\ Counted(disk.page, disk.pageCount)
    BY <1>1, <1>2, <1>4
  <2>2. disk.page = page /\ disk.root = 1
    BY <1>1
  <2>3. Resting(disk.page, disk.root, range, level)
    BY <1>3, <2>2
  <2> QED
    BY <2>1, <2>3 DEF DiskOK
<1>7. Calling(range, level)
  <2>1. Path(page, <<>>, root, level)
    BY DEF Path
  <2> QED
    BY <1>1, <1>3, <2>1 DEF Calling
<1> QED
  BY <1>1, <1>5, <1>6, <1>7 DEF IInv

-----------------------------------------------------------------------------
(* Results                                                                 *)

LEMMA InvariantStep ==
    ASSUME ~Repeats, IInv, [Next]_vars
    PROVE  IInv'
<1>1. CASE broken
  <2>1. broken'
    <3>1. CASE Next
      BY <1>1, <3>1 DEF Next, EnableWrite, Commit, RemoveKey, Insert, Start, Descend, InsertIntoLeaf, SplitLeaf,
         RemoveFromLeaf, InsertUp, InsertIntoInternal, SplitInternal, NewRoot, Adjust, MergeLeaves, BalanceLeafPair,
         EnoughKeys, MergeInternal, BalanceInternal, TopReached, Aborts, Abort, Evict, Reopen, Quiet
    <3>2. CASE UNCHANGED vars
      BY <1>1, <3>2 DEF vars
    <3> QED
      BY <3>1, <3>2
  <2> QED
    BY <2>1 DEF IInv
<1>2. CASE ~broken
  <2>1. CASE EnableWrite
    BY <1>2, <2>1, EnableWriteStep
  <2>2. CASE Commit
    BY <1>2, <2>2, CommitStep
  <2>3. ASSUME NEW k \in Keys, RemoveKey(k)
        PROVE  IInv'
    BY <1>2, <2>3, RemoveStep
  <2>4. ASSUME NEW k \in Keys, NEW s \in Sizes, Insert(k, s)
        PROVE  IInv'
    BY <1>2, <2>4, InsertStep
  <2>5. CASE Descend
    BY <1>2, <2>5, DescendStep
  <2>6. CASE InsertIntoLeaf
    BY <1>2, <2>6, InsertIntoLeafStep
  <2>7. CASE SplitLeaf
    BY <1>2, <2>7, SplitLeafStep
  <2>8. CASE RemoveFromLeaf
    BY <1>2, <2>8, RemoveFromLeafStep
  <2>9. CASE InsertIntoInternal
    BY <1>2, <2>9, InsertIntoInternalStep
  <2>10. CASE SplitInternal
    BY <1>2, <2>10, SplitInternalStep
  <2>11. CASE NewRoot
    BY <1>2, <2>11, NewRootStep
  <2>12. CASE MergeLeaves
    BY <1>2, <2>12, MergeLeavesStep
  <2>13. CASE BalanceLeafPair
    BY <1>2, <2>13, BalanceLeafPairStep
  <2>14. CASE EnoughKeys
    BY <1>2, <2>14, EnoughKeysStep
  <2>15. CASE MergeInternal
    BY <1>2, <2>15, MergeInternalStep
  <2>16. CASE BalanceInternal
    BY <2>16 DEF BalanceInternal, IInv
  <2>17. CASE TopReached
    BY <1>2, <2>17, TopReachedStep
  <2>18. CASE Aborts
    BY <1>2, <2>18, AbortsStep
  <2>19. ASSUME NEW p \in PageNo, Evict(p)
         PROVE  IInv'
    BY <2>19 DEF Evict, IInv
  <2>20. CASE Reopen
    BY <1>2, <2>20, ReopenStep
  <2>21. CASE UNCHANGED vars
    <3>1. UNCHANGED <<page, root, free, pageCount, dirty, disk, writing, pc, op, stack, carry, upper, ops, fail, torn, broken>>
      BY <2>21 DEF vars, treeVars, callVars
    <3>2. FileOK' = FileOK /\ FailOK' = FailOK /\ DiskOK' = DiskOK /\ PlanOK' = PlanOK
      BY <3>1 DEF FileOK, FailOK, DiskOK, PlanOK
    <3>3. \A range, level : Calling(range, level)' = Calling(range, level)
      BY <3>1 DEF Calling, Searching, InsertingUp, AdjustingLeaf, AdjustingUp
    <3> QED
      BY <3>1, <3>2, <3>3 DEF IInv
  <2> QED
    BY <2>1, <2>2, <2>3, <2>4, <2>5, <2>6, <2>7, <2>8, <2>9, <2>10, <2>11, <2>12, <2>13, <2>14,
       <2>15, <2>16, <2>17, <2>18, <2>19, <2>20, <2>21 DEF Next, InsertUp, Adjust
<1> QED
  BY <1>1, <1>2

\* As long as no caller inserts a key that is present, the pages in memory are a search
\* tree, at rest and in the middle of any insert or remove, and so are those of the
\* file, until a page is read back that a commit left out or balance has lost children.
THEOREM BTreeInvariant == ASSUME ~Repeats PROVE Spec => []IInv
<1>1. Init => IInv
  BY InitHolds
<1>2. ASSUME IInv, [Next]_vars PROVE IInv'
  BY <1>2, InvariantStep
<1> QED
  BY <1>1, <1>2, PTL DEF Spec

\* Every page of a tree but its root has one parent, which has it once.
LEMMA TreeParents ==
    ASSUME NEW pages, NEW r, NEW range, NEW level, Tree(pages, r, NoCarry, range, level)
    PROVE  /\ \A p, q \in InternalsOf(pages) :
                 \A i \in DOMAIN pages[p].kids, j \in DOMAIN pages[q].kids :
                    pages[p].kids[i] = pages[q].kids[j] => p = q /\ i = j
           /\ \A p \in InternalsOf(pages) : \A i \in DOMAIN pages[p].kids :
                 pages[p].kids[i] # r /\ pages[pages[p].kids[i]].type \in {"leaf", "internal"}
           /\ \A p \in (LeavesOf(pages) \cup InternalsOf(pages)) \ {r} :
                 \E q \in InternalsOf(pages) : \E i \in DOMAIN pages[q].kids : pages[q].kids[i] = p
<1> DEFINE used == UsedIn(pages)
           kids == KidsOf(pages)
<1>1. Shaped(used, kids, r, NoCarry, range, level)
  BY TreeKnows
<1>2. \A p \in PageNo : pages[p].type = "internal" => p \in used /\ kids[p] = Kids(pages[p]) /\ Formed(pages[p])
  BY TreeKnows
<1>3. \A p \in used : \A k \in kids[p] : k \in used /\ k # r /\ \A q \in used : k \in kids[q] => q = p
  <2> HIDE DEF used, kids
  <2> QED
    BY <1>1, ShapeKids
<1>4. \A p \in InternalsOf(pages) : p \in used /\ p \in PageNo /\ Formed(pages[p])
         /\ \A i \in DOMAIN pages[p].kids : pages[p].kids[i] \in kids[p]
  <2> HIDE DEF used, kids
  <2> QED
    BY <1>2 DEF InternalsOf, Kids
<1>5. ASSUME NEW p \in InternalsOf(pages), NEW q \in InternalsOf(pages),
             NEW i \in DOMAIN pages[p].kids, NEW j \in DOMAIN pages[q].kids,
             pages[p].kids[i] = pages[q].kids[j]
      PROVE  p = q /\ i = j
  <2> HIDE DEF used, kids
  <2>1. p = q
    BY <1>3, <1>4, <1>5
  <2>2. i = j
    BY <2>1, <1>4, <1>5 DEF Formed
  <2> QED
    BY <2>1, <2>2
<1>6. ASSUME NEW p \in InternalsOf(pages), NEW i \in DOMAIN pages[p].kids
      PROVE  pages[p].kids[i] # r /\ pages[pages[p].kids[i]].type \in {"leaf", "internal"}
  <2>1. pages[p].kids[i] \in used /\ pages[p].kids[i] # r
    <3> HIDE DEF used, kids
    <3> QED
      BY <1>3, <1>4
  <2> QED
    BY <2>1 DEF UsedIn
<1>7. ASSUME NEW p \in (LeavesOf(pages) \cup InternalsOf(pages)) \ {r}
      PROVE  \E q \in InternalsOf(pages) : \E i \in DOMAIN pages[q].kids : pages[q].kids[i] = p
  <2>1. p \in PageNo /\ p \in used /\ p # r
    BY DEF LeavesOf, InternalsOf, UsedIn
  <2>2. NoCarry.back = 0 /\ p # 0
    BY <2>1, TreeKnows DEF NoCarry
  <2>3. PICK q \in used : p \in kids[q]
    <3> HIDE DEF used, kids
    <3> QED
      BY <1>1, <2>1, <2>2 DEF Shaped, ParentsOK
  <2>4. q \in PageNo /\ pages[q].type = "internal" /\ kids[q] = Kids(pages[q])
    BY <2>3, <1>2 DEF UsedIn, KidsOf
  <2> QED
    BY <2>3, <2>4 DEF InternalsOf, Kids
<1> QED
  BY <1>5, <1>6, <1>7

\* Between two calls the pages in memory are a tree.
LEMMA IdleResting ==
    ASSUME IInv, ~broken, pc = "idle"
    PROVE  \E range, level : Resting(page, root, range, level)
<1>1. PICK range, level : Calling(range, level)
  BY DEF IInv
<1>2. Resting(page, root, range, level)
  BY <1>1, CallingAt
<1> QED
  BY <1>2

\* NoSharing: whatever is inserted and removed, no page is lost or has two parents.
THEOREM NoSharingAlways == ASSUME ~Repeats PROVE Spec => []NoSharing
<1>1. IInv => NoSharing
  <2> SUFFICES ASSUME IInv, Idle PROVE NoSharing
    BY DEF NoSharing
  <2>1. ~broken /\ pc = "idle"
    BY DEF Idle, Sound
  <2>2. PICK range, level : Resting(page, root, range, level)
    BY <2>1, IdleResting
  <2>3. Tree(page, root, NoCarry, range, level)
    BY <2>2 DEF Resting
  <2> QED
    BY <2>3, TreeParents DEF NoSharing, Internals
<1> QED
  BY <1>1, BTreeInvariant, PTL

\* SearchNeverAborts: a search ends in an assertion only where an internal page without
\* keys is above another one.
THEOREM SearchNeverAbortsAlways == ASSUME ~Repeats PROVE Spec => []SearchNeverAborts
<1>1. IInv => SearchNeverAborts
  BY DEF IInv, FailOK, SearchNeverAborts
<1> QED
  BY <1>1, BTreeInvariant, PTL

-----------------------------------------------------------------------------
(* Where searches end                                                      *)

\* What a search meets in a tree: internal pages are one level above their children,
\* and leaves are at level 0.
LEMMA TreeSteps ==
    ASSUME NEW pages, NEW r, NEW c, NEW range, NEW level, Tree(pages, r, c, range, level)
    PROVE  /\ \A p \in UsedIn(pages) :
                 /\ p \in PageNo /\ p # 0 /\ level[p] \in Nat
                 /\ \/ pages[p].type = "leaf" /\ level[p] = 0
                    \/ /\ pages[p].type = "internal" /\ level[p] > 0
                       /\ pages[p] \in InternalPages(PageNo) /\ Formed(pages[p])
           /\ \A p \in InternalsOf(pages) : \A k \in Kids(pages[p]) :
                 k \in UsedIn(pages) /\ level[p] = level[k] + 1
           /\ \A p \in InternalsOf(pages) : pages[p].kids[1] \in Kids(pages[p])
<1> DEFINE used == UsedIn(pages)
           kids == KidsOf(pages)
<1>1. Shaped(used, kids, r, c, range, level)
  BY TreeKnows
<1>2. \A p \in PageNo : pages[p].type = "internal" =>
         /\ p \in used /\ kids[p] = Kids(pages[p])
         /\ pages[p] \in InternalPages(PageNo) /\ Formed(pages[p])
  BY TreeKnows
<1>3. \A p \in used : p \in PageNo /\ p # 0 /\ level[p] \in Nat
  <2> HIDE DEF used, kids
  <2> QED
    BY <1>1, ShapeKids
<1>4. \A p \in used : \A k \in kids[p] : k \in used /\ level[p] = level[k] + 1
  <2> HIDE DEF used, kids
  <2> QED
    BY <1>1, ShapeKids
<1>5. \A p \in InternalsOf(pages) : p \in PageNo /\ pages[p].type = "internal"
  BY DEF InternalsOf
<1>6. ASSUME NEW p \in InternalsOf(pages) PROVE pages[p].kids[1] \in Kids(pages[p])
  <2>1. pages[p] \in InternalPages(PageNo) /\ Formed(pages[p])
    BY <1>2, <1>5
  <2>2. pages[p].count \in Nat /\ Len(pages[p].kids) \in Nat /\ DOMAIN pages[p].kids = 1 .. Len(pages[p].kids)
    BY <2>1, PageShape
  <2>3. Len(pages[p].kids) = pages[p].count + 1
    BY <2>1 DEF Formed
  <2>4. 1 \in DOMAIN pages[p].kids
    BY <2>2, <2>3
  <2> QED
    BY <2>4 DEF Kids
<1>7. \A p \in InternalsOf(pages) : \A k \in Kids(pages[p]) : k \in used /\ level[p] = level[k] + 1
  <2> HIDE DEF used, kids
  <2> QED
    BY <1>2, <1>4, <1>5
<1>8. ASSUME NEW p \in used
      PROVE  \/ pages[p].type = "leaf" /\ level[p] = 0
             \/ /\ pages[p].type = "internal" /\ level[p] > 0
                /\ pages[p] \in InternalPages(PageNo) /\ Formed(pages[p])
  <2>1. pages[p].type = "leaf" \/ pages[p].type = "internal"
    BY TreeKnows
  <2>2. CASE pages[p].type = "leaf"
    <3>1. level[p] = 0
      BY <1>3, <2>2, TreeKnows
    <3> QED
      BY <2>2, <3>1
  <2>3. CASE pages[p].type = "internal"
    <3>1. p \in InternalsOf(pages)
      BY <1>3, <2>3 DEF InternalsOf
    <3>2. pages[p].kids[1] \in used /\ level[p] = level[pages[p].kids[1]] + 1
      BY <1>6, <1>7, <3>1
    <3>3. level[pages[p].kids[1]] \in Nat
      BY <3>2, <1>3
    <3>4. level[p] > 0
      BY <3>2, <3>3
    <3> QED
      BY <1>2, <1>5, <2>3, <3>1, <3>4
  <2> QED
    BY <2>1, <2>2, <2>3
<1> QED
  BY <1>3, <1>6, <1>7, <1>8

\* There are no more levels than pages.
LEMMA Height ==
    ASSUME NEW pages, NEW r, NEW c, NEW range, NEW level, Tree(pages, r, c, range, level)
    PROVE  level[r] \in Nat /\ level[r] <= MaxPages
<1> DEFINE N == level[r]
           At(n) == \E p \in UsedIn(pages) : level[p] + n = N
           S == {n \in 0 .. N : At(n)}
<1>1. /\ \A p \in UsedIn(pages) : p \in PageNo /\ level[p] \in Nat
      /\ \A p \in UsedIn(pages) : level[p] > 0 => p \in InternalsOf(pages)
  BY TreeSteps DEF InternalsOf
<1>2. r \in UsedIn(pages) /\ N \in Nat
  BY <1>1, TreeKnows
<1>3. \A n \in 0 .. N : n \in S
  <2>1. 0 \in S
    <3>1. level[r] + 0 = N
      BY <1>2
    <3> QED
      BY <1>2, <3>1
  <2>2. ASSUME NEW n \in 0 .. N - 1, n \in S PROVE n + 1 \in S
    <3>1. PICK p \in UsedIn(pages) : level[p] + n = N
      BY <2>2
    <3>2. level[p] > 0 /\ level[p] \in Nat
      BY <1>1, <1>2, <3>1
    <3>3. p \in InternalsOf(pages)
      BY <1>1, <3>2
    <3> DEFINE k == pages[p].kids[1]
    <3>4. k \in Kids(pages[p])
      BY <3>3, TreeSteps
    <3>5. k \in UsedIn(pages) /\ level[p] = level[k] + 1
      BY <3>3, <3>4, TreeSteps
    <3> HIDE DEF k
    <3>6. level[k] \in Nat
      BY <1>1, <3>5
    <3>7. level[k] + (n + 1) = N /\ n + 1 \in 0 .. N
      BY <1>2, <3>1, <3>2, <3>5, <3>6
    <3> QED
      BY <3>5, <3>7
  <2> HIDE DEF S, N
  <2> QED
    BY <1>2, <2>1, <2>2, UpTo
<1>4. SUFFICES ASSUME N > MaxPages PROVE FALSE
  BY <1>2, BTreeAssumption
<1> DEFINE f == [n \in 0 .. N |-> CHOOSE p \in UsedIn(pages) : level[p] + n = N]
<1>5. \A n \in 0 .. N : f[n] \in UsedIn(pages) /\ level[f[n]] + n = N
  BY <1>3
<1>6. f \in [0 .. N -> PageNo]
  <2>1. \A n \in 0 .. N : f[n] \in PageNo
    BY <1>1, <1>5
  <2>2. f = [n \in 0 .. N |-> f[n]]
    OBVIOUS
  <2> HIDE DEF f
  <2> QED
    BY <2>1, <2>2
<1>7. IsFiniteSet(0 .. N) /\ Cardinality(0 .. N) = N + 1
  <2>1. 0 \in Int /\ N \in Int /\ ~(0 > N)
    BY <1>2
  <2> HIDE DEF N
  <2>2. IsFiniteSet(0 .. N) /\ Cardinality(0 .. N) = IF 0 > N THEN 0 ELSE N - 0 + 1
    BY <2>1, FS_Interval
  <2> QED
    BY <2>1, <2>2
<1>8. IsFiniteSet(PageNo) /\ Cardinality(PageNo) = MaxPages
  <2> DEFINE M == MaxPages - 1
  <2>1. 0 \in Int /\ M \in Int /\ ~(0 > M) /\ MaxPages \in Nat
    BY BTreeAssumption
  <2>2. M - 0 + 1 = MaxPages
    BY <2>1
  <2>3. PageNo = 0 .. M
    BY DEF PageNo
  <2> HIDE DEF M
  <2>4. IsFiniteSet(0 .. M) /\ Cardinality(0 .. M) = IF 0 > M THEN 0 ELSE M - 0 + 1
    BY <2>1, FS_Interval
  <2> QED
    BY <2>1, <2>2, <2>3, <2>4
<1>9. PICK m \in 0 .. N, n \in 0 .. N : m # n /\ f[m] = f[n]
  <2> DEFINE T == 0 .. N
  <2>1. Cardinality(PageNo) < Cardinality(T)
    BY <1>2, <1>4, <1>7, <1>8, BTreeAssumption
  <2>2. IsFiniteSet(T) /\ f \in [T -> PageNo]
    BY <1>6, <1>7
  <2> HIDE DEF T, f
  <2>3. \E x, y \in T : x # y /\ f[x] = f[y]
    BY <1>8, <2>1, <2>2, FS_PigeonHole
  <2> QED
    BY <2>3 DEF T
<1> HIDE DEF f
<1>10. level[f[m]] + m = N /\ level[f[m]] + n = N /\ level[f[m]] \in Nat
  BY <1>1, <1>5, <1>9
<1> QED
  BY <1>2, <1>9, <1>10

\* Where so many steps lead from a page to one of its children.
Descends(h, inner, child) ==
    h = [d \in 0 .. MaxPages |->
            [no \in PageNo |-> IF d > 0 /\ no \in inner THEN h[d - 1][child[no]] ELSE no]]

LEMMA Descent ==
    ASSUME NEW inner, NEW child, \A no \in inner : no \in PageNo /\ child[no] \in PageNo
    PROVE  \E h : Descends(h, inner, child)
<1> DEFINE D == [PageNo -> PageNo]
           base == [no \in PageNo |-> no]
           N == MaxPages
           f == [n \in 1 .. N |-> [m \in D |-> [no \in PageNo |-> IF no \in inner THEN m[child[no]] ELSE no]]]
<1>0. N \in Nat
  BY BTreeAssumption
<1>1. base \in D
  OBVIOUS
<1>2. f \in [1 .. N -> [D -> D]]
  <2>1. ASSUME NEW m \in D PROVE [no \in PageNo |-> IF no \in inner THEN m[child[no]] ELSE no] \in D
    OBVIOUS
  <2> QED
    BY <2>1
<1>3. PICK h \in [0 .. N -> D] : h[0] = base /\ \A n \in 1 .. N : h[n] = f[n][h[n - 1]]
  <2> HIDE DEF N, f, D, base
  <2>1. \E h \in [0 .. N -> D] : h[0] = base /\ \A n \in 1 .. N : h[n] = f[n][h[n - 1]]
    BY <1>0, <1>1, <1>2, Iteration, SMTT(30)
  <2> QED
    BY <2>1
<1>4. ASSUME NEW d \in 0 .. N
      PROVE  h[d] = [no \in PageNo |-> IF d > 0 /\ no \in inner THEN h[d - 1][child[no]] ELSE no]
  <2>1. CASE d = 0
    <3>1. h[0] = [no \in PageNo |-> no]
      BY <1>3
    <3> QED
      BY <2>1, <3>1
  <2>2. CASE d # 0
    <3>1. d \in 1 .. N /\ d - 1 \in 0 .. N /\ d > 0
      BY <1>0, <2>2
    <3>2. h[d - 1] \in D
      BY <3>1
    <3>3. f[d][h[d - 1]] = [no \in PageNo |-> IF no \in inner THEN h[d - 1][child[no]] ELSE no]
      <4> HIDE DEF D
      <4> QED
        BY <3>1, <3>2
    <3>4. h[d] = f[d][h[d - 1]]
      BY <1>3, <3>1
    <3> HIDE DEF f
    <3> QED
      BY <3>1, <3>3, <3>4
  <2> QED
    BY <2>1, <2>2
<1>5. h = [d \in 0 .. N |-> h[d]]
  <2> HIDE DEF D
  <2> QED
    OBVIOUS
<1> HIDE DEF f, D, base
<1>6. h = [d \in 0 .. N |-> [no \in PageNo |-> IF d > 0 /\ no \in inner THEN h[d - 1][child[no]] ELSE no]]
  BY <1>4, <1>5
<1> QED
  BY <1>6 DEF Descends

\* search_page goes down from child to child.
SearchDown(down, pages, key) ==
    \A d \in 0 .. MaxPages : \A no \in PageNo :
        down[d][no] = IF d > 0 /\ pages[no].type = "internal" /\ pages[no].count > 0
                      THEN down[d - 1][ChildFor(pages[no], key)] ELSE no

LEMMA ReachedDown ==
    ASSUME NEW pages, NEW key \in Nat,
           \A p \in InternalsOf(pages) : pages[p] \in InternalPages(PageNo) /\ Formed(pages[p])
    PROVE  \E down : SearchDown(down, pages, key) /\ \A from : Reached(pages, from, key) = down[MaxPages][from]
<1> DEFINE Is(h) == h = [d \in 0 .. MaxPages |->
                            [no \in PageNo |->
                                IF d > 0 /\ pages[no].type = "internal" /\ pages[no].count > 0
                                THEN h[d - 1][ChildFor(pages[no], key)] ELSE no]]
           down == CHOOSE h : Is(h)
           inner == {p \in InternalsOf(pages) : pages[p].count > 0}
           child == [p \in inner |-> ChildFor(pages[p], key)]
<1>1. \A no \in inner : no \in PageNo /\ child[no] \in PageNo
  <2> TAKE no \in inner
  <2>1. no \in PageNo /\ pages[no] \in InternalPages(PageNo) /\ Formed(pages[no])
    BY DEF InternalsOf
  <2>2. key \in Nat /\ Nat \in SUBSET Nat
    OBVIOUS
  <2>3. \E i \in DOMAIN pages[no].kids : ChildFor(pages[no], key) = pages[no].kids[i] /\ key \in Share(Nat, pages[no], i)
    BY <2>1, <2>2, ChildHolds
  <2>4. \A i \in DOMAIN pages[no].kids : pages[no].kids[i] \in PageNo
    BY <2>1, PageShape
  <2> QED
    BY <2>1, <2>3, <2>4
<1>2. PICK h : Descends(h, inner, child)
  <2> HIDE DEF inner, child
  <2> QED
    BY <1>1, Descent
<1>3. Is(h)
  <2>1. \A no \in PageNo : no \in inner <=> pages[no].type = "internal" /\ pages[no].count > 0
    BY DEF InternalsOf
  <2>2. \A no \in inner : child[no] = ChildFor(pages[no], key)
    OBVIOUS
  <2> HIDE DEF inner, child
  <2>3. \A d \in 0 .. MaxPages : \A no \in PageNo :
           (IF d > 0 /\ no \in inner THEN h[d - 1][child[no]] ELSE no)
             = IF d > 0 /\ pages[no].type = "internal" /\ pages[no].count > 0
               THEN h[d - 1][ChildFor(pages[no], key)] ELSE no
    BY <2>1, <2>2
  <2>4. [d \in 0 .. MaxPages |->
            [no \in PageNo |-> IF d > 0 /\ no \in inner THEN h[d - 1][child[no]] ELSE no]]
        = [d \in 0 .. MaxPages |->
              [no \in PageNo |->
                  IF d > 0 /\ pages[no].type = "internal" /\ pages[no].count > 0
                  THEN h[d - 1][ChildFor(pages[no], key)] ELSE no]]
    BY <2>3
  <2>5. h = [d \in 0 .. MaxPages |->
                [no \in PageNo |-> IF d > 0 /\ no \in inner THEN h[d - 1][child[no]] ELSE no]]
    BY <1>2 DEF Descends
  <2> QED
    BY <2>4, <2>5
<1>4. Is(down)
  <2> HIDE DEF Is
  <2> QED
    BY <1>3
<1>5. \A from : Reached(pages, from, key) = down[MaxPages][from]
  BY DEF Reached
<1> HIDE DEF down
<1>6. SearchDown(down, pages, key)
  <2> SUFFICES ASSUME NEW d \in 0 .. MaxPages, NEW no \in PageNo
               PROVE  down[d][no] = IF d > 0 /\ pages[no].type = "internal" /\ pages[no].count > 0
                                    THEN down[d - 1][ChildFor(pages[no], key)] ELSE no
    BY DEF SearchDown
  <2>1. down[d] = [q \in PageNo |->
                      IF d > 0 /\ pages[q].type = "internal" /\ pages[q].count > 0
                      THEN down[d - 1][ChildFor(pages[q], key)] ELSE q]
    BY <1>4
  <2> QED
    BY <2>1
<1> QED
  BY <1>5, <1>6

\* The search for a key ends in the one leaf whose range has it, if it meets no page
\* without keys.
LEMMA SearchEnds ==
    ASSUME NEW pages, NEW r, NEW range, NEW level, Tree(pages, r, NoCarry, range, level),
           \A p \in InternalsOf(pages) : pages[p].count > 0,
           NEW leaf \in LeavesOf(pages), NEW key \in Nat, key \in range[leaf]
    PROVE  Reached(pages, r, key) = leaf
<1> DEFINE used == UsedIn(pages)
<1>1. /\ \A p \in used : /\ p \in PageNo /\ level[p] \in Nat
                         /\ \/ pages[p].type = "leaf" /\ level[p] = 0
                            \/ p \in InternalsOf(pages) /\ pages[p].type = "internal" /\ level[p] > 0
      /\ \A p \in InternalsOf(pages) : pages[p] \in InternalPages(PageNo) /\ Formed(pages[p])
      /\ \A p \in InternalsOf(pages) : \A k \in Kids(pages[p]) : k \in used /\ level[p] = level[k] + 1
  BY TreeSteps DEF InternalsOf, UsedIn
<1>2. PICK down : SearchDown(down, pages, key) /\ \A from : Reached(pages, from, key) = down[MaxPages][from]
  <2> HIDE DEF used
  <2> QED
    BY <1>1, ReachedDown
<1>3. leaf \in used /\ pages[leaf].type = "leaf" /\ level[leaf] = 0
  <2>1. leaf \in used /\ pages[leaf].type = "leaf"
    BY DEF LeavesOf, UsedIn
  <2>2. ~(pages[leaf].type = "internal")
    BY <2>1
  <2> QED
    BY <1>1, <2>1, <2>2
<1>4. ASSUME NEW no \in used, key \in range[no], pages[no].type = "leaf" PROVE no = leaf
  <2>1. level[no] = 0
    <3>1. ~(pages[no].type = "internal")
      BY <1>4
    <3> QED
      BY <1>1, <3>1
  <2>2. Apart(used, range, level)
    <3>1. Shaped(used, KidsOf(pages), r, NoCarry, range, level)
      BY TreeKnows
    <3> QED
      BY <3>1 DEF Shaped
  <2> HIDE DEF used
  <2> QED
    BY <1>3, <1>4, <2>1, <2>2 DEF Apart
<1>5. ASSUME NEW no \in InternalsOf(pages), key \in range[no]
      PROVE  ChildFor(pages[no], key) \in Kids(pages[no]) /\ key \in range[ChildFor(pages[no], key)]
  <2>1. no \in PageNo /\ pages[no].type = "internal"
    BY DEF InternalsOf
  <2>2. /\ pages[no] \in InternalPages(PageNo) /\ Formed(pages[no])
        /\ Divides(pages[no], range[no], Whole(NoCarry, range))
    BY <2>1, TreeKnows
  <2>3. range \in [PageNo -> SUBSET Nat]
    BY TreeKnows
  <2>4. Whole(NoCarry, range) = range
    BY <2>3, WholeSame
  <2>5. range[no] \in SUBSET Nat
    BY <2>1, <2>3
  <2>6. PICK i \in DOMAIN pages[no].kids : ChildFor(pages[no], key) = pages[no].kids[i] /\ key \in Share(range[no], pages[no], i)
    BY <1>5, <2>2, <2>5, ChildHolds
  <2>7. range[pages[no].kids[i]] = Share(range[no], pages[no], i)
    BY <2>2, <2>4, <2>6 DEF Divides
  <2> QED
    BY <2>6, <2>7 DEF Kids
<1> DEFINE Ends(d) == \A no \in used : key \in range[no] /\ level[no] <= d => down[d][no] = leaf
           S == {d \in 0 .. MaxPages : Ends(d)}
<1>6. MaxPages \in Nat
  BY BTreeAssumption
<1>7. Ends(0)
  <2> SUFFICES ASSUME NEW no \in used, key \in range[no], level[no] <= 0 PROVE down[0][no] = leaf
    OBVIOUS
  <2>1. no \in PageNo /\ pages[no].type = "leaf"
    BY <1>1
  <2>2. no = leaf
    BY <1>4, <2>1
  <2>3. 0 \in 0 .. MaxPages /\ ~(0 > 0)
    BY <1>6
  <2>4. down[0][no] = no
    BY <1>2, <2>1, <2>3 DEF SearchDown
  <2> QED
    BY <2>2, <2>4
<1>8. ASSUME NEW d \in 0 .. MaxPages - 1, Ends(d) PROVE Ends(d + 1)
  <2> SUFFICES ASSUME NEW no \in used, key \in range[no], level[no] <= d + 1 PROVE down[d + 1][no] = leaf
    OBVIOUS
  <2>1. d + 1 \in 0 .. MaxPages /\ d + 1 > 0 /\ (d + 1) - 1 = d /\ d \in Nat
    BY <1>6
  <2>2. no \in PageNo
    BY <1>1
  <2>3. CASE pages[no].type = "leaf"
    <3>1. no = leaf
      BY <1>4, <2>3
    <3>2. ~(pages[no].type = "internal")
      BY <2>3
    <3>3. down[d + 1][no] = no
      BY <1>2, <2>1, <2>2, <3>2 DEF SearchDown
    <3> QED
      BY <3>1, <3>3
  <2>4. CASE ~(pages[no].type = "leaf")
    <3>1. no \in InternalsOf(pages) /\ pages[no].type = "internal" /\ pages[no].count > 0
      BY <1>1, <2>4
    <3> DEFINE k == ChildFor(pages[no], key)
    <3>2. k \in Kids(pages[no]) /\ key \in range[k]
      BY <1>5, <3>1
    <3>3. k \in used /\ level[no] = level[k] + 1
      BY <1>1, <3>1, <3>2
    <3>4. down[d + 1][no] = down[d][k]
      BY <1>2, <2>1, <2>2, <3>1 DEF SearchDown
    <3> HIDE DEF k
    <3>5. level[k] \in Nat /\ level[no] \in Nat
      BY <1>1, <3>3
    <3>6. level[k] <= d
      BY <2>1, <3>3, <3>5
    <3>7. down[d][k] = leaf
      BY <1>8, <3>2, <3>3, <3>6
    <3> QED
      BY <3>4, <3>7
  <2> QED
    BY <2>3, <2>4
<1>9. \A d \in 0 .. MaxPages : d \in S
  <2>1. 0 \in S
    BY <1>6, <1>7
  <2>2. \A d \in 0 .. MaxPages - 1 : d \in S => d + 1 \in S
    <3> TAKE d \in 0 .. MaxPages - 1
    <3> HAVE d \in S
    <3>1. Ends(d)
      OBVIOUS
    <3> HIDE DEF Ends
    <3>2. Ends(d + 1)
      BY <1>8, <3>1
    <3>3. d + 1 \in 0 .. MaxPages
      BY <1>6
    <3> QED
      BY <3>2, <3>3
  <2> HIDE DEF S
  <2> QED
    BY <1>6, <2>1, <2>2, UpTo
<1>10. Ends(MaxPages)
  BY <1>6, <1>9
<1>11. r \in used /\ key \in range[r] /\ level[r] <= MaxPages
  BY RootHolds, Height
<1>12. down[MaxPages][r] = leaf
  BY <1>10, <1>11
<1> QED
  BY <1>2, <1>12

\* Every record of a tree without starved pages is found.
LEMMA RestingFindable ==
    ASSUME NEW pages, NEW r, NEW range, NEW level, Resting(pages, r, range, level), Starved(pages) = {}
    PROVE  AllFindable(pages, r)
<1>1. Tree(pages, r, NoCarry, range, level) /\ FedOK(pages, level, {})
  BY DEF Resting
<1>2. ASSUME NEW p \in InternalsOf(pages) PROVE pages[p].count > 0
  <2>1. p \in PageNo /\ pages[p].type = "internal" /\ p \in UsedIn(pages)
    BY DEF InternalsOf, UsedIn
  <2>2. pages[p] \in InternalPages(PageNo)
    BY <1>1, <2>1, TreeKnows
  <2>3. pages[p].count \in Nat
    BY <2>2, PageShape
  <2>4. CASE pages[p].count = 0
    <3>1. level[p] >= 2
      BY <1>1, <2>4 DEF FedOK
    <3> DEFINE k == pages[p].kids[1]
    <3>2. k \in Kids(pages[p])
      BY <1>1, TreeSteps
    <3>3. k \in UsedIn(pages) /\ level[p] = level[k] + 1
      BY <1>1, <3>2, TreeSteps
    <3> HIDE DEF k
    <3>4. level[k] \in Nat /\ (pages[k].type = "internal" \/ level[k] = 0)
      BY <1>1, <3>3, TreeSteps
    <3>5. pages[k].type = "internal"
      BY <3>1, <3>3, <3>4
    <3>6. p \in Starved(pages)
      BY <2>4, <3>5 DEF Starved, k
    <3> QED
      BY <3>6
  <2> QED
    BY <2>3, <2>4
<1>3. ASSUME NEW p \in LeavesOf(pages), NEW k \in KeySet(pages[p].recs) PROVE Reached(pages, r, k) = p
  <2>1. p \in PageNo /\ pages[p].type = "leaf"
    BY DEF LeavesOf
  <2>2. KeySet(pages[p].recs) \subseteq range[p] /\ range \in [PageNo -> SUBSET Nat]
    BY <1>1, <2>1, TreeKnows
  <2>3. k \in range[p] /\ k \in Nat
    BY <2>1, <2>2
  <2> QED
    BY <1>1, <1>2, <2>3, SearchEnds
<1> QED
  BY <1>3 DEF AllFindable

\* Findable: whatever is inserted and removed, in any order and over any number of pages,
\* search_page finds every record, unless an internal page without keys is in the way.
THEOREM FindableAlways == ASSUME ~Repeats PROVE Spec => []Findable
<1>1. IInv => Findable
  <2> SUFFICES ASSUME IInv, Idle, Starved(page) = {} PROVE AllFindable(page, root)
    BY DEF Findable
  <2>1. ~broken /\ pc = "idle"
    BY DEF Idle, Sound
  <2>2. PICK range, level : Resting(page, root, range, level)
    BY <2>1, IdleResting
  <2> QED
    BY <2>2, RestingFindable
<1> QED
  BY <1>1, BTreeInvariant, PTL

-----------------------------------------------------------------------------
(* Types                                                                   *)

LEMMA TypesHold ==
    ASSUME IInv, ~broken
    PROVE  TypeOK
<1>1. PICK range, level : Calling(range, level)
  BY DEF IInv
<1>2. Tree(page, root, carry, range, level)
  BY <1>1, CallingAt
<1>3. /\ page \in [PageNo -> Pages] /\ root \in PageNo \ {0} /\ UsedIn(page) \subseteq PageNo \ {0}
  BY <1>2, TreeKnows
<1>4. ASSUME NEW p \in PageNo
      PROVE  \/ page[p] = Unused
             \/ /\ page[p].type = "leaf"
                /\ \A i \in DOMAIN page[p].recs : page[p].recs[i] \in [key : Keys, size : Sizes]
             \/ /\ page[p].type = "internal"
                /\ page[p].count \in 0 .. KeyCapacity
                /\ Len(page[p].kids) \in {0, page[p].count + 1}
                /\ DOMAIN page[p].keys = Slots
             \/ page[p].type = "free"
  <2>1. CASE page[p].type = "leaf"
    <3>1. page[p].recs \in Sorted
      BY <1>2, <2>1, TreeKnows
    <3>2. DOMAIN page[p].recs = 1 .. Len(page[p].recs) /\ \A i \in 1 .. Len(page[p].recs) : page[p].recs[i] \in Record
      BY <3>1, SortedShape
    <3> QED
      BY <2>1, <3>2 DEF Record
  <2>2. CASE page[p].type = "internal"
    <3>1. page[p] \in InternalPages(PageNo) /\ Formed(page[p])
      BY <1>2, <2>2, TreeKnows
    <3>2. page[p].count \in 0 .. KeyCapacity /\ DOMAIN page[p].keys = Slots
      BY <3>1 DEF InternalPages
    <3> QED
      BY <2>2, <3>1, <3>2 DEF Formed
  <2> QED
    BY <1>3, <2>1, <2>2, PageTypes
<1>5. pc \in {"idle", "search", "insert_up", "adjust_leaf", "adjust_up", "aborted"}
  BY <1>1 DEF Calling, Searching, InsertingUp, AdjustingLeaf, AdjustingUp
<1>6. pageCount \in 2 .. MaxPages /\ dirty \subseteq 1 .. pageCount - 1 /\ writing \in BOOLEAN
  BY DEF IInv, FileOK
<1>7. root \in 1 .. MaxPages - 1
  BY <1>3, BTreeAssumption DEF PageNo
<1> QED
  BY <1>4, <1>5, <1>6, <1>7 DEF TypeOK

\* Type correctness: whatever is inserted and removed, pages keep the shape of their types
\* and the header and the marks stay within the file, until balance has lost children or
\* a page is read back that a commit left out.
THEOREM TypesAlways == ASSUME ~Repeats PROVE Spec => [](~broken => TypeOK)
<1>1. IInv => (~broken => TypeOK)
  BY TypesHold
<1> QED
  BY <1>1, BTreeInvariant, PTL
=============================================================================
