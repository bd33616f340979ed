------------------------- MODULE InternalPageProofs -------------------------
(***************************************************************************)
(* Lemmas about the operations on an internal page, for every capacity and *)
(* every content.  A page divides a range of keys among its children: the  *)
(* keys cut the range into shares, and insert, remove, update, split and   *)
(* merge keep every child's share what it holds.                           *)
(***************************************************************************)
EXTENDS InternalPage, Induction

\* Internal pages with children from P.
InternalPages(P) ==
    [type : {"internal"}, next : Nat, prev : Nat, count : 0 .. KeyCapacity,
     keys : [Slots -> Nat], kids : Seq(P)]

\* One more child than keys, keys in order, no child twice.
Formed(pg) ==
    /\ Len(pg.kids) = pg.count + 1
    /\ \A i, j \in 1 .. pg.count : i < j => pg.keys[i] <= pg.keys[j]
    /\ \A i, j \in DOMAIN pg.kids : pg.kids[i] = pg.kids[j] => i = j

Kids(pg) == {pg.kids[i] : i \in DOMAIN pg.kids}

\* Two pages have no child in common.
Separate(pg1, pg2) == Kids(pg1) \cap Kids(pg2) = {}

\* The part of a range that belongs to the child at i.
Share(range, pg, i) ==
    {k \in range : (i > 1 => pg.keys[i - 1] <= k) /\ (i <= pg.count => k < pg.keys[i])}

\* Every child holds its share of the range.
Divides(pg, range, held) == \A i \in DOMAIN pg.kids : held[pg.kids[i]] = Share(range, pg, i)

Below(range, key) == {k \in range : k < key}
From(range, key)  == {k \in range : key <= k}

-----------------------------------------------------------------------------
(* Searching                                                               *)

\* A page has as many keys as its count says, within its array.
LEMMA PageShape ==
    ASSUME NEW P, NEW pg \in InternalPages(P)
    PROVE  /\ pg.count \in Nat /\ pg.count <= KeyCapacity /\ KeyCapacity \in Nat
           /\ pg.keys \in [Slots -> Nat] /\ pg.kids \in Seq(P)
           /\ pg.next \in Nat /\ pg.prev \in Nat /\ pg.type = "internal"
           /\ Len(pg.kids) \in Nat /\ DOMAIN pg.kids = 1 .. Len(pg.kids)
           /\ \A i \in 1 .. pg.count : pg.keys[i] \in Nat /\ i \in Slots
           /\ \A i \in DOMAIN pg.kids : pg.kids[i] \in P
<1>1. pg.count \in 0 .. KeyCapacity /\ pg.keys \in [Slots -> Nat] /\ pg.kids \in Seq(P)
      /\ pg.next \in Nat /\ pg.prev \in Nat /\ pg.type = "internal"
  BY DEF InternalPages
<1>2. KeyCapacity \in Nat
  BY InternalPageAssumption
<1>3. Len(pg.kids) \in Nat /\ DOMAIN pg.kids = 1 .. Len(pg.kids)
      /\ \A i \in DOMAIN pg.kids : pg.kids[i] \in P
  BY <1>1
<1>4. \A i \in 1 .. pg.count : i \in Slots
  BY <1>1, <1>2 DEF Slots
<1> QED
  BY <1>1, <1>2, <1>3, <1>4

\* Position is the first key that is not below the one looked for.
LEMMA PositionFound ==
    ASSUME NEW P, NEW pg \in InternalPages(P), NEW key \in Nat
    PROVE  /\ Position(pg, key) \in 1 .. pg.count + 1
           /\ Position(pg, key) = pg.count + 1 \/ key <= pg.keys[Position(pg, key)]
           /\ \A j \in 1 .. Position(pg, key) - 1 : pg.keys[j] < key
<1> DEFINE S == {i \in 1 .. pg.count + 1 : i = pg.count + 1 \/ key <= pg.keys[i]}
<1>1. /\ pg.count \in Nat /\ \A i \in 1 .. pg.count : pg.keys[i] \in Nat
  BY PageShape
<1>2. pg.count + 1 \in S /\ S \subseteq Nat
  BY <1>1
<1>3. PICK m \in S : \A k \in S : m <= k
  <2> HIDE DEF S
  <2> QED
    BY <1>2, Least
<1>4. \A j \in 1 .. m - 1 : pg.keys[j] < key
  <2> TAKE j \in 1 .. m - 1
  <2>1. j \notin S /\ j \in 1 .. pg.count
    BY <1>1, <1>3
  <2> QED
    BY <1>1, <2>1
<1> QED
  BY <1>3, <1>4 DEF Position

\* search ends at the child whose share of a range has the key.
LEMMA ChildHolds ==
    ASSUME NEW P, NEW pg \in InternalPages(P), Formed(pg),
           NEW key \in Nat, NEW range \in SUBSET Nat, key \in range
    PROVE  \E i \in DOMAIN pg.kids : ChildFor(pg, key) = pg.kids[i] /\ key \in Share(range, pg, i)
<1> DEFINE S == {i \in 1 .. pg.count + 1 : i = pg.count + 1 \/ key < pg.keys[i]}
           Is(i) == /\ i = pg.count + 1 \/ key < pg.keys[i]
                    /\ \A j \in 1 .. i - 1 : pg.keys[j] <= key
<1>1. /\ pg.count \in Nat /\ \A i \in 1 .. pg.count : pg.keys[i] \in Nat
      /\ DOMAIN pg.kids = 1 .. pg.count + 1
  BY PageShape DEF Formed
<1>2. pg.count + 1 \in S /\ S \subseteq Nat
  BY <1>1
<1>3. PICK m \in S : \A k \in S : m <= k
  <2> HIDE DEF S
  <2> QED
    BY <1>2, Least
<1>4. \A j \in 1 .. m - 1 : pg.keys[j] <= key
  <2> TAKE j \in 1 .. m - 1
  <2>1. j \notin S /\ j \in 1 .. pg.count
    BY <1>1, <1>3
  <2> QED
    BY <1>1, <2>1
<1>5. m \in 1 .. pg.count + 1 /\ Is(m)
  BY <1>3, <1>4
<1> DEFINE i == CHOOSE i \in 1 .. pg.count + 1 : Is(i)
<1>6. i \in 1 .. pg.count + 1 /\ Is(i)
  <2> HIDE DEF Is
  <2> QED
    BY <1>5
<1>7. ChildFor(pg, key) = pg.kids[i]
  BY DEF ChildFor
<1> HIDE DEF i
<1>8. key \in Share(range, pg, i)
  <2>1. i > 1 => i - 1 \in 1 .. i - 1
    BY <1>1, <1>6
  <2>2. i > 1 => pg.keys[i - 1] <= key
    BY <1>6, <2>1
  <2>3. i <= pg.count => key < pg.keys[i]
    BY <1>1, <1>6
  <2> QED
    BY <2>2, <2>3 DEF Share
<1> QED
  BY <1>1, <1>6, <1>7, <1>8

\* A child is found where it is.
LEMMA KidFound ==
    ASSUME NEW P, NEW kids \in Seq(P), NEW no
    PROVE  \/ /\ KidPosition(kids, no) \in DOMAIN kids /\ KidPosition(kids, no) \in Nat \ {0}
              /\ kids[KidPosition(kids, no)] = no
           \/ KidPosition(kids, no) = 0 /\ \A i \in DOMAIN kids : kids[i] # no
<1>0. DOMAIN kids \subseteq Nat \ {0}
  OBVIOUS
<1>1. CASE \E i \in DOMAIN kids : kids[i] = no
  <2> DEFINE S == {i \in DOMAIN kids : kids[i] = no}
  <2>1. S \subseteq Nat /\ S # {}
    BY <1>0, <1>1
  <2>2. PICK m \in S : \A k \in S : m <= k
    <3> HIDE DEF S
    <3> QED
      BY <2>1, Least
  <2>3. \A j \in 1 .. m - 1 : kids[j] # no
    <3> SUFFICES ASSUME NEW j \in 1 .. m - 1, kids[j] = no PROVE FALSE
      OBVIOUS
    <3>1. m \in 1 .. Len(kids) /\ DOMAIN kids = 1 .. Len(kids) /\ Len(kids) \in Nat
      BY <2>2
    <3>2. j \in S /\ ~(m <= j)
      BY <3>1
    <3> QED
      BY <2>2, <3>2
  <2> QED
    BY <1>0, <1>1, <2>2, <2>3 DEF KidPosition
<1>2. CASE \A i \in DOMAIN kids : kids[i] # no
  BY <1>2 DEF KidPosition
<1> QED
  BY <1>1, <1>2

-----------------------------------------------------------------------------
(* Writing                                                                 *)

\* Overwrite keeps the array an array.
LEMMA Overwritten ==
    ASSUME NEW keys \in [Slots -> Nat], NEW i \in Nat \ {0}, NEW s \in Seq(Nat)
    PROVE  /\ Overwrite(keys, i, s) \in [Slots -> Nat]
           /\ \A j \in Slots : /\ j < i => Overwrite(keys, i, s)[j] = keys[j]
                               /\ i <= j /\ j - i < Len(s) => Overwrite(keys, i, s)[j] = s[j - i + 1]
<1>1. KeyCapacity \in Nat /\ Len(s) \in Nat /\ \A n \in 1 .. Len(s) : s[n] \in Nat
  BY InternalPageAssumption
<1>2. ASSUME NEW j \in Slots
      PROVE  (IF j \in i .. i + Len(s) - 1 THEN s[j - i + 1] ELSE keys[j]) \in Nat
  <2>1. CASE j \in i .. i + Len(s) - 1
    <3>1. j - i + 1 \in 1 .. Len(s)
      BY <1>1, <2>1 DEF Slots
    <3> QED
      BY <1>1, <2>1, <3>1
  <2>2. CASE j \notin i .. i + Len(s) - 1
    BY <2>2
  <2> QED
    BY <2>1, <2>2
<1>3. Overwrite(keys, i, s) \in [Slots -> Nat]
  BY <1>2 DEF Overwrite
<1>4. ASSUME NEW j \in Slots
      PROVE  /\ j < i => Overwrite(keys, i, s)[j] = keys[j]
             /\ i <= j /\ j - i < Len(s) => Overwrite(keys, i, s)[j] = s[j - i + 1]
  <2>1. Overwrite(keys, i, s)[j] = IF j \in i .. i + Len(s) - 1 THEN s[j - i + 1] ELSE keys[j]
    BY DEF Overwrite
  <2>2. j \in Nat
    BY <1>1 DEF Slots
  <2>3. j < i => j \notin i .. i + Len(s) - 1
    BY <1>1, <2>2
  <2>4. i <= j /\ j - i < Len(s) => j \in i .. i + Len(s) - 1
    BY <1>1, <2>2
  <2> QED
    BY <2>1, <2>3, <2>4
<1> QED
  BY <1>3, <1>4

\* Part of a key array as a sequence.
LEMMA SlotsRead ==
    ASSUME NEW keys \in [Slots -> Nat], NEW m \in Nat \ {0}, NEW n \in Nat, n <= KeyCapacity, m <= n + 1
    PROVE  /\ SubSeq(keys, m, n) \in Seq(Nat) /\ Len(SubSeq(keys, m, n)) = n + 1 - m
           /\ \A j \in 1 .. n + 1 - m : SubSeq(keys, m, n)[j] = keys[m + j - 1]
<1>1. KeyCapacity \in Nat
  BY InternalPageAssumption
<1>2. keys \in Seq(Nat) /\ Len(keys) = KeyCapacity
  BY <1>1 DEF Slots
<1>3. m <= n => m \in 1 .. Len(keys) /\ n \in 1 .. Len(keys)
  BY <1>1, <1>2
<1> QED
  BY <1>1, <1>2, <1>3

\* Two sequences one behind the other.
LEMMA Joined ==
    ASSUME NEW T, NEW s \in Seq(T), NEW t \in Seq(T)
    PROVE  /\ s \o t \in Seq(T) /\ Len(s \o t) = Len(s) + Len(t)
           /\ DOMAIN (s \o t) = 1 .. Len(s) + Len(t)
           /\ \A j \in 1 .. Len(s) : (s \o t)[j] = s[j]
           /\ \A j \in 1 .. Len(s) + Len(t) : j > Len(s) => (s \o t)[j] = t[j - Len(s)]
<1>1. Len(s) \in Nat /\ Len(t) \in Nat
  OBVIOUS
<1>2. s \o t \in Seq(T) /\ Len(s \o t) = Len(s) + Len(t)
  OBVIOUS
<1>3. DOMAIN (s \o t) = 1 .. Len(s \o t)
  BY <1>2
<1>4. \A j \in 1 .. Len(s) : (s \o t)[j] = s[j]
  BY <1>1
<1>5. \A j \in 1 .. Len(s) + Len(t) : j > Len(s) => (s \o t)[j] = t[j - Len(s)]
  BY <1>1
<1> QED
  BY <1>2, <1>3, <1>4, <1>5

\* One element in front of a sequence.
LEMMA Prefixed ==
    ASSUME NEW T, NEW x \in T, NEW t \in Seq(T)
    PROVE  /\ <<x>> \o t \in Seq(T) /\ Len(<<x>> \o t) = Len(t) + 1 /\ (<<x>> \o t)[1] = x
           /\ \A j \in 2 .. Len(t) + 1 : (<<x>> \o t)[j] = t[j - 1]
<1>1. Len(t) \in Nat /\ <<x>> \in Seq(T) /\ Len(<<x>>) = 1
  OBVIOUS
<1>2. <<x>> \o t \in Seq(T) /\ Len(<<x>> \o t) = Len(t) + 1 /\ (<<x>> \o t)[1] = x
  BY <1>1
<1>3. ASSUME NEW j \in 2 .. Len(t) + 1 PROVE (<<x>> \o t)[j] = t[j - 1]
  <2>1. j \in 1 .. Len(<<x>>) + Len(t) /\ ~(j <= Len(<<x>>)) /\ j - Len(<<x>>) = j - 1
    BY <1>1
  <2> QED
    BY <1>1, <2>1
<1> QED
  BY <1>2, <1>3

\* insert puts the key before the first greater one and the new child behind the
\* child it was split off.
LEMMA InsertKeyWrites ==
    ASSUME NEW P, NEW pg \in InternalPages(P), Formed(pg), pg.count > 0,
           NEW key \in Nat, NEW front \in P, NEW back \in P,
           InsertKey(pg, key, front, back).status = "ok",
           NEW np, np = InsertKey(pg, key, front, back).page
    PROVE  /\ np \in InternalPages(P) /\ np.count = pg.count + 1
           /\ np.next = pg.next /\ np.prev = pg.prev /\ Len(np.kids) = np.count + 1
           /\ \E i \in 1 .. pg.count + 1 :
                 /\ pg.kids[i] = front
                 /\ i > 1 => pg.keys[i - 1] < key
                 /\ i <= pg.count => key <= pg.keys[i]
                 /\ \A j \in 1 .. np.count : /\ j < i => np.keys[j] = pg.keys[j]
                                             /\ j = i => np.keys[j] = key
                                             /\ j > i => np.keys[j] = pg.keys[j - 1]
                 /\ \A j \in 1 .. np.count + 1 : /\ j <= i => np.kids[j] = pg.kids[j]
                                                 /\ j = i + 1 => np.kids[j] = back
                                                 /\ j > i + 1 => np.kids[j] = pg.kids[j - 1]
<1> DEFINE n == pg.count
           keys == pg.keys
           kids == pg.kids
           i == Position(pg, key)
           t == SubSeq(keys, i, n)
           s == <<key>> \o t
           w == Overwrite(keys, i, s)
           k == InsertAt(kids, i + 1, back)
<1>1. /\ n \in Nat /\ n <= KeyCapacity /\ KeyCapacity \in Nat
      /\ keys \in [Slots -> Nat] /\ kids \in Seq(P) /\ Len(kids) = n + 1
      /\ \A j \in 1 .. n : keys[j] \in Nat /\ j \in Slots
  BY PageShape DEF Formed
<1>2. i \in 1 .. n + 1 /\ (i = n + 1 \/ key <= keys[i]) /\ \A j \in 1 .. i - 1 : keys[j] < key
  BY PositionFound
<1>3. n # KeyCapacity /\ kids[i] = front
      /\ np = [pg EXCEPT !.count = n + 1, !.keys = w, !.kids = k]
  BY DEF InsertKey, NoSpace, Failed, Ok
<1> HIDE DEF i, n, keys, kids
<1>4. s \in Seq(Nat) /\ Len(s) = n + 2 - i /\ s[1] = key
      /\ \A j \in 2 .. n + 2 - i : s[j] = keys[i + j - 2]
  <2>1. t \in Seq(Nat) /\ Len(t) = n + 1 - i /\ \A j \in 1 .. n + 1 - i : t[j] = keys[i + j - 1]
    BY <1>1, <1>2, SlotsRead
  <2> HIDE DEF t
  <2>2. /\ s \in Seq(Nat) /\ Len(s) = Len(t) + 1 /\ s[1] = key
        /\ \A j \in 2 .. Len(t) + 1 : s[j] = t[j - 1]
    BY <2>1, Prefixed
  <2> HIDE DEF s
  <2>3. ASSUME NEW j \in 2 .. n + 2 - i PROVE s[j] = keys[i + j - 2]
    <3>1. j - 1 \in 1 .. n + 1 - i /\ i + (j - 1) - 1 = i + j - 2 /\ j \in 2 .. Len(t) + 1
      BY <1>1, <1>2, <2>1
    <3> QED
      BY <2>1, <2>2, <3>1
  <2> QED
    BY <1>1, <1>2, <2>1, <2>2, <2>3
<1> HIDE DEF s
<1>5. w \in [Slots -> Nat] /\ \A j \in 1 .. n + 1 : /\ j < i => w[j] = keys[j]
                                                    /\ j = i => w[j] = key
                                                    /\ j > i => w[j] = keys[j - 1]
  <2>1. i \in Nat \ {0}
    BY <1>1, <1>2
  <2>2. /\ w \in [Slots -> Nat]
        /\ \A j \in Slots : /\ j < i => w[j] = keys[j]
                            /\ i <= j /\ j - i < Len(s) => w[j] = s[j - i + 1]
    BY <1>1, <1>4, <2>1, Overwritten
  <2> SUFFICES ASSUME NEW j \in 1 .. n + 1
               PROVE  /\ j < i => w[j] = keys[j]
                      /\ j = i => w[j] = key
                      /\ j > i => w[j] = keys[j - 1]
    BY <2>2
  <2>3. j \in Slots
    BY <1>1, <1>3 DEF Slots
  <2>4. i <= j => j - i < Len(s)
    BY <1>1, <1>2, <1>4
  <2>5. j = i => j - i + 1 = 1
    BY <1>1, <1>2
  <2>6. j > i => j - i + 1 \in 2 .. n + 2 - i /\ i + (j - i + 1) - 2 = j - 1
    BY <1>1, <1>2
  <2>7. j > i => s[j - i + 1] = keys[j - 1]
    BY <1>4, <2>6
  <2>8. j >= i <=> i <= j
    BY <1>1, <1>2
  <2>9. CASE j < i
    BY <1>2, <2>2, <2>3, <2>9
  <2>10. CASE j = i
    BY <1>2, <1>4, <2>2, <2>3, <2>4, <2>5, <2>10
  <2>11. CASE j > i
    BY <1>2, <2>2, <2>3, <2>4, <2>7, <2>11
  <2> QED
    BY <1>2, <2>9, <2>10, <2>11
<1> HIDE DEF w
<1>6. /\ k \in Seq(P) /\ Len(k) = n + 2
      /\ \A j \in 1 .. n + 2 : /\ j <= i => k[j] = kids[j]
                               /\ j = i + 1 => k[j] = back
                               /\ j > i + 1 => k[j] = kids[j - 1]
  <2> DEFINE at == i + 1
  <2>1. at \in 1 .. Len(kids) + 1
    BY <1>1, <1>2
  <2> HIDE DEF at
  <2>4. kids \in Seq(P) /\ back \in P
    BY <1>1
  <2>5. /\ InsertAt(kids, at, back) \in Seq(P)
        /\ Len(InsertAt(kids, at, back)) = Len(kids) + 1 /\ InsertAt(kids, at, back)[at] = back
        /\ \A j \in 1 .. Len(kids) + 1 : /\ j < at => InsertAt(kids, at, back)[j] = kids[j]
                                         /\ j > at => InsertAt(kids, at, back)[j] = kids[j - 1]
    BY <2>1, <2>4, InsertAtElements
  <2>2. /\ k \in Seq(P) /\ Len(k) = Len(kids) + 1 /\ k[i + 1] = back
        /\ \A j \in 1 .. Len(kids) + 1 : /\ j < i + 1 => k[j] = kids[j]
                                         /\ j > i + 1 => k[j] = kids[j - 1]
    BY <2>5 DEF at
  <2> HIDE DEF k
  <2>3. n \in Nat /\ i \in Nat /\ Len(kids) = n + 1
    BY <1>1, <1>2
  <2> QED
    BY <2>2, <2>3
<1> HIDE DEF k
<1>7. /\ np \in InternalPages(P) /\ np.count = n + 1 /\ np.keys = w /\ np.kids = k
      /\ np.next = pg.next /\ np.prev = pg.prev
  <2>1. n + 1 \in 0 .. KeyCapacity /\ w \in [Slots -> Nat] /\ k \in Seq(P)
    BY <1>1, <1>3, <1>5, <1>6
  <2> QED
    BY <1>3, <2>1 DEF InternalPages
<1>8. i > 1 => keys[i - 1] < key
  BY <1>1, <1>2
<1>9. np.count \in Nat /\ Len(np.kids) = np.count + 1
  BY <1>1, <1>6, <1>7
<1>10. \A j \in 1 .. np.count : /\ j < i => np.keys[j] = pg.keys[j]
                                /\ j = i => np.keys[j] = key
                                /\ j > i => np.keys[j] = pg.keys[j - 1]
  BY <1>5, <1>7 DEF keys
<1>11. \A j \in 1 .. np.count + 1 : /\ j <= i => np.kids[j] = pg.kids[j]
                                    /\ j = i + 1 => np.kids[j] = back
                                    /\ j > i + 1 => np.kids[j] = pg.kids[j - 1]
  <2>1. np.count + 1 = n + 2
    BY <1>1, <1>7
  <2> QED
    BY <1>6, <1>7, <2>1 DEF kids
<1>12. i \in 1 .. pg.count + 1 /\ pg.kids[i] = front
       /\ (i > 1 => pg.keys[i - 1] < key) /\ (i <= pg.count => key <= pg.keys[i])
  BY <1>1, <1>2, <1>3, <1>8 DEF n, keys, kids
<1> QED
  BY <1>7, <1>9, <1>10, <1>11, <1>12 DEF n

\* Its first key is the one it had or the one put in.
LEMMA InsertKeyFirst ==
    ASSUME NEW P, NEW pg \in InternalPages(P), Formed(pg), pg.count > 0,
           NEW key \in Nat, NEW front \in P, NEW back \in P,
           InsertKey(pg, key, front, back).status = "ok",
           NEW np, np = InsertKey(pg, key, front, back).page
    PROVE  np.keys[1] = pg.keys[1] \/ np.keys[1] = key
<1>1. pg.count \in Nat
  BY PageShape
<1>2. np.count = pg.count + 1
  <2>1. /\ np \in InternalPages(P) /\ np.count = pg.count + 1
        /\ np.next = pg.next /\ np.prev = pg.prev /\ Len(np.kids) = np.count + 1
    BY InsertKeyWrites
  <2> QED
    BY <2>1
<1>3. PICK i \in 1 .. pg.count + 1 :
         /\ pg.kids[i] = front /\ (i > 1 => pg.keys[i - 1] < key) /\ (i <= pg.count => key <= pg.keys[i])
         /\ \A j \in 1 .. np.count : /\ j < i => np.keys[j] = pg.keys[j]
                                     /\ j = i => np.keys[j] = key
                                     /\ j > i => np.keys[j] = pg.keys[j - 1]
         /\ \A j \in 1 .. np.count + 1 : /\ j <= i => np.kids[j] = pg.kids[j]
                                         /\ j = i + 1 => np.kids[j] = back
                                         /\ j > i + 1 => np.kids[j] = pg.kids[j - 1]
  BY InsertKeyWrites, SMTT(30)
<1>4. 1 \in 1 .. np.count /\ (1 < i \/ 1 = i)
  BY <1>1, <1>2
<1> QED
  BY <1>3, <1>4

\* The page still divides its range: the child that was split keeps what is below
\* the key, the new one has the rest of its share.
LEMMA InsertKeyDivides ==
    ASSUME NEW P, NEW pg \in InternalPages(P), Formed(pg), pg.count > 0,
           NEW key \in Nat, NEW front \in P, NEW back \in P, back \notin Kids(pg),
           InsertKey(pg, key, front, back).status = "ok",
           NEW np, np = InsertKey(pg, key, front, back).page,
           NEW range \in SUBSET Nat, NEW held, NEW new, Divides(pg, range, held),
           new[front] = Below(held[front], key), new[back] = From(held[front], key),
           \A p \in Kids(pg) : p # front => new[p] = held[p]
    PROVE  /\ np \in InternalPages(P) /\ np.count = pg.count + 1
           /\ np.next = pg.next /\ np.prev = pg.prev
           /\ Formed(np) /\ front \in Kids(pg) /\ Kids(np) = Kids(pg) \cup {back}
           /\ Divides(np, range, new)
<1> DEFINE n == pg.count
           keys == pg.keys
           kids == pg.kids
<1>1. /\ n \in Nat /\ n > 0 /\ keys \in [Slots -> Nat] /\ Len(kids) = n + 1
      /\ DOMAIN kids = 1 .. n + 1 /\ \A j \in 1 .. n : keys[j] \in Nat
      /\ \A j, m \in 1 .. n : j < m => keys[j] <= keys[m]
      /\ \A j, m \in 1 .. n + 1 : kids[j] = kids[m] => j = m
      /\ \A j \in 1 .. n + 1 : kids[j] # back
  <2>1. /\ n \in Nat /\ keys \in [Slots -> Nat] /\ \A j \in 1 .. n : keys[j] \in Nat
        /\ DOMAIN kids = 1 .. Len(kids)
    BY PageShape
  <2>2. /\ Len(kids) = n + 1
        /\ \A j, m \in 1 .. n : j < m => keys[j] <= keys[m]
        /\ \A j, m \in DOMAIN kids : kids[j] = kids[m] => j = m
    BY DEF Formed
  <2>3. DOMAIN kids = 1 .. n + 1
    BY <2>1, <2>2
  <2>4. \A j \in DOMAIN kids : kids[j] # back
    BY DEF Kids
  <2>5. n > 0
    BY <2>1
  <2> HIDE DEF n, keys, kids
  <2> QED
    BY <2>1, <2>2, <2>3, <2>4, <2>5
<1>2. PICK i \in 1 .. n + 1 :
         /\ kids[i] = front /\ (i > 1 => keys[i - 1] < key) /\ (i <= n => key <= keys[i])
         /\ \A j \in 1 .. np.count : /\ j < i => np.keys[j] = keys[j]
                                     /\ j = i => np.keys[j] = key
                                     /\ j > i => np.keys[j] = keys[j - 1]
         /\ \A j \in 1 .. np.count + 1 : /\ j <= i => np.kids[j] = kids[j]
                                         /\ j = i + 1 => np.kids[j] = back
                                         /\ j > i + 1 => np.kids[j] = kids[j - 1]
  BY InsertKeyWrites, SMTT(30)
<1>3. /\ np \in InternalPages(P) /\ np.count = n + 1
      /\ np.next = pg.next /\ np.prev = pg.prev /\ Len(np.kids) = n + 2
  <2>1. /\ np \in InternalPages(P) /\ np.count = n + 1
        /\ np.next = pg.next /\ np.prev = pg.prev /\ Len(np.kids) = np.count + 1
    BY InsertKeyWrites
  <2> QED
    BY <1>1, <2>1
<1>4. DOMAIN np.kids = 1 .. n + 2
  BY <1>3, PageShape
<1>5. \A j \in 1 .. n + 1 : held[kids[j]] = Share(range, pg, j)
  BY <1>1 DEF Divides
<1>6. \A j \in 1 .. n + 1 : kids[j] # front => new[kids[j]] = held[kids[j]]
  BY <1>1 DEF Kids
<1>7. \A j \in 1 .. n + 1 : j \in Nat /\ j >= 1 /\ j <= n + 1
  BY <1>1
<1> HIDE DEF n, keys, kids
<1>8. \A j \in 1 .. n + 1 : /\ j < i => np.keys[j] = keys[j]
                            /\ j = i => np.keys[j] = key
                            /\ j > i => np.keys[j] = keys[j - 1]
  BY <1>2, <1>3
<1>9. \A j \in 1 .. n + 2 : /\ j <= i => np.kids[j] = kids[j]
                            /\ j = i + 1 => np.kids[j] = back
                            /\ j > i + 1 => np.kids[j] = kids[j - 1]
  <2>1. np.count + 1 = n + 2
    BY <1>1, <1>3
  <2> QED
    BY <1>2, <2>1
<1>10. \A j, m \in 1 .. n + 1 : j < m => np.keys[j] <= np.keys[m]
  <2> SUFFICES ASSUME NEW j \in 1 .. n + 1, NEW m \in 1 .. n + 1, j < m
               PROVE  np.keys[j] <= np.keys[m]
    OBVIOUS
  <2>1. CASE m < i
    BY <1>1, <1>2, <1>8, <2>1, SMTT(30)
  <2>2. CASE m = i
    <3>1. np.keys[m] = key /\ np.keys[j] = keys[j] /\ i > 1 /\ keys[i - 1] < key
      BY <1>1, <1>2, <1>8, <2>2
    <3>2. keys[j] <= keys[i - 1]
      <4>1. j = i - 1 \/ (j \in 1 .. n /\ i - 1 \in 1 .. n /\ j < i - 1)
        BY <1>1, <2>2
      <4>2. j \in 1 .. n
        BY <1>1
      <4> QED
        BY <1>1, <4>1, <4>2
    <3>3. keys[j] \in Nat /\ keys[i - 1] \in Nat
      BY <1>1, <2>2
    <3> QED
      BY <3>1, <3>2, <3>3
  <2>3. CASE m > i
    <3>1. np.keys[m] = keys[m - 1] /\ m - 1 \in 1 .. n /\ keys[m - 1] \in Nat
      BY <1>1, <1>2, <1>8, <2>3
    <3>2. CASE j < i
      <4>1. np.keys[j] = keys[j] /\ j \in 1 .. n /\ j < m - 1
        BY <1>1, <1>2, <1>8, <2>3, <3>2
      <4> QED
        BY <1>1, <3>1, <4>1
    <3>3. CASE j = i
      <4>1. np.keys[j] = key /\ i \in 1 .. n /\ key <= keys[i] /\ keys[i] \in Nat
        BY <1>1, <1>2, <1>8, <2>3, <3>3
      <4>2. i = m - 1 \/ i < m - 1
        BY <1>1, <2>3
      <4>3. keys[i] <= keys[m - 1]
        BY <1>1, <3>1, <4>1, <4>2
      <4> QED
        BY <3>1, <4>1, <4>3
    <3>4. CASE j > i
      <4>1. np.keys[j] = keys[j - 1] /\ j - 1 \in 1 .. n /\ j - 1 < m - 1
        BY <1>1, <1>2, <1>8, <3>4, SMTT(30)
      <4> QED
        BY <1>1, <3>1, <4>1
    <3> QED
      BY <1>1, <3>2, <3>3, <3>4
  <2> QED
    BY <1>1, <2>1, <2>2, <2>3
<1>11. \A j, m \in 1 .. n + 2 : np.kids[j] = np.kids[m] => j = m
  <2> SUFFICES ASSUME NEW j \in 1 .. n + 2, NEW m \in 1 .. n + 2, j < m
               PROVE  np.kids[j] # np.kids[m]
    <3>1. \A j, m \in 1 .. n + 2 : j < m \/ m < j \/ j = m
      BY <1>1
    <3> QED
      BY <3>1
  <2> DEFINE old(x) == IF x <= i THEN x ELSE x - 1
  <2>1. ASSUME NEW x \in 1 .. n + 2, x # i + 1
        PROVE  old(x) \in 1 .. n + 1 /\ np.kids[x] = kids[old(x)]
    <3>1. CASE x <= i
      BY <1>1, <1>9, <3>1
    <3>2. CASE x > i + 1
      BY <1>1, <1>9, <3>2
    <3> QED
      BY <1>1, <2>1, <3>1, <3>2
  <2>2. CASE j = i + 1
    BY <1>1, <1>9, <2>1, <2>2
  <2>3. CASE m = i + 1
    BY <1>1, <1>9, <2>1, <2>3
  <2>4. CASE j # i + 1 /\ m # i + 1
    <3>1. old(j) # old(m)
      BY <1>1, <2>4
    <3> QED
      BY <1>1, <2>1, <2>4, <3>1
  <2> QED
    BY <2>2, <2>3, <2>4
<1>12. Formed(np)
  BY <1>3, <1>4, <1>10, <1>11, <1>1 DEF Formed
<1>13. front \in Kids(pg) /\ Kids(np) = Kids(pg) \cup {back}
  <2>1. Kids(np) \subseteq Kids(pg) \cup {back}
    <3> SUFFICES ASSUME NEW j \in 1 .. n + 2 PROVE np.kids[j] \in Kids(pg) \cup {back}
      BY <1>4 DEF Kids
    <3>1. CASE j <= i
      BY <1>1, <1>9, <3>1, SMTT(30) DEF Kids, kids
    <3>2. CASE j = i + 1
      BY <1>9, <3>2
    <3>3. CASE j > i + 1
      <4>1. j - 1 \in 1 .. n + 1 /\ np.kids[j] = kids[j - 1]
        BY <1>1, <1>9, <3>3
      <4> QED
        BY <1>1, <4>1 DEF Kids, kids
    <3> QED
      BY <1>1, <3>1, <3>2, <3>3
  <2>2. \A j \in 1 .. n + 1 : kids[j] \in Kids(np)
    <3> TAKE j \in 1 .. n + 1
    <3>1. CASE j <= i
      <4>1. j \in 1 .. n + 2 /\ np.kids[j] = kids[j]
        BY <1>1, <1>9, <3>1
      <4> QED
        BY <1>4, <4>1 DEF Kids
    <3>2. CASE j > i
      <4>1. j + 1 \in 1 .. n + 2 /\ j + 1 > i + 1 /\ (j + 1) - 1 = j
        BY <1>1, <3>2
      <4>2. np.kids[j + 1] = kids[j]
        BY <1>9, <4>1
      <4> QED
        BY <1>4, <4>1, <4>2 DEF Kids
    <3> QED
      BY <1>1, <3>1, <3>2
  <2>3. back \in Kids(np)
    <3>1. i + 1 \in 1 .. n + 2 /\ np.kids[i + 1] = back
      BY <1>1, <1>9
    <3> QED
      BY <1>4, <3>1 DEF Kids
  <2>4. front \in Kids(pg)
    BY <1>1, <1>2 DEF Kids, kids
  <2>5. Kids(pg) \subseteq Kids(np)
    BY <1>1, <2>2 DEF Kids, kids
  <2> QED
    BY <2>1, <2>3, <2>4, <2>5
<1>14. \A j \in 1 .. n + 2 : new[np.kids[j]] = Share(range, np, j)
  <2> TAKE j \in 1 .. n + 2
  <2>0. np.count = n + 1 /\ pg.count = n /\ pg.keys = keys /\ i \in Nat /\ j \in Nat /\ n \in Nat
    BY <1>1, <1>3 DEF n, keys
  <2>1. CASE j < i
    <3>1. j \in 1 .. n + 1 /\ np.kids[j] = kids[j] /\ kids[j] # front
      BY <1>1, <1>2, <1>9, <2>1
    <3>2. (j > 1 => np.keys[j - 1] = keys[j - 1]) /\ np.keys[j] = keys[j] /\ j <= n
      BY <1>1, <1>8, <2>1
    <3>3. Share(range, np, j) = Share(range, pg, j)
      BY <2>0, <3>2 DEF Share
    <3> QED
      BY <1>5, <1>6, <3>1, <3>3
  <2>2. CASE j = i
    <3>1. np.kids[j] = front /\ held[front] = Share(range, pg, i)
      BY <1>2, <1>5, <1>9, <2>2
    <3>2. (i > 1 => np.keys[i - 1] = keys[i - 1]) /\ np.keys[i] = key
      <4>1. i > 1 => i - 1 \in 1 .. n + 1 /\ i - 1 < i
        BY <1>1
      <4> QED
        BY <1>8, <4>1
    <3>3. i <= n => key <= keys[i] /\ keys[i] \in Nat
      BY <1>1, <1>2
    <3>4. Share(range, np, i) = Below(Share(range, pg, i), key)
      <4>1. \A k \in range : k \in Share(range, np, i)
                               <=> (i > 1 => keys[i - 1] <= k) /\ k < key
        BY <1>1, <2>0, <3>2 DEF Share
      <4>2. \A k \in range : k \in Share(range, pg, i)
                               <=> (i > 1 => keys[i - 1] <= k) /\ (i <= n => k < keys[i])
        BY <2>0 DEF Share
      <4>3. \A k \in range : k < key => (i <= n => k < keys[i])
        BY <3>3
      <4>4. Share(range, np, i) \subseteq range /\ Share(range, pg, i) \subseteq range
        BY DEF Share
      <4> QED
        BY <4>1, <4>2, <4>3, <4>4 DEF Below
    <3> QED
      BY <2>2, <3>1, <3>4
  <2>3. CASE j = i + 1
    <3>1. np.kids[j] = back /\ held[front] = Share(range, pg, i)
      BY <1>2, <1>5, <1>9, <2>3
    <3>2. np.keys[i] = key /\ (j <= n + 1 => np.keys[j] = keys[i])
      BY <1>1, <1>8, <2>3
    <3>3. i > 1 => keys[i - 1] < key /\ keys[i - 1] \in Nat
      BY <1>1, <1>2
    <3>4. Share(range, np, j) = From(Share(range, pg, i), key)
      <4>1. j > 1 /\ j - 1 = i /\ (j <= n + 1 <=> i <= n)
        BY <1>1, <2>3
      <4>2. \A k \in range : k \in Share(range, np, j) <=> key <= k /\ (i <= n => k < keys[i])
        BY <2>0, <3>2, <4>1 DEF Share
      <4>3. \A k \in range : k \in Share(range, pg, i)
                               <=> (i > 1 => keys[i - 1] <= k) /\ (i <= n => k < keys[i])
        BY <2>0 DEF Share
      <4>4. \A k \in range : key <= k => (i > 1 => keys[i - 1] <= k)
        <5> TAKE k \in range
        <5>1. k \in Nat
          OBVIOUS
        <5> QED
          BY <3>3, <5>1
      <4>5. Share(range, np, j) \subseteq range /\ Share(range, pg, i) \subseteq range
        BY DEF Share
      <4> QED
        BY <4>2, <4>3, <4>4, <4>5 DEF From
    <3> QED
      BY <3>1, <3>4
  <2>4. CASE j > i + 1
    <3>1. j - 1 \in 1 .. n + 1 /\ np.kids[j] = kids[j - 1] /\ kids[j - 1] # front
      BY <1>1, <1>2, <1>9, <2>4
    <3>2. np.keys[j - 1] = keys[j - 2] /\ (j <= n + 1 => np.keys[j] = keys[j - 1])
      <4>1. j - 1 \in 1 .. n + 1 /\ j - 1 > i /\ (j - 1) - 1 = j - 2
        BY <1>1, <2>4
      <4>2. np.keys[j - 1] = keys[(j - 1) - 1]
        BY <1>8, <4>1
      <4> QED
        BY <1>1, <1>8, <2>4, <4>1, <4>2, SMTT(30)
    <3>3. Share(range, np, j) = Share(range, pg, j - 1)
      <4>1. j > 1 /\ j - 1 > 1 /\ (j - 1) - 1 = j - 2 /\ (j <= n + 1 <=> j - 1 <= n)
        BY <1>1, <2>4
      <4> QED
        BY <2>0, <3>2, <4>1 DEF Share
    <3> QED
      BY <1>5, <1>6, <3>1, <3>3
  <2> QED
    BY <1>1, <2>1, <2>2, <2>3, <2>4
<1> QED
  BY <1>3, <1>4, <1>12, <1>13, <1>14 DEF Divides, n

\* A new root has the two halves of what was split.
LEMMA NewPageDivides ==
    ASSUME NEW P, NEW pg \in InternalPages(P), pg.count = 0,
           NEW key \in Nat, NEW front \in P, NEW back \in P,
           front # back, NEW np, np = InsertKey(pg, key, front, back).page,
           NEW range \in SUBSET Nat, NEW new,
           new[front] = Below(range, key), new[back] = From(range, key)
    PROVE  /\ np \in InternalPages(P) /\ np.count = 1
           /\ Formed(np) /\ Divides(np, range, new)
           /\ Len(np.kids) = 2 /\ np.kids[1] = front /\ np.kids[2] = back
<1> DEFINE w == [pg.keys EXCEPT ![1] = key]
<1>1. KeyCapacity \in Nat /\ KeyCapacity >= 8 /\ 1 \in Slots
  BY InternalPageAssumption DEF Slots
<1>2. pg.keys \in [Slots -> Nat]
  BY PageShape
<1>3. InsertKey(pg, key, front, back)
        = Ok([pg EXCEPT !.count = 1, !.keys = w, !.kids = <<front, back>>])
  <2>1. pg.count # KeyCapacity
    BY <1>1
  <2> QED
    BY <2>1 DEF InsertKey
<1>4. w \in [Slots -> Nat] /\ w[1] = key
  BY <1>1, <1>2
<1>5. <<front, back>> \in Seq(P) /\ 1 \in 0 .. KeyCapacity
  BY <1>1
<1>6. np = [pg EXCEPT !.count = 1, !.keys = w, !.kids = <<front, back>>]
  BY <1>3 DEF Ok
<1> HIDE DEF w
<1>7. np \in InternalPages(P) /\ np.count = 1 /\ np.keys = w /\ np.kids = <<front, back>>
  BY <1>2, <1>4, <1>5, <1>6 DEF InternalPages
<1>8. DOMAIN np.kids = 1 .. 2 /\ Len(np.kids) = 2 /\ np.kids[1] = front /\ np.kids[2] = back
  BY <1>7
<1>9. Formed(np)
  <2>1. \A i, j \in 1 .. 1 : ~ (i < j)
    OBVIOUS
  <2>2. \A i \in 1 .. 2 : i = 1 \/ i = 2
    OBVIOUS
  <2>3. \A i, j \in DOMAIN np.kids : np.kids[i] = np.kids[j] => i = j
    BY <1>8, <2>2
  <2>4. \A i, j \in 1 .. np.count : ~ (i < j)
    BY <1>7, <2>1
  <2>5. Len(np.kids) = np.count + 1
    <3>1. Len(np.kids) = 2 /\ np.count = 1
      BY <1>7, <1>8
    <3> QED
      BY ONLY <3>1
  <2> QED
    BY <2>3, <2>4, <2>5 DEF Formed
<1>10. Share(range, np, 1) = Below(range, key) /\ Share(range, np, 2) = From(range, key)
  BY <1>4, <1>7 DEF Share, Below, From
<1>11. Divides(np, range, new)
  <2> SUFFICES ASSUME NEW i \in 1 .. 2 PROVE new[np.kids[i]] = Share(range, np, i)
    BY <1>8 DEF Divides
  <2>1. i = 1 \/ i = 2
    OBVIOUS
  <2> QED
    BY <1>8, <1>10, <2>1
<1> QED
  BY <1>7, <1>8, <1>9, <1>11

\* Two neighbours together hold what lies between the keys around them.
LEMMA PairShare ==
    ASSUME NEW P, NEW pg \in InternalPages(P), Formed(pg), NEW i \in 1 .. pg.count,
           NEW range \in SUBSET Nat
    PROVE  \A k \in range :
              k \in Share(range, pg, i) \cup Share(range, pg, i + 1)
                <=> (i > 1 => pg.keys[i - 1] <= k) /\ (i < pg.count => k < pg.keys[i + 1])
<1> DEFINE n == pg.count
           keys == pg.keys
<1>1. /\ n \in Nat /\ \A j \in 1 .. n : keys[j] \in Nat
      /\ \A j, m \in 1 .. n : j < m => keys[j] <= keys[m]
  BY PageShape DEF Formed
<1> TAKE k \in range
<1>2. k \in Nat /\ i \in Nat /\ i >= 1 /\ i <= n
  BY <1>1
<1>3. k \in Share(range, pg, i) <=> (i > 1 => keys[i - 1] <= k) /\ k < keys[i]
  BY <1>2 DEF Share
<1>4. k \in Share(range, pg, i + 1) <=> keys[i] <= k /\ (i < n => k < keys[i + 1])
  <2>1. i + 1 > 1 /\ (i + 1) - 1 = i /\ (i + 1 <= n <=> i < n)
    BY <1>1, <1>2
  <2> QED
    BY <2>1 DEF Share
<1> HIDE DEF n, keys
<1>5. keys[i] \in Nat
  BY <1>1, <1>2
<1>6. i > 1 => keys[i - 1] \in Nat /\ keys[i - 1] <= keys[i]
  <2>1. i > 1 => i - 1 \in 1 .. n /\ i \in 1 .. n /\ i - 1 < i
    BY <1>1, <1>2
  <2> QED
    BY <1>1, <2>1
<1>7. i < n => keys[i + 1] \in Nat /\ keys[i] <= keys[i + 1]
  <2>1. i < n => i + 1 \in 1 .. n /\ i \in 1 .. n /\ i < i + 1
    BY <1>1, <1>2
  <2> QED
    BY <1>1, <2>1
<1>8. (i > 1 => keys[i - 1] <= k) /\ (i < n => k < keys[i + 1])
      <=> \/ (i > 1 => keys[i - 1] <= k) /\ k < keys[i]
          \/ keys[i] <= k /\ (i < n => k < keys[i + 1])
  <2>1. CASE k < keys[i]
    <3>1. i < n => k < keys[i + 1]
      BY <1>2, <1>5, <1>7, <2>1
    <3>2. ~(keys[i] <= k)
      BY <1>2, <1>5, <2>1
    <3> QED
      BY <2>1, <3>1, <3>2
  <2>2. CASE keys[i] <= k
    <3>1. i > 1 => keys[i - 1] <= k
      BY <1>2, <1>5, <1>6, <2>2
    <3>2. ~(k < keys[i])
      BY <1>2, <1>5, <2>2
    <3> QED
      BY <2>2, <3>1, <3>2
  <2> QED
    BY <1>2, <1>5, <2>1, <2>2
<1> QED
  BY <1>3, <1>4, <1>8 DEF n, keys

\* search(front, back, key) finds neighbours.
LEMMA PairFound ==
    ASSUME NEW P, NEW pg \in InternalPages(P), Formed(pg), NEW front, NEW back,
           PairPosition(pg, front, back) # 0
    PROVE  /\ PairPosition(pg, front, back) \in 1 .. pg.count
           /\ pg.kids[PairPosition(pg, front, back)] = front
           /\ pg.kids[PairPosition(pg, front, back) + 1] = back
<1> DEFINE s == SubSeq(pg.kids, 1, pg.count)
           i == KidPosition(s, front)
<1>1. pg.count \in Nat /\ pg.kids \in Seq(P) /\ Len(pg.kids) = pg.count + 1
  BY PageShape DEF Formed
<1>2. s \in Seq(P) /\ DOMAIN s = 1 .. pg.count /\ \A j \in 1 .. pg.count : s[j] = pg.kids[j]
  BY <1>1
<1>3. i # 0 /\ pg.kids[i + 1] = back /\ PairPosition(pg, front, back) = i
  BY DEF PairPosition
<1> HIDE DEF s
<1>4. i \in DOMAIN s /\ s[i] = front
  BY <1>2, <1>3, KidFound
<1> QED
  BY <1>2, <1>3, <1>4

\* update moves the key between two neighbours: what they hold together is shared
\* out anew, and nothing else changes.
LEMMA UpdateKeyDivides ==
    ASSUME NEW P, NEW pg \in InternalPages(P), Formed(pg), NEW key \in Nat, NEW front, NEW back,
           UpdateKey(pg, key, front, back).status = "ok",
           NEW np, np = UpdateKey(pg, key, front, back).page,
           NEW range \in SUBSET Nat, NEW held, NEW new, Divides(pg, range, held),
           key \in held[front] \cup held[back],
           new[front] = Below(held[front] \cup held[back], key),
           new[back] = From(held[front] \cup held[back], key),
           \A p \in Kids(pg) : p # front /\ p # back => new[p] = held[p]
    PROVE  /\ np \in InternalPages(P) /\ np.count = pg.count /\ np.kids = pg.kids
           /\ np.next = pg.next /\ np.prev = pg.prev /\ pg.count > 0
           /\ Formed(np) /\ Divides(np, range, new)
<1> DEFINE n == pg.count
           keys == pg.keys
           kids == pg.kids
           i == PairPosition(pg, front, back)
           w == [keys EXCEPT ![i] = key]
<1>1. /\ n \in Nat /\ keys \in [Slots -> Nat] /\ Len(kids) = n + 1 /\ kids \in Seq(P)
      /\ DOMAIN kids = 1 .. n + 1 /\ \A j \in 1 .. n : keys[j] \in Nat /\ j \in Slots
      /\ \A j, m \in 1 .. n : j < m => keys[j] <= keys[m]
      /\ \A j, m \in 1 .. n + 1 : kids[j] = kids[m] => j = m
  BY PageShape, SMTT(30) DEF Formed
<1>2. i # 0 /\ np = [pg EXCEPT !.keys = w]
  BY DEF UpdateKey, Failed, Ok
<1>3. i \in 1 .. n /\ kids[i] = front /\ kids[i + 1] = back
  BY <1>2, PairFound
<1> HIDE DEF i
<1>4. w \in [Slots -> Nat] /\ w[i] = key /\ \A j \in 1 .. n : j # i => w[j] = keys[j]
  BY <1>1, <1>3
<1>5. /\ np \in InternalPages(P) /\ np.count = n /\ np.kids = kids /\ np.keys = w
      /\ np.next = pg.next /\ np.prev = pg.prev
  BY <1>2, <1>4 DEF InternalPages
<1>6. \A j \in 1 .. n + 1 : held[kids[j]] = Share(range, pg, j)
  BY <1>1 DEF Divides
<1>7. \A j \in 1 .. n + 1 : kids[j] # front /\ kids[j] # back => new[kids[j]] = held[kids[j]]
  BY <1>1 DEF Kids
<1>8. \A k \in range : k \in held[front] \cup held[back]
                         <=> (i > 1 => keys[i - 1] <= k) /\ (i < n => k < keys[i + 1])
  <2>1. i \in 1 .. n + 1 /\ i + 1 \in 1 .. n + 1
    BY <1>1, <1>3
  <2>2. held[front] = Share(range, pg, i) /\ held[back] = Share(range, pg, i + 1)
    BY <1>3, <1>6, <2>1
  <2> QED
    BY <1>3, <2>2, PairShare
<1>9. held[front] \cup held[back] \subseteq range
  <2>1. i \in 1 .. n + 1 /\ i + 1 \in 1 .. n + 1
    BY <1>1, <1>3
  <2> QED
    BY <1>3, <1>6, <2>1 DEF Share
<1>10. key \in range /\ (i > 1 => keys[i - 1] <= key) /\ (i < n => key < keys[i + 1])
  BY <1>8, <1>9
<1>11. pg.count = n /\ pg.keys = keys /\ n \in Nat /\ n > 0 /\ i \in Nat /\ i >= 1 /\ i <= n
  BY <1>1, <1>3
<1> HIDE DEF w, n, keys, kids
<1>12. \A j, m \in 1 .. n : j < m => w[j] <= w[m]
  <2> SUFFICES ASSUME NEW j \in 1 .. n, NEW m \in 1 .. n, j < m PROVE w[j] <= w[m]
    OBVIOUS
  <2>1. CASE j = i
    <3>1. i < n /\ i + 1 \in 1 .. n /\ (m = i + 1 \/ i + 1 < m)
      BY <1>1, <2>1
    <3>2. keys[i + 1] <= keys[m] /\ keys[i + 1] \in Nat /\ keys[m] \in Nat
      BY <1>1, <3>1
    <3> QED
      BY <1>4, <1>10, <2>1, <3>1, <3>2
  <2>2. CASE m = i
    <3>1. i > 1 /\ i - 1 \in 1 .. n /\ (j = i - 1 \/ j < i - 1)
      BY <1>1, <1>11, <2>2
    <3>2. keys[j] <= keys[i - 1] /\ keys[i - 1] \in Nat /\ keys[j] \in Nat
      BY <1>1, <3>1
    <3>3. w[m] = key /\ w[j] = keys[j] /\ keys[i - 1] <= key
      BY <1>4, <1>10, <1>11, <2>2, <3>1
    <3> QED
      BY <3>2, <3>3
  <2>3. CASE j # i /\ m # i
    BY <1>1, <1>4, <2>3
  <2> QED
    BY <2>1, <2>2, <2>3
<1>13. Formed(np)
  <2>1. np.kids = pg.kids /\ np.count = pg.count
    BY <1>5 DEF n, kids
  <2> QED
    BY <1>5, <1>12, <2>1 DEF Formed
<1>14. \A j \in 1 .. n + 1 : new[kids[j]] = Share(range, np, j)
  <2> TAKE j \in 1 .. n + 1
  <2>0. np.count = n /\ np.keys = w /\ j \in Nat /\ j >= 1 /\ j <= n + 1
    BY <1>1, <1>5
  <2>1. CASE j = i
    <3>1. \A k \in range : k \in Share(range, np, j) <=> (i > 1 => w[i - 1] <= k) /\ k < key
      BY <1>4, <1>11, <2>0, <2>1 DEF Share
    <3>2. i > 1 => w[i - 1] = keys[i - 1]
      <4>1. i > 1 => i - 1 \in 1 .. n /\ i - 1 # i
        BY <1>11
      <4> QED
        BY <1>4, <4>1
    <3>3. \A k \in range : k < key => (i < n => k < keys[i + 1])
      <4> TAKE k \in range
      <4>1. k \in Nat /\ (i < n => i + 1 \in 1 .. n)
        <5>1. i < n => i + 1 \in 1 .. n
          BY <1>11
        <5>2. k \in Nat
          OBVIOUS
        <5> QED
          BY <5>1, <5>2
      <4>2. i < n => keys[i + 1] \in Nat
        BY <1>1, <4>1
      <4> QED
        BY <1>10, <4>1, <4>2
    <3>4. Share(range, np, j) \subseteq range
      BY DEF Share
    <3>5. Share(range, np, j) = Below(held[front] \cup held[back], key)
      BY <1>8, <1>9, <3>1, <3>2, <3>3, <3>4 DEF Below
    <3> QED
      BY <1>3, <2>1, <3>5
  <2>2. CASE j = i + 1
    <3>1. \A k \in range : k \in Share(range, np, j) <=> key <= k /\ (i < n => k < w[i + 1])
      <4>1. j > 1 /\ j - 1 = i /\ (j <= n <=> i < n)
        BY <1>11, <2>0, <2>2
      <4> QED
        BY <1>4, <2>0, <2>2, <4>1 DEF Share
    <3>2. i < n => w[i + 1] = keys[i + 1]
      <4>1. i < n => i + 1 \in 1 .. n /\ i + 1 # i
        BY <1>11
      <4> QED
        BY <1>4, <4>1
    <3>3. \A k \in range : key <= k => (i > 1 => keys[i - 1] <= k)
      <4> TAKE k \in range
      <4>1. k \in Nat /\ (i > 1 => i - 1 \in 1 .. n)
        <5>1. i > 1 => i - 1 \in 1 .. n
          BY <1>11
        <5>2. k \in Nat
          OBVIOUS
        <5> QED
          BY <5>1, <5>2
      <4>2. i > 1 => keys[i - 1] \in Nat
        BY <1>1, <4>1
      <4> QED
        BY <1>10, <4>1, <4>2
    <3>4. Share(range, np, j) \subseteq range
      BY DEF Share
    <3>5. Share(range, np, j) = From(held[front] \cup held[back], key)
      BY <1>8, <1>9, <3>1, <3>2, <3>3, <3>4 DEF From
    <3> QED
      BY <1>3, <2>2, <3>5
  <2>3. CASE j # i /\ j # i + 1
    <3>1. kids[j] # front /\ kids[j] # back
      <4>1. i \in 1 .. n + 1 /\ i + 1 \in 1 .. n + 1
        BY <1>11
      <4> QED
        BY <1>1, <1>3, <2>3, <4>1
    <3>2. (j > 1 => w[j - 1] = keys[j - 1]) /\ (j <= n => w[j] = keys[j])
      <4>1. (j > 1 => j - 1 \in 1 .. n /\ j - 1 # i) /\ (j <= n => j \in 1 .. n)
        BY <1>11, <2>0, <2>3
      <4> QED
        BY <1>4, <2>3, <4>1
    <3>3. Share(range, np, j) = Share(range, pg, j)
      BY <1>11, <2>0, <3>2 DEF Share
    <3> QED
      BY <1>6, <1>7, <3>1, <3>3
  <2> QED
    BY <2>1, <2>2, <2>3
<1>15. Divides(np, range, new)
  <2>1. DOMAIN np.kids = 1 .. n + 1
    BY <1>1, <1>5
  <2> QED
    BY <1>5, <1>14, <2>1 DEF Divides
<1> QED
  BY <1>5, <1>11, <1>13, <1>15 DEF n, kids

\* remove takes out a child and the key before it.
LEMMA RemoveKidWrites ==
    ASSUME NEW P, NEW pg \in InternalPages(P), Formed(pg), NEW i \in 1 .. pg.count,
           NEW np, np = RemoveKid(pg, pg.kids[i + 1]).page
    PROVE  /\ RemoveKid(pg, pg.kids[i + 1]).status = "ok"
           /\ np \in InternalPages(P) /\ np.count = pg.count - 1
           /\ np.next = pg.next /\ np.prev = pg.prev /\ Len(np.kids) = pg.count
           /\ \A j \in 1 .. pg.count - 1 : /\ j < i => np.keys[j] = pg.keys[j]
                                           /\ j >= i => np.keys[j] = pg.keys[j + 1]
           /\ \A j \in 1 .. pg.count : /\ j <= i => np.kids[j] = pg.kids[j]
                                       /\ j > i => np.kids[j] = pg.kids[j + 1]
<1> DEFINE n == pg.count
           keys == pg.keys
           kids == pg.kids
           at == KidPosition(kids, kids[i + 1])
           s == SubSeq(keys, at, n)
           w == Overwrite(keys, at - 1, s)
           k == RemoveAt(kids, at)
<1>1. /\ n \in Nat /\ n <= KeyCapacity /\ KeyCapacity \in Nat
      /\ keys \in [Slots -> Nat] /\ kids \in Seq(P) /\ Len(kids) = n + 1
      /\ DOMAIN kids = 1 .. n + 1 /\ \A j, m \in DOMAIN kids : kids[j] = kids[m] => j = m
  BY PageShape DEF Formed
<1>2. i \in Nat /\ i >= 1 /\ i <= n /\ i + 1 \in 1 .. n + 1
  BY <1>1
<1>3. at = i + 1
  <2>1. \E m \in DOMAIN kids : kids[m] = kids[i + 1]
    BY <1>1, <1>2
  <2>2. at \in DOMAIN kids /\ kids[at] = kids[i + 1]
    <3> HIDE DEF kids
    <3> QED
      BY <1>1, <2>1, KidFound
  <2> QED
    BY <1>1, <1>2, <2>2
<1>4. RemoveKid(pg, kids[i + 1]) = Ok([pg EXCEPT !.count = n - 1, !.keys = w, !.kids = k])
  <2>1. at # 1 /\ at # 0
    BY <1>2, <1>3
  <2> HIDE DEF at
  <2> QED
    BY <2>1 DEF RemoveKid, at
<1>5. np = [pg EXCEPT !.count = n - 1, !.keys = w, !.kids = k]
      /\ RemoveKid(pg, kids[i + 1]).status = "ok"
  BY <1>4 DEF Ok
<1> HIDE DEF n, keys, kids, at
<1>6. s \in Seq(Nat) /\ Len(s) = n - i /\ \A j \in 1 .. n - i : s[j] = keys[i + j]
  <2>1. at \in Nat \ {0} /\ at <= n + 1 /\ n + 1 - at = n - i
    BY <1>1, <1>2, <1>3
  <2>2. s \in Seq(Nat) /\ Len(s) = n + 1 - at /\ \A j \in 1 .. n + 1 - at : s[j] = keys[at + j - 1]
    <3>1. keys \in [Slots -> Nat] /\ at \in Nat \ {0} /\ n \in Nat /\ n <= KeyCapacity /\ at <= n + 1
      BY <1>1, <2>1
    <3> QED
      BY <3>1, SlotsRead
  <2> HIDE DEF s
  <2>3. \A j \in 1 .. n - i : at + j - 1 = i + j
    BY <1>1, <1>2, <1>3
  <2> QED
    BY <2>1, <2>2, <2>3
<1> HIDE DEF s
<1>7. w \in [Slots -> Nat] /\ \A j \in 1 .. n - 1 : /\ j < i => w[j] = keys[j]
                                                    /\ j >= i => w[j] = keys[j + 1]
  <2>1. at - 1 = i /\ i \in Nat \ {0}
    BY <1>1, <1>2, <1>3
  <2>2. /\ w \in [Slots -> Nat]
        /\ \A j \in Slots : /\ j < i => w[j] = keys[j]
                            /\ i <= j /\ j - i < Len(s) => w[j] = s[j - i + 1]
    <3>1. /\ Overwrite(keys, i, s) \in [Slots -> Nat]
          /\ \A j \in Slots : /\ j < i => Overwrite(keys, i, s)[j] = keys[j]
                              /\ i <= j /\ j - i < Len(s) => Overwrite(keys, i, s)[j] = s[j - i + 1]
      <4>1. keys \in [Slots -> Nat] /\ i \in Nat \ {0} /\ s \in Seq(Nat)
        BY <1>1, <1>6, <2>1
      <4> QED
        BY <4>1, Overwritten
    <3>2. w = Overwrite(keys, i, s)
      BY <2>1
    <3> QED
      BY <3>1, <3>2
  <2> SUFFICES ASSUME NEW j \in 1 .. n - 1
               PROVE  /\ j < i => w[j] = keys[j]
                      /\ j >= i => w[j] = keys[j + 1]
    BY <2>2
  <2>3. j \in Slots /\ j \in Nat
    BY <1>1 DEF Slots
  <2>4. i <= j => j - i < Len(s) /\ j - i + 1 \in 1 .. n - i /\ i + (j - i + 1) = j + 1
    BY <1>1, <1>2, <1>6, SMTT(30)
  <2>5. i <= j => s[j - i + 1] = keys[j + 1]
    BY <1>6, <2>4
  <2>6. j >= i <=> i <= j
    BY <1>2, <2>3
  <2> QED
    BY <2>2, <2>3, <2>4, <2>5, <2>6
<1> HIDE DEF w
<1>8. k \in Seq(P) /\ Len(k) = n /\ \A j \in 1 .. n : /\ j <= i => k[j] = kids[j]
                                                      /\ j > i => k[j] = kids[j + 1]
  <2>1. at \in 1 .. Len(kids)
    BY <1>1, <1>2, <1>3
  <2>2. /\ k \in Seq(P) /\ Len(k) = Len(kids) - 1
        /\ \A j \in 1 .. Len(kids) - 1 : /\ j < at => k[j] = kids[j]
                                         /\ j >= at => k[j] = kids[j + 1]
    <3>1. kids \in Seq(P) /\ at \in 1 .. Len(kids)
      BY <1>1, <2>1
    <3> QED
      BY <3>1, RemoveAtElements
  <2> HIDE DEF k
  <2>3. Len(kids) - 1 = n /\ \A j \in 1 .. n : (j <= i <=> j < at) /\ (j > i <=> j >= at)
    BY <1>1, <1>2, <1>3
  <2> QED
    BY <2>2, <2>3
<1> HIDE DEF k
<1>9. /\ np \in InternalPages(P) /\ np.count = n - 1 /\ np.keys = w /\ np.kids = k
      /\ np.next = pg.next /\ np.prev = pg.prev
  <2>1. n - 1 \in 0 .. KeyCapacity /\ w \in [Slots -> Nat] /\ k \in Seq(P)
    BY <1>1, <1>2, <1>7, <1>8
  <2> QED
    BY <1>5, <2>1 DEF InternalPages
<1> QED
  BY <1>5, <1>7, <1>8, <1>9 DEF n, keys, kids

\* The neighbour in front takes over the share of the child that goes.
LEMMA RemoveKidDivides ==
    ASSUME NEW P, NEW pg \in InternalPages(P), Formed(pg), NEW i \in 1 .. pg.count,
           NEW np, np = RemoveKid(pg, pg.kids[i + 1]).page,
           NEW range \in SUBSET Nat, NEW held, NEW new, Divides(pg, range, held),
           new[pg.kids[i]] = held[pg.kids[i]] \cup held[pg.kids[i + 1]],
           \A p \in Kids(pg) : p # pg.kids[i] /\ p # pg.kids[i + 1] => new[p] = held[p]
    PROVE  /\ np \in InternalPages(P) /\ np.count = pg.count - 1
           /\ np.next = pg.next /\ np.prev = pg.prev
           /\ Formed(np) /\ Kids(np) = Kids(pg) \ {pg.kids[i + 1]} /\ Divides(np, range, new)
<1> DEFINE n == pg.count
           keys == pg.keys
           kids == pg.kids
<1>1. /\ n \in Nat /\ keys \in [Slots -> Nat] /\ Len(kids) = n + 1
      /\ DOMAIN kids = 1 .. n + 1 /\ \A j \in 1 .. n : keys[j] \in Nat
      /\ \A j, m \in 1 .. n : j < m => keys[j] <= keys[m]
      /\ \A j, m \in 1 .. n + 1 : kids[j] = kids[m] => j = m
  BY PageShape, SMTT(30) DEF Formed
<1>2. /\ np \in InternalPages(P) /\ np.count = n - 1
      /\ np.next = pg.next /\ np.prev = pg.prev /\ Len(np.kids) = n
      /\ \A j \in 1 .. n - 1 : /\ j < i => np.keys[j] = keys[j]
                               /\ j >= i => np.keys[j] = keys[j + 1]
      /\ \A j \in 1 .. n : /\ j <= i => np.kids[j] = kids[j]
                           /\ j > i => np.kids[j] = kids[j + 1]
  BY RemoveKidWrites, SMTT(30)
<1>3. i \in Nat /\ i >= 1 /\ i <= n /\ i \in 1 .. n + 1 /\ i + 1 \in 1 .. n + 1
  BY <1>1
<1>4. DOMAIN np.kids = 1 .. n
  BY <1>2, PageShape
<1>5. \A j \in 1 .. n + 1 : held[kids[j]] = Share(range, pg, j)
  BY <1>1 DEF Divides
<1>6. \A j \in 1 .. n + 1 : kids[j] # kids[i] /\ kids[j] # kids[i + 1] => new[kids[j]] = held[kids[j]]
  BY <1>1 DEF Kids
<1>7. new[kids[i]] = held[kids[i]] \cup held[kids[i + 1]]
  OBVIOUS
<1>8. \A k \in range : k \in Share(range, pg, i) \cup Share(range, pg, i + 1)
                         <=> (i > 1 => keys[i - 1] <= k) /\ (i < n => k < keys[i + 1])
  BY PairShare
<1>9. pg.count = n /\ pg.keys = keys /\ pg.kids = kids
  OBVIOUS
<1> HIDE DEF n, keys, kids
<1>10. Kids(np) = Kids(pg) \ {kids[i + 1]}
  <2>0. Kids(pg) = {kids[j] : j \in 1 .. n + 1} /\ Kids(np) = {np.kids[j] : j \in 1 .. n}
    BY <1>1, <1>4, <1>9, SMTT(30) DEF Kids
  <2>1. \A j \in 1 .. n : np.kids[j] \in Kids(pg) /\ np.kids[j] # kids[i + 1]
    <3> TAKE j \in 1 .. n
    <3>1. CASE j <= i
      <4>1. j \in 1 .. n + 1 /\ j # i + 1 /\ np.kids[j] = kids[j]
        BY <1>2, <1>3, <3>1
      <4> QED
        BY <1>1, <1>3, <2>0, <4>1
    <3>2. CASE j > i
      <4>1. j + 1 \in 1 .. n + 1 /\ j + 1 # i + 1 /\ np.kids[j] = kids[j + 1]
        BY <1>2, <1>3, <3>2
      <4> QED
        BY <1>1, <1>3, <2>0, <4>1
    <3> QED
      BY <1>3, <3>1, <3>2
  <2>2. \A j \in 1 .. n + 1 : kids[j] # kids[i + 1] => kids[j] \in Kids(np)
    <3> SUFFICES ASSUME NEW j \in 1 .. n + 1, j # i + 1 PROVE kids[j] \in Kids(np)
      BY <1>3
    <3>0. j # i + 1
      OBVIOUS
    <3>1. CASE j <= i
      <4>1. j \in 1 .. n /\ np.kids[j] = kids[j]
        BY <1>2, <1>3, <3>1
      <4> QED
        BY <2>0, <4>1
    <3>2. CASE j > i
      <4>1. j - 1 \in 1 .. n /\ j - 1 > i /\ (j - 1) + 1 = j
        BY <1>1, <1>3, <3>0, <3>2
      <4>2. np.kids[j - 1] = kids[j]
        BY <1>2, <4>1
      <4> QED
        BY <2>0, <4>1, <4>2
    <3> QED
      BY <1>3, <3>1, <3>2
  <2>3. Kids(np) \subseteq Kids(pg) \ {kids[i + 1]}
    BY <2>0, <2>1
  <2>4. Kids(pg) \ {kids[i + 1]} \subseteq Kids(np)
    BY <2>0, <2>2
  <2> QED
    BY <2>3, <2>4
<1>11. \A j, m \in 1 .. n - 1 : j < m => np.keys[j] <= np.keys[m]
  <2> SUFFICES ASSUME NEW j \in 1 .. n - 1, NEW m \in 1 .. n - 1, j < m
               PROVE  np.keys[j] <= np.keys[m]
    OBVIOUS
  <2> DEFINE old(x) == IF x < i THEN x ELSE x + 1
  <2>1. ASSUME NEW x \in 1 .. n - 1 PROVE old(x) \in 1 .. n /\ np.keys[x] = keys[old(x)]
    BY <1>1, <1>2, <1>3, SMTT(30)
  <2>2. old(j) < old(m)
    BY <1>1, <1>3
  <2> HIDE DEF old
  <2> QED
    BY <1>1, <2>1, <2>2, SMTT(30)
<1>12. \A j, m \in 1 .. n : np.kids[j] = np.kids[m] => j = m
  <2> DEFINE old(x) == IF x <= i THEN x ELSE x + 1
  <2>1. ASSUME NEW x \in 1 .. n PROVE old(x) \in 1 .. n + 1 /\ np.kids[x] = kids[old(x)]
    BY <1>1, <1>2, <1>3, SMTT(30)
  <2>2. \A j, m \in 1 .. n : old(j) = old(m) => j = m
    BY <1>1, <1>3
  <2> HIDE DEF old
  <2> QED
    BY <1>1, <2>1, <2>2
<1>13. Formed(np)
  <2>1. Len(np.kids) = np.count + 1
    BY <1>1, <1>2, SMTT(30)
  <2> QED
    BY <1>2, <1>4, <1>11, <1>12, <2>1 DEF Formed
<1>14. \A j \in 1 .. n : new[np.kids[j]] = Share(range, np, j)
  <2> TAKE j \in 1 .. n
  <2>0. np.count = n - 1 /\ j \in Nat /\ j >= 1 /\ j <= n /\ n \in Nat
    BY <1>1, <1>2, SMTT(30)
  <2>1. CASE j < i
    <3>1. (j > 1 => np.keys[j - 1] = keys[j - 1]) /\ np.keys[j] = keys[j] /\ j <= n - 1
      <4>1. j \in 1 .. n - 1 /\ (j > 1 => j - 1 \in 1 .. n - 1 /\ j - 1 < i)
        BY <1>3, <2>0, <2>1
      <4> QED
        BY <1>2, <2>1, <4>1
    <3>2. Share(range, np, j) = Share(range, pg, j)
      <4>1. j <= n
        BY <2>0
      <4> QED
        BY <1>9, <2>0, <3>1, <4>1 DEF Share
    <3>3. j \in 1 .. n + 1 /\ np.kids[j] = kids[j] /\ kids[j] # kids[i] /\ kids[j] # kids[i + 1]
      <4>1. j \in 1 .. n + 1 /\ j <= i /\ j # i /\ j # i + 1
        BY <1>3, <2>0, <2>1
      <4> QED
        BY <1>1, <1>2, <1>3, <4>1, SMTT(30)
    <3> QED
      BY <1>5, <1>6, <3>2, <3>3
  <2>2. CASE j = i
    <3>1. np.kids[j] = kids[i]
      BY <1>2, <1>3, <2>2, SMTT(30)
    <3>2. (i > 1 => np.keys[i - 1] = keys[i - 1]) /\ (i < n => np.keys[i] = keys[i + 1])
      <4>1. (i > 1 => i - 1 \in 1 .. n - 1 /\ i - 1 < i) /\ (i < n => i \in 1 .. n - 1 /\ i >= i)
        BY <1>3, <2>0
      <4> QED
        BY <1>2, <4>1
    <3>3. \A k \in range : k \in Share(range, np, i)
                             <=> (i > 1 => keys[i - 1] <= k) /\ (i < n => k < keys[i + 1])
      <4>1. i <= n - 1 <=> i < n
        BY <1>3, <2>0
      <4> QED
        BY <2>0, <3>2, <4>1 DEF Share
    <3>4. /\ Share(range, np, i) \subseteq range /\ Share(range, pg, i) \subseteq range
          /\ Share(range, pg, i + 1) \subseteq range
      BY DEF Share
    <3>5. Share(range, np, i) = Share(range, pg, i) \cup Share(range, pg, i + 1)
      BY <1>8, <3>3, <3>4
    <3> QED
      BY <1>3, <1>5, <1>7, <2>2, <3>1, <3>5
  <2>3. CASE j > i
    <3>1. np.keys[j - 1] = keys[j] /\ (j <= n - 1 => np.keys[j] = keys[j + 1])
      <4>1. /\ j - 1 \in 1 .. n - 1 /\ j - 1 >= i /\ (j - 1) + 1 = j
            /\ (j <= n - 1 => j \in 1 .. n - 1 /\ j >= i)
        BY <1>3, <2>0, <2>3
      <4>2. np.keys[j - 1] = keys[(j - 1) + 1]
        BY <1>2, <4>1
      <4> QED
        BY <1>2, <4>1, <4>2
    <3>2. Share(range, np, j) = Share(range, pg, j + 1)
      <4>1. j > 1 /\ j + 1 > 1 /\ (j + 1) - 1 = j /\ (j <= n - 1 <=> j + 1 <= n)
        BY <1>3, <2>0, <2>3
      <4> QED
        BY <1>9, <2>0, <3>1, <4>1 DEF Share
    <3>3. j + 1 \in 1 .. n + 1 /\ np.kids[j] = kids[j + 1] /\ kids[j + 1] # kids[i] /\ kids[j + 1] # kids[i + 1]
      <4>1. j + 1 \in 1 .. n + 1 /\ j + 1 # i /\ j + 1 # i + 1
        BY <1>3, <2>0, <2>3
      <4> QED
        BY <1>1, <1>2, <1>3, <2>3, <4>1, SMTT(30)
    <3> QED
      BY <1>5, <1>6, <3>2, <3>3
  <2> QED
    BY <1>3, <2>0, <2>1, <2>2, <2>3, SMTT(30)
<1> QED
  BY <1>2, <1>4, <1>10, <1>13, <1>14 DEF Divides, n, kids

\* split: each half divides its side of the range.
LEMMA SplitPageDivides ==
    ASSUME NEW P, NEW pg \in InternalPages(P), Formed(pg), pg.count >= 3,
           NEW frontNo \in Nat, NEW backNo \in Nat, NEW old \in [Slots -> Nat],
           NEW s, s = SplitPage(pg, frontNo, backNo, old),
           NEW range \in SUBSET Nat, NEW held, Divides(pg, range, held)
    PROVE  /\ s.key \in Nat /\ s.front \in InternalPages(P) /\ s.back \in InternalPages(P)
           /\ s.front.count > 0 /\ s.back.count > 0 /\ s.front.count < pg.count /\ s.back.count < pg.count
           /\ Formed(s.front) /\ Formed(s.back)
           /\ Kids(s.front) \cup Kids(s.back) = Kids(pg) /\ Separate(s.front, s.back)
           /\ Divides(s.front, Below(range, s.key), held) /\ Divides(s.back, From(range, s.key), held)
<1> DEFINE n == pg.count
           keys == pg.keys
           kids == pg.kids
           at == n \div 2
           u == SubSeq(keys, at + 2, n)
           w == Overwrite(old, 1, u)
           kf == SubSeq(kids, 1, at + 1)
           kb == SubSeq(kids, at + 2, n + 1)
<1>1. /\ n \in Nat /\ n >= 3 /\ n <= KeyCapacity /\ KeyCapacity \in Nat
      /\ keys \in [Slots -> Nat] /\ kids \in Seq(P) /\ Len(kids) = n + 1
      /\ pg.next \in Nat /\ pg.prev \in Nat
      /\ DOMAIN kids = 1 .. n + 1 /\ \A j \in 1 .. n : keys[j] \in Nat
  BY PageShape DEF Formed
<1>2. /\ \A j, m \in 1 .. n : j < m => keys[j] <= keys[m]
      /\ \A j, m \in 1 .. n + 1 : kids[j] = kids[m] => j = m
  BY <1>1 DEF Formed
<1>3. at \in Nat /\ at >= 1 /\ at + 2 <= n
  BY <1>1, SMTT(30)
<1>4. /\ s.key = keys[at + 1]
      /\ s.front = [pg EXCEPT !.count = at, !.next = backNo, !.kids = kf]
      /\ s.back = [InitPage(frontNo, pg.next, old) EXCEPT !.count = n - at - 1, !.keys = w, !.kids = kb]
  <2>1. InitPage(frontNo, pg.next, old).keys = old
    BY DEF InitPage
  <2> QED
    BY <2>1 DEF SplitPage
<1>5. \A j \in 1 .. n + 1 : held[kids[j]] = Share(range, pg, j)
  BY <1>1 DEF Divides
<1>6. pg.count = n /\ pg.keys = keys /\ pg.kids = kids
  OBVIOUS
<1> HIDE DEF n, keys, kids, at
<1>7. u \in Seq(Nat) /\ Len(u) = n - at - 1 /\ \A j \in 1 .. n - at - 1 : u[j] = keys[at + 1 + j]
  <2> DEFINE a == at + 2
  <2>1. keys \in [Slots -> Nat] /\ a \in Nat \ {0} /\ n \in Nat /\ n <= KeyCapacity /\ a <= n + 1
    BY <1>1, <1>3
  <2>2. n + 1 - a = n - at - 1 /\ \A j \in 1 .. n - at - 1 : a + j - 1 = at + 1 + j
    BY <1>1, <1>3
  <2> HIDE DEF a
  <2>3. /\ SubSeq(keys, a, n) \in Seq(Nat) /\ Len(SubSeq(keys, a, n)) = n + 1 - a
        /\ \A j \in 1 .. n + 1 - a : SubSeq(keys, a, n)[j] = keys[a + j - 1]
    BY <2>1, SlotsRead
  <2>4. u = SubSeq(keys, a, n)
    BY DEF a
  <2> HIDE DEF u
  <2> QED
    BY <2>2, <2>3, <2>4
<1> HIDE DEF u
<1>8. w \in [Slots -> Nat] /\ \A j \in 1 .. n - at - 1 : w[j] = keys[at + 1 + j]
  <2>1. old \in [Slots -> Nat] /\ 1 \in Nat \ {0} /\ u \in Seq(Nat)
    BY <1>7
  <2>2. /\ w \in [Slots -> Nat]
        /\ \A j \in Slots : /\ j < 1 => w[j] = old[j]
                            /\ 1 <= j /\ j - 1 < Len(u) => w[j] = u[j - 1 + 1]
    BY <2>1, Overwritten
  <2> HIDE DEF w
  <2>3. ASSUME NEW j \in 1 .. n - at - 1 PROVE w[j] = keys[at + 1 + j]
    <3>1. j \in Slots /\ 1 <= j /\ j - 1 < Len(u) /\ j - 1 + 1 = j
      BY <1>1, <1>3, <1>7 DEF Slots
    <3>2. w[j] = u[j]
      BY <2>2, <3>1
    <3> QED
      BY <1>7, <3>2
  <2> QED
    BY <2>2, <2>3
<1> HIDE DEF w
<1>9. kf \in Seq(P) /\ Len(kf) = at + 1 /\ \A j \in 1 .. at + 1 : kf[j] = kids[j]
  <2>1. at + 1 \in 1 .. Len(kids)
    BY <1>1, <1>3
  <2> QED
    BY <1>1, <2>1
<1>10. kb \in Seq(P) /\ Len(kb) = n - at /\ \A j \in 1 .. n - at : kb[j] = kids[at + 1 + j]
  <2> DEFINE a == at + 2
             e == n + 1
  <2>1. a \in 1 .. Len(kids) /\ e \in 1 .. Len(kids) /\ a <= e /\ kids \in Seq(P)
    BY <1>1, <1>3
  <2>2. kb = SubSeq(kids, a, e)
    OBVIOUS
  <2>3. e - a + 1 = n - at /\ \A j \in 1 .. n - at : a + j - 1 = at + 1 + j
    BY <1>1, <1>3
  <2> HIDE DEF kb, a, e
  <2>4. /\ SubSeq(kids, a, e) \in Seq(P) /\ Len(SubSeq(kids, a, e)) = e - a + 1
        /\ \A j \in 1 .. e - a + 1 : SubSeq(kids, a, e)[j] = kids[a + j - 1]
    BY <2>1
  <2> QED
    BY <2>2, <2>3, <2>4
<1> HIDE DEF kf, kb
<1>11. /\ s.front \in InternalPages(P) /\ s.front.count = at /\ s.front.keys = keys /\ s.front.kids = kf
  <2>1. at \in 0 .. KeyCapacity
    BY <1>1, <1>3
  <2> QED
    BY <1>4, <1>6, <1>9, <2>1 DEF InternalPages
<1>12. /\ s.back \in InternalPages(P) /\ s.back.count = n - at - 1 /\ s.back.keys = w /\ s.back.kids = kb
  <2>1. n - at - 1 \in 0 .. KeyCapacity /\ 0 \in 0 .. KeyCapacity
    BY <1>1, <1>3
  <2>2. InitPage(frontNo, pg.next, old) \in InternalPages(P)
    BY <1>1, <2>1 DEF InitPage, InternalPages
  <2> DEFINE new == InitPage(frontNo, pg.next, old)
             c == n - at - 1
  <2>3. c \in 0 .. KeyCapacity /\ w \in [Slots -> Nat] /\ kb \in Seq(P)
    BY <1>8, <1>10, <2>1
  <2>4. new \in InternalPages(P) /\ s.back = [new EXCEPT !.count = c, !.keys = w, !.kids = kb]
    BY <1>4, <2>2
  <2> HIDE DEF new, c, w, kb
  <2>5. s.back \in InternalPages(P) /\ s.back.count = c /\ s.back.keys = w /\ s.back.kids = kb
    BY <2>3, <2>4 DEF InternalPages
  <2> QED
    BY <2>5 DEF c
<1>13. s.key \in Nat /\ s.key = keys[at + 1] /\ at + 1 \in 1 .. n
  BY <1>1, <1>3, <1>4, SMTT(30)
<1> DEFINE f == s.front
           b == s.back
           key == s.key
<1>14. DOMAIN kf = 1 .. at + 1 /\ DOMAIN kb = 1 .. n - at
  BY <1>9, <1>10
<1>15. f.count = at /\ f.keys = keys /\ f.kids = kf /\ b.count = n - at - 1 /\ b.keys = w /\ b.kids = kb
  BY <1>11, <1>12
<1> HIDE DEF f, b, key
<1>16. Formed(f)
  <2>1. \A j, m \in 1 .. at : j < m => keys[j] <= keys[m]
    BY <1>1, <1>2, <1>3
  <2>2. \A j, m \in 1 .. at + 1 : kf[j] = kf[m] => j = m
    <3>1. \A j \in 1 .. at + 1 : j \in 1 .. n + 1
      BY <1>1, <1>3
    <3> QED
      BY <1>2, <1>9, <3>1
  <2> QED
    BY <1>9, <1>14, <1>15, <2>1, <2>2 DEF Formed
<1>17. Formed(b)
  <2>1. \A j, m \in 1 .. n - at - 1 : j < m => w[j] <= w[m]
    <3> SUFFICES ASSUME NEW j \in 1 .. n - at - 1, NEW m \in 1 .. n - at - 1, j < m
                 PROVE  w[j] <= w[m]
      OBVIOUS
    <3>1. at + 1 + j \in 1 .. n /\ at + 1 + m \in 1 .. n /\ at + 1 + j < at + 1 + m
      BY <1>1, <1>3
    <3> QED
      BY <1>2, <1>8, <3>1
  <2>2. \A j, m \in 1 .. n - at : kb[j] = kb[m] => j = m
    <3> SUFFICES ASSUME NEW j \in 1 .. n - at, NEW m \in 1 .. n - at, kb[j] = kb[m] PROVE j = m
      OBVIOUS
    <3>1. at + 1 + j \in 1 .. n + 1 /\ at + 1 + m \in 1 .. n + 1
      BY <1>1, <1>3
    <3>2. at + 1 + j = at + 1 + m
      BY <1>2, <1>10, <3>1
    <3> QED
      BY <1>3, <3>2
  <2>3. Len(kb) = (n - at - 1) + 1
    BY <1>1, <1>3, <1>10
  <2> QED
    BY <1>14, <1>15, <2>1, <2>2, <2>3 DEF Formed
<1>18. Kids(f) \cup Kids(b) = Kids(pg) /\ Kids(f) \cap Kids(b) = {}
  <2>0. /\ Kids(pg) = {kids[j] : j \in 1 .. n + 1} /\ Kids(f) = {kf[j] : j \in 1 .. at + 1}
        /\ Kids(b) = {kb[j] : j \in 1 .. n - at}
    BY <1>1, <1>6, <1>14, <1>15 DEF Kids
  <2>1. \A j \in 1 .. at + 1 : j \in 1 .. n + 1 /\ kf[j] = kids[j]
    BY <1>1, <1>3, <1>9, SMTT(30)
  <2>2. \A j \in 1 .. n - at : at + 1 + j \in 1 .. n + 1 /\ kb[j] = kids[at + 1 + j]
    BY <1>1, <1>3, <1>10
  <2>3. \A j \in 1 .. n + 1 : kids[j] \in Kids(f) \/ kids[j] \in Kids(b)
    <3> TAKE j \in 1 .. n + 1
    <3>1. CASE j <= at + 1
      <4>1. j \in 1 .. at + 1
        BY <1>1, <1>3, <3>1
      <4> QED
        BY <2>0, <2>1, <4>1
    <3>2. CASE j > at + 1
      <4>1. j - at - 1 \in 1 .. n - at /\ at + 1 + (j - at - 1) = j
        BY <1>1, <1>3, <3>2
      <4>2. kb[j - at - 1] = kids[j]
        BY <2>2, <4>1
      <4> QED
        BY <2>0, <4>1, <4>2
    <3> QED
      BY <1>3, <3>1, <3>2
  <2>4. \A j \in 1 .. at + 1, m \in 1 .. n - at : kf[j] # kb[m]
    <3> TAKE j \in 1 .. at + 1, m \in 1 .. n - at
    <3>1. j # at + 1 + m
      BY <1>1, <1>3
    <3> QED
      BY <1>2, <2>1, <2>2, <3>1
  <2>5. Kids(f) \subseteq Kids(pg) /\ Kids(b) \subseteq Kids(pg)
    BY <2>0, <2>1, <2>2
  <2>6. Kids(pg) \subseteq Kids(f) \cup Kids(b)
    BY <2>0, <2>3
  <2>7. Kids(f) \cap Kids(b) = {}
    BY <2>0, <2>4
  <2> QED
    BY <2>5, <2>6, <2>7
<1>19. Divides(f, Below(range, key), held)
  <2> SUFFICES ASSUME NEW j \in 1 .. at + 1 PROVE held[kf[j]] = Share(Below(range, key), f, j)
    BY <1>14, <1>15 DEF Divides
  <2>1. j \in 1 .. n + 1 /\ kf[j] = kids[j] /\ j \in Nat
    BY <1>1, <1>3, <1>9
  <2>2. \A k \in range : k \in Share(range, pg, j) => k < key
    <3> SUFFICES ASSUME NEW k \in range, k \in Share(range, pg, j) PROVE k < key
      OBVIOUS
    <3>1. j \in 1 .. n /\ j <= at + 1
      BY <1>1, <1>3
    <3>2. k < keys[j] /\ k \in Nat
      BY <1>6, <3>1 DEF Share
    <3>3. keys[j] <= keys[at + 1] /\ keys[j] \in Nat /\ keys[at + 1] \in Nat
      <4>1. j = at + 1 \/ j < at + 1
        BY <1>3, <3>1
      <4> QED
        BY <1>1, <1>2, <1>13, <3>1, <4>1
    <3> QED
      BY <1>13, <3>2, <3>3 DEF key
  <2>3. \A k \in range : k < key => (k \in Share(range, pg, j)
                                        <=> k \in Share(Below(range, key), f, j))
    <3> SUFFICES ASSUME NEW k \in range, k < key
                 PROVE  k \in Share(range, pg, j) <=> k \in Share(Below(range, key), f, j)
      OBVIOUS
    <3>1. k \in Share(range, pg, j) <=> (j > 1 => keys[j - 1] <= k) /\ (j <= n => k < keys[j])
      BY <1>6 DEF Share
    <3>2. k \in Share(Below(range, key), f, j) <=> (j > 1 => keys[j - 1] <= k) /\ (j <= at => k < keys[j])
      BY <1>15 DEF Share, Below
    <3>3. j <= n /\ (j = at + 1 \/ j <= at)
      BY <1>1, <1>3
    <3>4. j = at + 1 => k < keys[j]
      BY <1>13 DEF key
    <3> QED
      BY <3>1, <3>2, <3>3, <3>4
  <2>4. Share(range, pg, j) \subseteq range /\ Share(Below(range, key), f, j) \subseteq Below(range, key)
    BY DEF Share
  <2>5. Share(range, pg, j) = Share(Below(range, key), f, j)
    BY <2>2, <2>3, <2>4 DEF Below
  <2> QED
    BY <1>5, <2>1, <2>5
<1>20. Divides(b, From(range, key), held)
  <2> SUFFICES ASSUME NEW j \in 1 .. n - at PROVE held[kb[j]] = Share(From(range, key), b, j)
    BY <1>14, <1>15 DEF Divides
  <2> DEFINE m == at + 1 + j
  <2>1. m \in 1 .. n + 1 /\ kb[j] = kids[m] /\ m \in Nat /\ m > 1 /\ m - 1 \in 1 .. n /\ m - 1 = at + j
    BY <1>1, <1>3, <1>10
  <2>0. (m <= n <=> j <= n - at - 1) /\ (m <= n => w[j] = keys[m])
        /\ (j > 1 => w[j - 1] = keys[m - 1]) /\ (j = 1 => m - 1 = at + 1)
    <3>1. (m <= n <=> j <= n - at - 1) /\ (j = 1 => m - 1 = at + 1)
      BY <1>1, <1>3
    <3>2. m <= n => w[j] = keys[m]
      <4>1. m <= n => j \in 1 .. n - at - 1
        BY <1>1, <1>3
      <4> QED
        BY <1>8, <4>1
    <3>3. j > 1 => w[j - 1] = keys[m - 1]
      <4>1. j > 1 => j - 1 \in 1 .. n - at - 1 /\ at + 1 + (j - 1) = m - 1
        BY <1>1, <1>3
      <4> QED
        BY <1>8, <4>1
    <3> QED
      BY <3>1, <3>2, <3>3
  <2> HIDE DEF m
  <2>2. \A k \in range : k \in Share(range, pg, m) => key <= k
    <3> SUFFICES ASSUME NEW k \in range, k \in Share(range, pg, m) PROVE key <= k
      OBVIOUS
    <3>1. keys[m - 1] <= k /\ k \in Nat
      BY <1>6, <2>1 DEF Share
    <3>2. at + 1 = m - 1 \/ at + 1 < m - 1
      BY <1>3, <2>1
    <3>3. keys[at + 1] <= keys[m - 1] /\ keys[at + 1] \in Nat /\ keys[m - 1] \in Nat
      BY <1>1, <1>2, <1>13, <2>1, <3>2, SMTT(30)
    <3> QED
      BY <1>13, <3>1, <3>3 DEF key
  <2>3. \A k \in range : key <= k => (k \in Share(range, pg, m)
                                        <=> k \in Share(From(range, key), b, j))
    <3> SUFFICES ASSUME NEW k \in range, key <= k
                 PROVE  k \in Share(range, pg, m) <=> k \in Share(From(range, key), b, j)
      OBVIOUS
    <3>1. k \in Share(range, pg, m) <=> keys[m - 1] <= k /\ (m <= n => k < keys[m])
      BY <1>6, <2>1 DEF Share
    <3>2. k \in Share(From(range, key), b, j)
            <=> (j > 1 => w[j - 1] <= k) /\ (j <= n - at - 1 => k < w[j])
      BY <1>15 DEF Share, From
    <3>3. j = 1 => keys[m - 1] <= k
      BY <1>13, <2>0 DEF key
    <3>4. j = 1 \/ j > 1
      BY <1>1, <1>3
    <3> QED
      BY <2>0, <3>1, <3>2, <3>3, <3>4
  <2>4. Share(range, pg, m) \subseteq range /\ Share(From(range, key), b, j) \subseteq From(range, key)
    BY DEF Share
  <2>5. Share(range, pg, m) = Share(From(range, key), b, j)
    BY <2>2, <2>3, <2>4 DEF From
  <2> QED
    BY <1>5, <2>1, <2>5
<1>21. at > 0 /\ at < n /\ n - at - 1 > 0 /\ n - at - 1 < n
  BY <1>1, <1>3
<1> QED
  BY <1>6, <1>11, <1>12, <1>13, <1>16, <1>17, <1>18, <1>19, <1>20, <1>21 DEF f, b, key, Separate

\* merge: the page in front divides both ranges.
LEMMA MergePagesDivides ==
    ASSUME NEW P, NEW f \in InternalPages(P), NEW b \in InternalPages(P), Formed(f), Formed(b),
           NEW key \in Nat, Mergeable(f, b, key), f.count + b.count + 1 <= KeyCapacity,
           Kids(f) \cap Kids(b) = {},
           NEW ranges \in SUBSET Nat, NEW held,
           Divides(f, Below(ranges, key), held), Divides(b, From(ranges, key), held),
           NEW np, np = MergePages(f, b, key)
    PROVE  /\ np \in InternalPages(P) /\ np.count = f.count + b.count + 1
           /\ Formed(np) /\ Kids(np) = Kids(f) \cup Kids(b) /\ Divides(np, ranges, held)
<1> DEFINE nf == f.count
           nb == b.count
           n == nf + nb + 1
           kf == f.keys
           kb == b.keys
           cf == f.kids
           cb == b.kids
           t == KeysOf(b)
           u == <<key>> \o t
           w == Overwrite(kf, nf + 1, u)
           kids == cf \o cb
<1>1. /\ nf \in Nat /\ kf \in [Slots -> Nat] /\ cf \in Seq(P) /\ Len(cf) = nf + 1 /\ nf <= KeyCapacity
      /\ DOMAIN cf = 1 .. nf + 1 /\ \A j \in 1 .. nf : kf[j] \in Nat
  BY PageShape DEF Formed
<1>2. /\ nb \in Nat /\ kb \in [Slots -> Nat] /\ cb \in Seq(P) /\ Len(cb) = nb + 1 /\ nb <= KeyCapacity
      /\ DOMAIN cb = 1 .. nb + 1 /\ \A j \in 1 .. nb : kb[j] \in Nat /\ b.next \in Nat
  BY PageShape DEF Formed
<1>3. /\ \A j, m \in 1 .. nf : j < m => kf[j] <= kf[m]
      /\ \A j, m \in 1 .. nf + 1 : cf[j] = cf[m] => j = m
  BY <1>1 DEF Formed
<1>4. /\ \A j, m \in 1 .. nb : j < m => kb[j] <= kb[m]
      /\ \A j, m \in 1 .. nb + 1 : cb[j] = cb[m] => j = m
  BY <1>2 DEF Formed
<1>5. nf > 0 /\ nb > 0 /\ kf[nf] < key /\ key < kb[1]
  <2>1. nf > 0 /\ nb > 0 /\ kf[nf] < key /\ kb[1] > key
    BY DEF Mergeable
  <2>2. 1 \in 1 .. nb
    BY <1>2, <2>1
  <2> QED
    BY <1>2, <2>1, <2>2
<1>6. np = [f EXCEPT !.count = n, !.keys = w, !.kids = kids, !.next = b.next]
  BY DEF MergePages
<1>7. KeyCapacity \in Nat /\ n <= KeyCapacity /\ n \in Nat /\ n = nf + nb + 1
  BY <1>1, <1>2, InternalPageAssumption
<1>8. /\ Kids(f) = {cf[j] : j \in 1 .. nf + 1} /\ Kids(b) = {cb[j] : j \in 1 .. nb + 1}
  BY <1>1, <1>2 DEF Kids
<1>9. /\ \A j \in 1 .. nf + 1 : held[cf[j]] = Share(Below(ranges, key), f, j)
      /\ \A j \in 1 .. nb + 1 : held[cb[j]] = Share(From(ranges, key), b, j)
  BY <1>1, <1>2 DEF Divides
<1>10. f.count = nf /\ b.count = nb /\ f.keys = kf /\ b.keys = kb
  OBVIOUS
<1>11. t \in Seq(Nat) /\ Len(t) = nb /\ \A j \in 1 .. nb : t[j] = kb[j]
  <2>1. kb \in [Slots -> Nat] /\ 1 \in Nat \ {0} /\ nb \in Nat /\ nb <= KeyCapacity /\ 1 <= nb + 1
    BY <1>2
  <2>2. t = SubSeq(kb, 1, nb)
    BY DEF KeysOf
  <2> HIDE DEF t, nb, kb
  <2>3. /\ SubSeq(kb, 1, nb) \in Seq(Nat) /\ Len(SubSeq(kb, 1, nb)) = nb + 1 - 1
        /\ \A j \in 1 .. nb + 1 - 1 : SubSeq(kb, 1, nb)[j] = kb[1 + j - 1]
    BY <2>1, SlotsRead
  <2>4. nb + 1 - 1 = nb /\ \A j \in 1 .. nb : 1 + j - 1 = j
    BY <2>1
  <2> QED
    BY <2>2, <2>3, <2>4
<1> HIDE DEF nf, nb, n, kf, kb, cf, cb, t
<1>12. u \in Seq(Nat) /\ Len(u) = nb + 1 /\ u[1] = key /\ \A j \in 2 .. nb + 1 : u[j] = kb[j - 1]
  <2>1. /\ u \in Seq(Nat) /\ Len(u) = Len(t) + 1 /\ u[1] = key
        /\ \A j \in 2 .. Len(t) + 1 : u[j] = t[j - 1]
    BY <1>11, Prefixed
  <2> HIDE DEF u
  <2>2. \A j \in 2 .. nb + 1 : j - 1 \in 1 .. nb
    BY <1>2
  <2> QED
    BY <1>11, <2>1, <2>2
<1> HIDE DEF u
<1>13. w \in [Slots -> Nat] /\ \A j \in 1 .. n : /\ j <= nf => w[j] = kf[j]
                                                 /\ j = nf + 1 => w[j] = key
                                                 /\ j > nf + 1 => w[j] = kb[j - nf - 1]
  <2> DEFINE at == nf + 1
  <2>1. at \in Nat \ {0} /\ kf \in [Slots -> Nat] /\ u \in Seq(Nat)
    BY <1>1, <1>12
  <2> HIDE DEF at
  <2>2. /\ Overwrite(kf, at, u) \in [Slots -> Nat]
        /\ \A j \in Slots : /\ j < at => Overwrite(kf, at, u)[j] = kf[j]
                            /\ at <= j /\ j - at < Len(u) => Overwrite(kf, at, u)[j] = u[j - at + 1]
    BY <2>1, Overwritten
  <2>3. w = Overwrite(kf, at, u)
    BY DEF at
  <2> HIDE DEF w
  <2> SUFFICES ASSUME NEW j \in 1 .. n
               PROVE  /\ j <= nf => w[j] = kf[j]
                      /\ j = nf + 1 => w[j] = key
                      /\ j > nf + 1 => w[j] = kb[j - nf - 1]
    BY <2>2, <2>3
  <2>4. j \in Slots /\ j \in Nat
    BY <1>7 DEF Slots
  <2>5. CASE j <= nf
    <3>1. j < at /\ ~ (j = nf + 1) /\ ~ (j > nf + 1)
      BY <1>1, <2>4, <2>5 DEF at
    <3> QED
      BY <2>2, <2>3, <2>4, <3>1
  <2>6. CASE j > nf
    <3>1. at <= j /\ j - at < Len(u) /\ j - at + 1 = j - nf
      BY <1>1, <1>2, <1>7, <1>12, <2>4, <2>6 DEF at
    <3>2. w[j] = u[j - nf]
      BY <2>2, <2>3, <2>4, <3>1
    <3>3. j > nf + 1 => j - nf \in 2 .. nb + 1 /\ (j - nf) - 1 = j - nf - 1
      BY <1>1, <1>2, <1>7, <2>4
    <3>4. j > nf + 1 => w[j] = kb[j - nf - 1]
      BY <1>12, <3>2, <3>3
    <3>5. j = nf + 1 => w[j] = key
      <4>1. j = nf + 1 => j - nf = 1
        BY <1>1
      <4> QED
        BY <1>12, <3>2, <4>1
    <3>6. ~ (j <= nf)
      BY <1>1, <2>4, <2>6
    <3> QED
      BY <3>4, <3>5, <3>6
  <2> QED
    BY <1>1, <2>4, <2>5, <2>6
<1> HIDE DEF w
<1>14. /\ kids \in Seq(P) /\ Len(kids) = n + 1 /\ DOMAIN kids = 1 .. n + 1
       /\ \A j \in 1 .. nf + 1 : kids[j] = cf[j]
       /\ \A j \in 1 .. nb + 1 : kids[nf + 1 + j] = cb[j]
  <2>0. cf \in Seq(P) /\ cb \in Seq(P)
    BY <1>1, <1>2
  <2>1. /\ kids \in Seq(P) /\ Len(kids) = Len(cf) + Len(cb) /\ DOMAIN kids = 1 .. Len(cf) + Len(cb)
        /\ \A j \in 1 .. Len(cf) : kids[j] = cf[j]
        /\ \A j \in 1 .. Len(cf) + Len(cb) : j > Len(cf) => kids[j] = cb[j - Len(cf)]
    BY <2>0, Joined
  <2> HIDE DEF kids
  <2>2. Len(cf) + Len(cb) = n + 1
    BY <1>1, <1>2, <1>7
  <2>3. \A j \in 1 .. nf + 1 : kids[j] = cf[j]
    BY <1>1, <2>1
  <2>4. ASSUME NEW j \in 1 .. nb + 1 PROVE kids[nf + 1 + j] = cb[j]
    <3> DEFINE x == nf + 1 + j
    <3>1. x \in 1 .. Len(cf) + Len(cb) /\ x > Len(cf) /\ x - Len(cf) = j
      BY <1>1, <1>2
    <3> HIDE DEF x
    <3>2. kids[x] = cb[x - Len(cf)]
      BY <2>1, <3>1
    <3> QED
      BY <3>1, <3>2 DEF x
  <2> QED
    BY <2>1, <2>2, <2>3, <2>4
<1> HIDE DEF kids
<1>15. /\ np \in InternalPages(P) /\ np.count = n /\ np.keys = w /\ np.kids = kids
  <2>1. n \in 0 .. KeyCapacity /\ w \in [Slots -> Nat] /\ kids \in Seq(P) /\ b.next \in Nat
    BY <1>2, <1>5, <1>7, <1>13, <1>14, PageShape
  <2> QED
    BY <1>6, <2>1 DEF InternalPages
<1>16. \A j, m \in 1 .. n : j < m => w[j] <= w[m]
  <2> SUFFICES ASSUME NEW j \in 1 .. n, NEW m \in 1 .. n, j < m PROVE w[j] <= w[m]
    OBVIOUS
  <2>0. j \in Nat /\ m \in Nat
    OBVIOUS
  <2>1. \A x \in 1 .. n : x <= nf => w[x] \in Nat /\ w[x] <= kf[nf] /\ w[x] = kf[x] /\ x \in 1 .. nf
    <3> SUFFICES ASSUME NEW x \in 1 .. n, x <= nf
                 PROVE  w[x] \in Nat /\ w[x] <= kf[nf] /\ w[x] = kf[x] /\ x \in 1 .. nf
      OBVIOUS
    <3>1. x \in 1 .. nf /\ nf \in 1 .. nf /\ (x = nf \/ x < nf)
      BY <1>1, <1>5
    <3>2. kf[x] <= kf[nf]
      BY <1>1, <1>3, <3>1
    <3> QED
      BY <1>1, <1>13, <3>1, <3>2
  <2>2. \A x \in 1 .. n : x > nf + 1 => /\ w[x] \in Nat /\ kb[1] <= w[x]
                                        /\ w[x] = kb[x - nf - 1] /\ x - nf - 1 \in 1 .. nb
    <3> SUFFICES ASSUME NEW x \in 1 .. n, x > nf + 1
                 PROVE  w[x] \in Nat /\ kb[1] <= w[x] /\ w[x] = kb[x - nf - 1] /\ x - nf - 1 \in 1 .. nb
      OBVIOUS
    <3>1. x - nf - 1 \in 1 .. nb /\ 1 \in 1 .. nb /\ (x - nf - 1 = 1 \/ 1 < x - nf - 1)
      BY <1>1, <1>2, <1>7
    <3>2. kb[1] <= kb[x - nf - 1]
      BY <1>2, <1>4, <3>1
    <3> QED
      BY <1>2, <1>13, <3>1, <3>2
  <2>3. kf[nf] \in Nat /\ kb[1] \in Nat
    BY <1>1, <1>2, <1>5
  <2>4. CASE m <= nf
    <3>1. j <= nf
      BY <1>1, <2>0, <2>4
    <3> QED
      BY <1>3, <2>1, <2>4, <3>1
  <2>5. CASE m = nf + 1
    <3>1. j <= nf /\ w[m] = key
      BY <1>1, <1>13, <2>0, <2>5
    <3>2. w[j] \in Nat /\ w[j] <= kf[nf]
      BY <2>1, <3>1
    <3> QED
      BY <1>5, <2>3, <3>1, <3>2
  <2>6. CASE m > nf + 1
    <3>1. w[m] \in Nat /\ kb[1] <= w[m] /\ w[m] = kb[m - nf - 1] /\ m - nf - 1 \in 1 .. nb
      BY <2>2, <2>6
    <3>2. CASE j <= nf
      <4>1. w[j] \in Nat /\ w[j] <= kf[nf]
        BY <2>1, <3>2
      <4> QED
        BY <1>5, <2>3, <3>1, <4>1
    <3>3. CASE j = nf + 1
      <4>1. w[j] = key
        BY <1>13, <3>3
      <4> QED
        BY <1>5, <2>3, <3>1, <4>1
    <3>4. CASE j > nf + 1
      <4>1. w[j] = kb[j - nf - 1] /\ j - nf - 1 \in 1 .. nb
        BY <2>2, <3>4
      <4>2. j - nf - 1 < m - nf - 1
        BY <1>1, <2>0
      <4> QED
        BY <1>4, <3>1, <4>1, <4>2
    <3> QED
      BY <1>1, <2>0, <3>2, <3>3, <3>4
  <2> QED
    BY <1>1, <2>0, <2>4, <2>5, <2>6
<1>17. \A j \in 1 .. n + 1 : \/ j \in 1 .. nf + 1 /\ kids[j] = cf[j] /\ kids[j] \in Kids(f)
                             \/ /\ j - nf - 1 \in 1 .. nb + 1 /\ kids[j] = cb[j - nf - 1]
                                /\ kids[j] \in Kids(b)
  <2> TAKE j \in 1 .. n + 1
  <2>1. CASE j <= nf + 1
    <3>1. j \in 1 .. nf + 1
      BY <1>1, <2>1
    <3> QED
      BY <1>8, <1>14, <3>1
  <2>2. CASE j > nf + 1
    <3>1. j - nf - 1 \in 1 .. nb + 1 /\ nf + 1 + (j - nf - 1) = j
      BY <1>1, <1>2, <1>7, <2>2
    <3>2. kids[j] = cb[j - nf - 1]
      BY <1>14, <3>1
    <3> QED
      BY <1>8, <3>1, <3>2
  <2> QED
    BY <1>1, <2>1, <2>2
<1>18. \A j, m \in 1 .. n + 1 : kids[j] = kids[m] => j = m
  <2> SUFFICES ASSUME NEW j \in 1 .. n + 1, NEW m \in 1 .. n + 1, kids[j] = kids[m] PROVE j = m
    OBVIOUS
  <2>1. \/ j \in 1 .. nf + 1 /\ kids[j] = cf[j] /\ kids[j] \in Kids(f)
        \/ j - nf - 1 \in 1 .. nb + 1 /\ kids[j] = cb[j - nf - 1] /\ kids[j] \in Kids(b)
    BY <1>17
  <2>2. \/ m \in 1 .. nf + 1 /\ kids[m] = cf[m] /\ kids[m] \in Kids(f)
        \/ m - nf - 1 \in 1 .. nb + 1 /\ kids[m] = cb[m - nf - 1] /\ kids[m] \in Kids(b)
    BY <1>17
  <2>3. ~ (kids[j] \in Kids(f) /\ kids[m] \in Kids(b)) /\ ~ (kids[j] \in Kids(b) /\ kids[m] \in Kids(f))
    OBVIOUS
  <2>4. CASE j \in 1 .. nf + 1 /\ kids[j] = cf[j] /\ m \in 1 .. nf + 1 /\ kids[m] = cf[m]
    BY <1>3, <2>4
  <2>5. CASE /\ j - nf - 1 \in 1 .. nb + 1 /\ kids[j] = cb[j - nf - 1]
             /\ m - nf - 1 \in 1 .. nb + 1 /\ kids[m] = cb[m - nf - 1]
    <3>1. j - nf - 1 = m - nf - 1
      BY <1>4, <2>5
    <3> QED
      BY <1>1, <3>1
  <2> QED
    BY <2>1, <2>2, <2>3, <2>4, <2>5
<1>19. Formed(np)
  BY <1>14, <1>15, <1>16, <1>18 DEF Formed
<1>20. Kids(np) = Kids(f) \cup Kids(b)
  <2>1. Kids(np) = {kids[j] : j \in 1 .. n + 1}
    BY <1>14, <1>15 DEF Kids
  <2>2. \A j \in 1 .. nf + 1 : j \in 1 .. n + 1 /\ kids[j] = cf[j]
    BY <1>1, <1>2, <1>7, <1>14, SMTT(30)
  <2>3. \A j \in 1 .. nb + 1 : nf + 1 + j \in 1 .. n + 1 /\ kids[nf + 1 + j] = cb[j]
    BY <1>1, <1>2, <1>7, <1>14
  <2>4. Kids(f) \subseteq Kids(np)
    BY <1>8, <2>1, <2>2
  <2>5. Kids(b) \subseteq Kids(np)
    BY <1>8, <2>1, <2>3
  <2>6. Kids(np) \subseteq Kids(f) \cup Kids(b)
    BY <1>17, <2>1
  <2> QED
    BY <2>4, <2>5, <2>6
<1>21. ASSUME NEW j \in 1 .. nf + 1 PROVE held[kids[j]] = Share(ranges, np, j)
  <2>1. kids[j] = cf[j] /\ held[cf[j]] = Share(Below(ranges, key), f, j) /\ j \in Nat
    BY <1>9, <1>14
  <2>2. /\ j > 1 => w[j - 1] = kf[j - 1]
        /\ j <= nf => w[j] = kf[j] /\ kf[j] \in Nat /\ kf[j] < key
        /\ j = nf + 1 => w[j] = key
        /\ j <= n /\ (j <= nf \/ j = nf + 1)
    <3>1. j \in 1 .. n /\ (j > 1 => j - 1 \in 1 .. n /\ j - 1 <= nf) /\ (j <= nf \/ j = nf + 1) /\ j <= n
      BY <1>1, <1>2, <1>7
    <3>2. j <= nf => kf[j] \in Nat /\ kf[j] < key
      <4> SUFFICES ASSUME j <= nf PROVE kf[j] \in Nat /\ kf[j] < key
        OBVIOUS
      <4>1. j \in 1 .. nf /\ nf \in 1 .. nf /\ (j = nf \/ j < nf)
        BY <1>1, <1>5
      <4>2. kf[j] <= kf[nf] /\ kf[j] \in Nat /\ kf[nf] \in Nat
        BY <1>1, <1>3, <4>1
      <4> QED
        BY <1>5, <4>2
    <3> QED
      BY <1>13, <3>1, <3>2
  <2>3. \A k \in ranges : k \in Share(Below(ranges, key), f, j) <=> k \in Share(ranges, np, j)
    <3> TAKE k \in ranges
    <3>1. k \in Share(ranges, np, j) <=> (j > 1 => kf[j - 1] <= k) /\ k < w[j]
      BY <1>15, <2>2 DEF Share
    <3>2. k \in Share(Below(ranges, key), f, j)
            <=> k < key /\ (j > 1 => kf[j - 1] <= k) /\ (j <= nf => k < kf[j])
      BY <1>10 DEF Share, Below
    <3>3. CASE j <= nf
      <4>1. k \in Nat /\ w[j] = kf[j] /\ (k < kf[j] => k < key)
        BY <2>2, <3>3
      <4> QED
        BY <3>1, <3>2, <3>3, <4>1
    <3>4. CASE j = nf + 1
      <4>1. w[j] = key /\ ~ (j <= nf)
        BY <1>1, <2>2, <3>4
      <4> QED
        BY <3>1, <3>2, <4>1
    <3> QED
      BY <2>2, <3>3, <3>4
  <2>4. Share(Below(ranges, key), f, j) \subseteq ranges /\ Share(ranges, np, j) \subseteq ranges
    BY DEF Share, Below
  <2> QED
    BY <2>1, <2>3, <2>4
<1>22. ASSUME NEW j \in 1 .. n + 1, NEW m \in 1 .. nb + 1, m = j - nf - 1
       PROVE  held[kids[j]] = Share(ranges, np, j)
  <2>1. /\ kids[j] = cb[m] /\ held[cb[m]] = Share(From(ranges, key), b, m)
        /\ m \in Nat /\ m >= 1 /\ j \in Nat /\ j > 1
    <3>1. nf + 1 + m = j /\ m \in Nat /\ m >= 1 /\ j \in Nat /\ j > 1
      BY <1>1, <1>2, <1>7, <1>22
    <3> QED
      BY <1>9, <1>14, <3>1
  <2>2. /\ m = 1 => w[j - 1] = key
        /\ m > 1 => w[j - 1] = kb[m - 1] /\ kb[m - 1] \in Nat /\ key < kb[m - 1]
        /\ j <= n => w[j] = kb[m]
        /\ (m = 1 \/ m > 1) /\ (j <= n <=> m <= nb)
    <3>0. nf \in Nat /\ nb \in Nat /\ n = nf + nb + 1 /\ j = nf + 1 + m
      BY <1>1, <1>2, <1>7, <1>22
    <3>1. /\ (m = 1 \/ m > 1) /\ (j <= n <=> m <= nb)
          /\ j - 1 \in 1 .. n /\ (m = 1 => j - 1 = nf + 1)
          /\ (m > 1 => j - 1 > nf + 1 /\ (j - 1) - nf - 1 = m - 1 /\ m - 1 \in 1 .. nb)
          /\ (j <= n => j \in 1 .. n /\ j > nf + 1)
      BY <2>1, <3>0
    <3>2. m > 1 => w[j - 1] = kb[m - 1]
      BY <1>13, <3>1
    <3>3. m = 1 => w[j - 1] = key
      BY <1>13, <3>1
    <3>4. j <= n => w[j] = kb[m]
      BY <1>13, <1>22, <3>1
    <3>5. m > 1 => kb[m - 1] \in Nat /\ key < kb[m - 1]
      <4> SUFFICES ASSUME m > 1 PROVE kb[m - 1] \in Nat /\ key < kb[m - 1]
        OBVIOUS
      <4>1. m - 1 \in 1 .. nb /\ 1 \in 1 .. nb /\ (m - 1 = 1 \/ 1 < m - 1)
        BY <2>1, <3>0, <3>1
      <4>2. kb[1] <= kb[m - 1] /\ kb[1] \in Nat /\ kb[m - 1] \in Nat
        BY <1>2, <1>4, <4>1
      <4> QED
        BY <1>5, <4>2
    <3> QED
      BY <3>1, <3>2, <3>3, <3>4, <3>5
  <2>3. \A k \in ranges : k \in Share(From(ranges, key), b, m) <=> k \in Share(ranges, np, j)
    <3> TAKE k \in ranges
    <3>1. k \in Share(ranges, np, j) <=> w[j - 1] <= k /\ (m <= nb => k < kb[m])
      BY <1>15, <2>1, <2>2 DEF Share
    <3>2. k \in Share(From(ranges, key), b, m)
            <=> key <= k /\ (m > 1 => kb[m - 1] <= k) /\ (m <= nb => k < kb[m])
      BY <1>10 DEF Share, From
    <3>3. CASE m = 1
      <4>1. w[j - 1] = key /\ ~ (m > 1)
        BY <2>2, <3>3
      <4> QED
        BY <3>1, <3>2, <4>1
    <3>4. CASE m > 1
      <4>1. k \in Nat /\ w[j - 1] = kb[m - 1] /\ (kb[m - 1] <= k => key <= k)
        BY <2>2, <3>4
      <4> QED
        BY <3>1, <3>2, <3>4, <4>1
    <3> QED
      BY <2>2, <3>3, <3>4
  <2>4. Share(From(ranges, key), b, m) \subseteq ranges /\ Share(ranges, np, j) \subseteq ranges
    BY DEF Share, From
  <2> QED
    BY <2>1, <2>3, <2>4
<1>23. Divides(np, ranges, held)
  <2> SUFFICES ASSUME NEW j \in 1 .. n + 1 PROVE held[kids[j]] = Share(ranges, np, j)
    BY <1>14, <1>15 DEF Divides
  <2>1. j \in 1 .. nf + 1 \/ j - nf - 1 \in 1 .. nb + 1
    BY <1>17
  <2> QED
    BY <1>21, <1>22, <2>1
<1> QED
  BY <1>10, <1>15, <1>19, <1>20, <1>23 DEF n

-----------------------------------------------------------------------------
(* Separators                                                              *)

\* The words a buffer may hold where a page has its keys.
LeftKeys == {old[i] : old \in Leftovers, i \in Slots}

\* The keys of a page ascend within its range, some of which lies before the first of
\* them; what its array holds behind the last was left in the buffer or is outside the
\* range.  All of them are keys of from.
Keyed(pg, range, from) ==
    /\ pg.count > 0
    /\ \A i \in 1 .. pg.count : pg.keys[i] \in range /\ pg.keys[i] \in from
    /\ \A i, j \in 1 .. pg.count : i < j => pg.keys[i] < pg.keys[j]
    /\ \E k \in range : k < pg.keys[1]
    /\ \A i \in Slots : i > pg.count => pg.keys[i] \in LeftKeys \/ pg.keys[i] \notin range

\* A key that parts the share of a child in two.
Parts(key, share) == key \in share /\ \E k \in share : k < key

\* Writing leaves the slots behind it.
LEMMA OverwriteRest ==
    ASSUME NEW keys \in [Slots -> Nat], NEW i \in Nat \ {0}, NEW s \in Seq(Nat), NEW m \in Nat, m = i + Len(s)
    PROVE  \A j \in Slots : j >= m => Overwrite(keys, i, s)[j] = keys[j]
<1> TAKE j \in Slots
<1> HAVE j >= m
<1>1. j \in Nat /\ Len(s) \in Nat /\ ~(j \in i .. i + Len(s) - 1)
  BY InternalPageAssumption DEF Slots
<1> QED
  BY <1>1 DEF Overwrite

\* insert leaves the slots behind the keys as they were.
LEMMA InsertKeyRest ==
    ASSUME NEW P, NEW pg \in InternalPages(P), Formed(pg), pg.count > 0,
           NEW key \in Nat, NEW front, NEW back,
           InsertKey(pg, key, front, back).status = "ok",
           NEW np, np = InsertKey(pg, key, front, back).page
    PROVE  \A j \in Slots : j > pg.count + 1 => np.keys[j] = pg.keys[j]
<1> DEFINE n == pg.count
           keys == pg.keys
           i == Position(pg, key)
           t == SubSeq(keys, i, n)
           s == <<key>> \o t
           w == Overwrite(keys, i, s)
<1>1. n \in Nat /\ n <= KeyCapacity /\ KeyCapacity \in Nat /\ keys \in [Slots -> Nat]
  BY PageShape
<1>2. i \in 1 .. n + 1
  BY PositionFound
<1>3. np.keys = w
  <2>1. /\ n # KeyCapacity
        /\ np = [pg EXCEPT !.count = n + 1, !.keys = w, !.kids = InsertAt(pg.kids, i + 1, back)]
    BY DEF InsertKey, NoSpace, Failed, Ok
  <2> HIDE DEF w, i
  <2> QED
    BY <2>1 DEF InternalPages
<1> HIDE DEF i, n, keys
<1>4. i \in Nat \ {0} /\ i <= n + 1
  BY <1>1, <1>2
<1>5. t \in Seq(Nat) /\ Len(t) = n + 1 - i
  BY <1>1, <1>4, SlotsRead
<1> HIDE DEF t
<1>6. s \in Seq(Nat) /\ Len(s) = Len(t) + 1
  BY <1>5, Prefixed
<1> HIDE DEF s
<1> DEFINE m == n + 2
<1>7. m \in Nat /\ m = i + Len(s) /\ \A j \in Slots : j > n + 1 => j >= m
  BY <1>1, <1>4, <1>5, <1>6 DEF Slots
<1> HIDE DEF m
<1>8. \A j \in Slots : j >= m => w[j] = keys[j]
  BY <1>1, <1>4, <1>6, <1>7, OverwriteRest
<1> QED
  BY <1>3, <1>7, <1>8 DEF keys, n

\* The keys of a page that insert wrote, from the place it took.
LEMMA InsertKeyKeys ==
    ASSUME NEW P, NEW pg \in InternalPages(P), Formed(pg), pg.count > 0,
           NEW key \in Nat, NEW front \in P, NEW back \in P,
           InsertKey(pg, key, front, back).status = "ok",
           NEW np, np = InsertKey(pg, key, front, back).page
    PROVE  /\ np.count = pg.count + 1
           /\ \E x \in 1 .. pg.count + 1 :
                 /\ pg.kids[x] = front
                 /\ \A j \in 1 .. np.count : /\ j < x => np.keys[j] = pg.keys[j]
                                             /\ j = x => np.keys[j] = key
                                             /\ j > x => np.keys[j] = pg.keys[j - 1]
<1>1. /\ np \in InternalPages(P) /\ np.count = pg.count + 1
      /\ np.next = pg.next /\ np.prev = pg.prev /\ Len(np.kids) = np.count + 1
  BY InsertKeyWrites
<1>2. PICK i \in 1 .. pg.count + 1 :
         /\ pg.kids[i] = front /\ (i > 1 => pg.keys[i - 1] < key) /\ (i <= pg.count => key <= pg.keys[i])
         /\ \A j \in 1 .. np.count : /\ j < i => np.keys[j] = pg.keys[j]
                                     /\ j = i => np.keys[j] = key
                                     /\ j > i => np.keys[j] = pg.keys[j - 1]
         /\ \A j \in 1 .. np.count + 1 : /\ j <= i => np.kids[j] = pg.kids[j]
                                         /\ j = i + 1 => np.kids[j] = back
                                         /\ j > i + 1 => np.kids[j] = pg.kids[j - 1]
  BY InsertKeyWrites, SMTT(30)
<1> QED
  BY <1>1, <1>2

\* A page with room takes in a key that parts the share of one of its children, unless
\* the slot behind the keys, which insert reads as well, was left with that key in it.
LEMMA TakesIn ==
    ASSUME NEW P, NEW pg \in InternalPages(P), Formed(pg), pg.count < KeyCapacity,
           NEW range \in SUBSET Nat, NEW from, Keyed(pg, range, from),
           NEW key \in from, NEW front \in P, NEW back \in P, NEW at \in DOMAIN pg.kids, pg.kids[at] = front,
           Parts(key, Share(range, pg, at)),
           NEW r, r = InsertKey(pg, key, front, back)
    PROVE  /\ key \notin LeftKeys => r.status = "ok"
           /\ r.status = "ok" => Keyed(r.page, range, from)
<1> DEFINE n == pg.count
           keys == pg.keys
           i == Position(pg, key)
<1>1. /\ n \in Nat /\ n > 0 /\ n < KeyCapacity /\ KeyCapacity \in Nat /\ keys \in [Slots -> Nat]
      /\ DOMAIN pg.kids = 1 .. n + 1 /\ \A j \in 1 .. n : keys[j] \in Nat /\ j \in Slots
  BY PageShape DEF Formed, Keyed
<1>2. /\ key \in range /\ key \in Nat /\ at \in 1 .. n + 1
      /\ at > 1 => keys[at - 1] <= key
      /\ at <= n => key < keys[at]
  BY <1>1 DEF Parts, Share
<1>2a. n \in Nat /\ n > 0 /\ at \in Nat /\ at >= 1 /\ at <= n + 1
  BY <1>1, <1>2
<1>3. PICK low \in range : low < key /\ (at > 1 => keys[at - 1] <= low)
  BY DEF Parts, Share
<1>4. /\ \A j, m \in 1 .. n : j < m => keys[j] < keys[m]
      /\ \A j \in 1 .. n : keys[j] \in range /\ keys[j] \in from
      /\ \E k \in range : k < keys[1]
      /\ \A j \in Slots : j > n => keys[j] \in LeftKeys \/ keys[j] \notin range
  BY DEF Keyed
<1>5. i \in 1 .. n + 1 /\ (i = n + 1 \/ key <= keys[i]) /\ \A j \in 1 .. i - 1 : keys[j] < key
  BY <1>2, PositionFound
<1> HIDE DEF i, keys, n
<1>6. at > 1 => keys[at - 1] < key
  <2>1. low \in Nat
    BY <1>3
  <2>2. at > 1 => at - 1 \in 1 .. n
    BY <1>1, <1>2
  <2> QED
    BY <1>1, <1>2, <1>3, <2>1, <2>2
<1>7. i = at
  <2>1. CASE i < at
    <3>1. i \in 1 .. n /\ at - 1 \in 1 .. n /\ i # n + 1 /\ (i = at - 1 \/ i < at - 1) /\ at > 1
      BY <1>1, <1>2, <1>5, <2>1
    <3>2. keys[i] <= keys[at - 1] /\ keys[i] \in Nat /\ keys[at - 1] \in Nat
      BY <1>1, <1>4, <3>1
    <3> QED
      BY <1>2, <1>5, <1>6, <3>1, <3>2
  <2>2. CASE at < i
    <3>1. at \in 1 .. i - 1 /\ at \in 1 .. n /\ at <= n
      BY <1>1, <1>2, <1>5, <2>2
    <3>2. keys[at] < key /\ key < keys[at] /\ keys[at] \in Nat
      BY <1>1, <1>2, <1>5, <3>1
    <3> QED
      BY <1>2, <3>2
  <2> QED
    BY <1>2, <1>5, <2>1, <2>2
<1>8. key \notin LeftKeys => keys[i] # key
  <2>1. CASE at <= n
    <3>1. at \in 1 .. n
      BY <1>1, <1>2, <2>1
    <3> QED
      BY <1>1, <1>2, <1>7, <2>1, <3>1
  <2>2. CASE at = n + 1
    <3>1. at \in Slots /\ at > n
      BY <1>1, <2>2 DEF Slots
    <3> QED
      BY <1>2, <1>4, <1>7, <3>1
  <2> QED
    BY <1>1, <1>2, <2>1, <2>2
<1>9. key \notin LeftKeys => r.status = "ok"
  <2> HAVE key \notin LeftKeys
  <2>1. pg.count # KeyCapacity /\ pg.count # 0
    BY <1>1 DEF n
  <2>2. pg.keys[Position(pg, key)] # key /\ pg.kids[Position(pg, key)] = front
    BY <1>7, <1>8 DEF i, keys
  <2> QED
    BY <2>1, <2>2 DEF InsertKey, Ok
<1> SUFFICES ASSUME r.status = "ok" PROVE Keyed(r.page, range, from)
  BY <1>9
<1> DEFINE np == r.page
<1>10. /\ Formed(pg) /\ pg.count > 0 /\ InsertKey(pg, key, front, back).status = "ok"
       /\ np = InsertKey(pg, key, front, back).page
  BY <1>1 DEF n
<1> HIDE DEF np
<1>11. /\ np.count = n + 1
       /\ \E x \in 1 .. n + 1 :
             /\ pg.kids[x] = front
             /\ \A j \in 1 .. np.count : /\ j < x => np.keys[j] = keys[j]
                                         /\ j = x => np.keys[j] = key
                                         /\ j > x => np.keys[j] = keys[j - 1]
  <2>1. key \in Nat
    BY <1>2
  <2> QED
    BY <1>10, <2>1, InsertKeyKeys DEF n, keys
<1>12. \A j \in 1 .. n + 1 : /\ j < at => np.keys[j] = keys[j]
                             /\ j = at => np.keys[j] = key
                             /\ j > at => np.keys[j] = keys[j - 1]
  <2>1. PICK x \in 1 .. n + 1 :
             /\ pg.kids[x] = front
             /\ \A j \in 1 .. np.count : /\ j < x => np.keys[j] = keys[j]
                                         /\ j = x => np.keys[j] = key
                                         /\ j > x => np.keys[j] = keys[j - 1]
    BY <1>11
  <2>2. x = at
    BY <1>1, <1>2, <2>1 DEF Formed
  <2> QED
    BY <1>11, <2>1, <2>2
<1>13. \A j \in Slots : j > n + 1 => np.keys[j] = keys[j]
  <2>1. \A j \in Slots : j > pg.count + 1 => np.keys[j] = pg.keys[j]
    BY <1>2, <1>10, InsertKeyRest
  <2> QED
    BY <2>1 DEF n, keys
<1>14. \A j \in 1 .. n + 1 : \/ j < at /\ j \in 1 .. n /\ np.keys[j] = keys[j]
                             \/ j = at /\ np.keys[j] = key
                             \/ j > at /\ j - 1 \in 1 .. n /\ j - 1 >= at /\ np.keys[j] = keys[j - 1]
  <2> TAKE j \in 1 .. n + 1
  <2>1. CASE j < at
    <3>1. j \in 1 .. n
      BY <1>2a, <2>1
    <3> QED
      BY <1>12, <2>1, <3>1
  <2>2. CASE j = at
    BY <1>12, <2>2
  <2>3. CASE j > at
    <3>1. j - 1 \in 1 .. n /\ j - 1 >= at
      BY <1>2a, <2>3
    <3> QED
      BY <1>12, <2>3, <3>1
  <2> QED
    BY <1>2a, <2>1, <2>2, <2>3
<1>15. \A j \in 1 .. n : /\ j < at => keys[j] < key
                         /\ j >= at => key < keys[j]
  <2> TAKE j \in 1 .. n
  <2>1. ASSUME j < at PROVE keys[j] < key
    <3>1. at > 1 /\ at - 1 \in 1 .. n /\ (j = at - 1 \/ j < at - 1)
      BY <1>2a, <2>1
    <3>2. keys[j] <= keys[at - 1] /\ keys[j] \in Nat /\ keys[at - 1] \in Nat
      BY <1>1, <1>4, <3>1
    <3> QED
      BY <1>2, <1>6, <3>1, <3>2
  <2>2. ASSUME j >= at PROVE key < keys[j]
    <3>1. at \in 1 .. n /\ at <= n /\ (j = at \/ at < j)
      BY <1>2a, <2>2
    <3>2. keys[at] <= keys[j] /\ keys[j] \in Nat /\ keys[at] \in Nat
      BY <1>1, <1>4, <3>1
    <3> QED
      BY <1>2, <3>1, <3>2
  <2> QED
    BY <2>1, <2>2
<1>16. \A j \in 1 .. n + 1 : np.keys[j] \in range /\ np.keys[j] \in from
  BY <1>2, <1>4, <1>14
<1>17. \A j, m \in 1 .. n + 1 : j < m => np.keys[j] < np.keys[m]
  <2> SUFFICES ASSUME NEW j \in 1 .. n + 1, NEW m \in 1 .. n + 1, j < m PROVE np.keys[j] < np.keys[m]
    OBVIOUS
  <2> DEFINE a == np.keys[j]
             b == np.keys[m]
  <2>1. CASE j < at /\ m < at
    <3>1. ~(j = at) /\ ~(j > at) /\ ~(m = at) /\ ~(m > at)
      BY <1>2a, <2>1
    <3>2. j \in 1 .. n /\ a = keys[j]
      BY <1>14, <3>1
    <3>3. m \in 1 .. n /\ b = keys[m]
      BY <1>14, <3>1
    <3> QED
      BY <1>4, <3>2, <3>3
  <2>2. CASE j < at /\ m = at
    <3>1. ~(j = at) /\ ~(j > at) /\ ~(m < at) /\ ~(m > at)
      BY <1>2a, <2>2
    <3>2. j \in 1 .. n /\ a = keys[j]
      BY <1>14, <3>1
    <3>3. b = key
      BY <1>14, <3>1
    <3> QED
      BY <1>15, <2>2, <3>2, <3>3
  <2>3. CASE j < at /\ m > at
    <3>0. ~(j = at) /\ ~(j > at) /\ ~(m = at) /\ ~(m < at)
      BY <1>2a, <2>3
    <3>1. j \in 1 .. n /\ a = keys[j]
      BY <1>14, <3>0
    <3>2. m - 1 \in 1 .. n /\ m - 1 >= at /\ b = keys[m - 1]
      BY <1>14, <3>0
    <3>3. a < key /\ a \in Nat
      BY <1>1, <1>15, <2>3, <3>1
    <3>4. key < b /\ b \in Nat
      BY <1>1, <1>15, <3>2
    <3> QED
      BY <1>2, <3>3, <3>4
  <2>4. CASE j = at /\ m > at
    <3>1. ~(j < at) /\ ~(j > at) /\ ~(m < at) /\ ~(m = at)
      BY <1>2a, <2>4
    <3>2. a = key
      BY <1>14, <3>1
    <3>3. m - 1 \in 1 .. n /\ m - 1 >= at /\ b = keys[m - 1]
      BY <1>14, <3>1
    <3> QED
      BY <1>15, <3>2, <3>3
  <2>5. CASE j > at /\ m > at
    <3>1. ~(j < at) /\ ~(j = at) /\ ~(m < at) /\ ~(m = at) /\ j - 1 < m - 1
      BY <1>2a, <2>5
    <3>2. j - 1 \in 1 .. n /\ a = keys[j - 1]
      BY <1>14, <3>1
    <3>3. m - 1 \in 1 .. n /\ b = keys[m - 1]
      BY <1>14, <3>1
    <3> QED
      BY <1>4, <3>1, <3>2, <3>3
  <2> QED
    BY <1>2a, <2>1, <2>2, <2>3, <2>4, <2>5
<1>18. \E k \in range : k < np.keys[1]
  <2>1. 1 \in 1 .. n + 1 /\ ~(1 > at) /\ (1 < at \/ 1 = at)
    BY <1>2a
  <2>2. np.keys[1] = keys[1] \/ np.keys[1] = key
    BY <1>14, <2>1
  <2> QED
    BY <1>3, <1>4, <2>2
<1>19. \A j \in Slots : j > n + 1 => np.keys[j] \in LeftKeys \/ np.keys[j] \notin range
  <2> TAKE j \in Slots
  <2> HAVE j > n + 1
  <2>1. j > n
    BY <1>1 DEF Slots
  <2> QED
    BY <1>4, <1>13, <2>1
<1>20. Keyed(np, range, from)
  <2>1. n + 1 > 0
    BY <1>1
  <2> QED
    BY <1>11, <1>16, <1>17, <1>18, <1>19, <2>1 DEF Keyed
<1> QED
  BY <1>20 DEF np

\* Both halves of a split page are keyed, and the key that moves up parts the range:
\* the keys the front page leaves in its array are outside what it keeps.
LEMMA SplitKeyed ==
    ASSUME NEW P, NEW pg \in InternalPages(P), Formed(pg), pg.count >= 3,
           NEW frontNo \in Nat, NEW backNo \in Nat,
           NEW old \in Leftovers, NEW s, s = SplitPage(pg, frontNo, backNo, old),
           NEW range \in SUBSET Nat, NEW from, Keyed(pg, range, from)
    PROVE  /\ Keyed(s.front, Below(range, s.key), from) /\ Keyed(s.back, From(range, s.key), from)
           /\ Parts(s.key, range) /\ s.key \in from
<1> DEFINE n == pg.count
           keys == pg.keys
           at == n \div 2
           u == SubSeq(keys, at + 2, n)
           w == Overwrite(old, 1, u)
<1>1. /\ n \in Nat /\ n >= 3 /\ n <= KeyCapacity /\ KeyCapacity \in Nat
      /\ keys \in [Slots -> Nat] /\ \A j \in 1 .. n : keys[j] \in Nat /\ j \in Slots
  BY PageShape
<1>2. /\ \A j, m \in 1 .. n : j < m => keys[j] < keys[m]
      /\ \A j \in 1 .. n : keys[j] \in range /\ keys[j] \in from
      /\ \E k \in range : k < keys[1]
      /\ \A j \in Slots : j > n => keys[j] \in LeftKeys \/ keys[j] \notin range
  BY DEF Keyed
<1>3. at \in Nat /\ at >= 1 /\ at + 2 <= n
  BY <1>1, SMTT(30)
<1>4. /\ s.key = keys[at + 1]
      /\ s.front.count = at /\ s.front.keys = keys
      /\ s.back.count = n - at - 1 /\ s.back.keys = w
  <2>1. /\ InitPage(frontNo, pg.next, old).keys = old
        /\ s.front = [pg EXCEPT !.count = at, !.next = backNo, !.kids = SubSeq(pg.kids, 1, at + 1)]
        /\ s.back = [InitPage(frontNo, pg.next, old) EXCEPT
                        !.count = n - at - 1, !.keys = w, !.kids = SubSeq(pg.kids, at + 2, n + 1)]
        /\ s.key = keys[at + 1]
    BY DEF SplitPage, InitPage
  <2> HIDE DEF w, at
  <2> QED
    BY <2>1 DEF InternalPages, InitPage
<1> HIDE DEF n, keys, at
<1>5. u \in Seq(Nat) /\ Len(u) = n - at - 1 /\ \A j \in 1 .. n - at - 1 : u[j] = keys[at + 1 + j]
  <2> DEFINE lo == at + 2
  <2>1. lo \in Nat \ {0} /\ lo <= n + 1 /\ n + 1 - lo = n - at - 1
    BY <1>1, <1>3
  <2> HIDE DEF lo
  <2>2. /\ SubSeq(keys, lo, n) \in Seq(Nat) /\ Len(SubSeq(keys, lo, n)) = n + 1 - lo
        /\ \A j \in 1 .. n + 1 - lo : SubSeq(keys, lo, n)[j] = keys[lo + j - 1]
    BY <1>1, <2>1, SlotsRead
  <2>3. \A j \in 1 .. n - at - 1 : lo + j - 1 = at + 1 + j
    BY <1>1, <1>3 DEF lo
  <2> QED
    BY <2>1, <2>2, <2>3 DEF lo
<1> HIDE DEF u
<1> DEFINE low == s.key
<1>6. low = keys[at + 1] /\ low \in Nat /\ low \in range /\ low \in from /\ at + 1 \in 1 .. n
  <2>1. at + 1 \in 1 .. n
    BY <1>1, <1>3
  <2> QED
    BY <1>1, <1>2, <1>4, <2>1
<1>7. PICK least \in range : least < keys[1]
  BY <1>2
<1>8. least \in Nat /\ least < low /\ keys[1] < low
  <2>1. 1 \in 1 .. n /\ 1 < at + 1 /\ least \in Nat
    BY <1>1, <1>3
  <2>2. keys[1] < keys[at + 1] /\ keys[1] \in Nat
    BY <1>1, <1>2, <1>6, <2>1
  <2> QED
    BY <1>6, <1>7, <2>1, <2>2
<1> HIDE DEF low
<1>9. \A j \in Slots : /\ j >= 1 /\ j <= at => j \in 1 .. n /\ keys[j] < low
                       /\ j > at /\ j <= n => ~(keys[j] < low)
  <2> TAKE j \in Slots
  <2>1. ASSUME j >= 1, j <= at PROVE j \in 1 .. n /\ keys[j] < low
    <3>1. j \in 1 .. n /\ j < at + 1
      BY <1>1, <1>3, <2>1 DEF Slots
    <3> QED
      BY <1>2, <1>6, <3>1
  <2>2. ASSUME j > at, j <= n PROVE ~(keys[j] < low)
    <3>1. j \in 1 .. n /\ (j = at + 1 \/ at + 1 < j)
      BY <1>1, <1>3, <2>2 DEF Slots
    <3>2. keys[j] = low \/ low < keys[j]
      BY <1>2, <1>6, <3>1
    <3>3. keys[j] \in Nat
      BY <1>1, <3>1
    <3> QED
      BY <1>6, <3>2, <3>3
  <2> QED
    BY <2>1, <2>2
<1>10. Keyed(s.front, Below(range, low), from)
  <2> DEFINE part == Below(range, low)
  <2>1. at > 0 /\ 1 .. at \subseteq 1 .. n /\ 1 .. at \subseteq Slots
    BY <1>1, <1>3 DEF Slots
  <2>2. \A j \in 1 .. at : keys[j] \in part /\ keys[j] \in from
    <3> TAKE j \in 1 .. at
    <3>1. j \in Slots /\ j >= 1 /\ j <= at
      BY <1>3, <2>1
    <3> QED
      BY <1>2, <1>9, <3>1 DEF Below
  <2>3. \A j, m \in 1 .. at : j < m => keys[j] < keys[m]
    BY <1>2, <2>1
  <2>4. least \in part
    BY <1>8 DEF Below
  <2>5. \A j \in Slots : j > at => keys[j] \in LeftKeys \/ keys[j] \notin part
    <3> TAKE j \in Slots
    <3> HAVE j > at
    <3>1. j <= n \/ j > n
      BY <1>1 DEF Slots
    <3> QED
      BY <1>2, <1>9, <3>1 DEF Below
  <2> HIDE DEF part
  <2> QED
    BY <1>4, <1>7, <2>1, <2>2, <2>3, <2>4, <2>5 DEF Keyed, part
<1>11. /\ w \in [Slots -> Nat]
       /\ \A j \in 1 .. n - at - 1 : w[j] = keys[at + 1 + j]
       /\ \A j \in Slots : j > n - at - 1 => w[j] \in LeftKeys
  <2>1. old \in [Slots -> Nat] /\ \A j \in Slots : old[j] \in LeftKeys
    BY LeftoversAssumption DEF LeftKeys
  <2>2. 1 \in Nat \ {0} /\ 1 + Len(u) \in Nat /\ 1 + Len(u) = n - at /\ Len(u) <= KeyCapacity
    BY <1>1, <1>3, <1>5
  <2>3. /\ w \in [Slots -> Nat]
        /\ \A j \in 1 .. Len(u) : w[j] = u[j]
    <3>1. /\ w \in [Slots -> Nat]
          /\ \A j \in Slots : /\ j < 1 => w[j] = old[j]
                              /\ 1 <= j /\ j - 1 < Len(u) => w[j] = u[j - 1 + 1]
      BY <1>5, <2>1, <2>2, Overwritten
    <3> HIDE DEF w
    <3>2. ASSUME NEW j \in 1 .. Len(u) PROVE w[j] = u[j]
      <4>0. Len(u) \in Nat /\ Len(u) <= KeyCapacity /\ KeyCapacity \in Nat
        BY <1>1, <1>5, <2>2
      <4>1. j \in Slots /\ 1 <= j /\ j - 1 < Len(u) /\ j - 1 + 1 = j
        BY <4>0 DEF Slots
      <4> QED
        BY <3>1, <4>1
    <3> QED
      BY <3>1, <3>2
  <2>4. \A j \in Slots : j >= n - at => w[j] = old[j]
    <3> DEFINE m == n - at
    <3>1. m \in Nat /\ m = 1 + Len(u)
      BY <2>2
    <3> HIDE DEF m
    <3>2. \A j \in Slots : j >= m => w[j] = old[j]
      BY <1>5, <2>1, <2>2, <3>1, OverwriteRest
    <3> QED
      BY <3>2 DEF m
  <2>5. \A j \in Slots : j > n - at - 1 => j >= n - at
    BY <1>1, <1>3 DEF Slots
  <2> QED
    BY <1>5, <2>1, <2>3, <2>4, <2>5
<1> HIDE DEF w
<1>12. Keyed(s.back, From(range, low), from)
  <2> DEFINE part == From(range, low)
             c == n - at - 1
  <2>1. c \in Nat /\ c > 0 /\ 1 \in 1 .. c /\ \A j \in 1 .. c : at + 1 + j \in 1 .. n /\ at + 1 < at + 1 + j
    BY <1>1, <1>3
  <2>2. \A j \in 1 .. c : w[j] = keys[at + 1 + j] /\ low < w[j] /\ w[j] \in range /\ w[j] \in from /\ w[j] \in Nat
    <3> TAKE j \in 1 .. c
    <3> DEFINE m == at + 1 + j
    <3>1. m \in 1 .. n /\ at + 1 < m /\ w[j] = keys[m]
      BY <1>11, <2>1
    <3> HIDE DEF m
    <3>2. keys[at + 1] < keys[m] /\ keys[m] \in range /\ keys[m] \in from /\ keys[m] \in Nat
      BY <1>1, <1>2, <1>6, <3>1
    <3> QED
      BY <1>6, <3>1, <3>2 DEF m
  <2>3. \A j \in 1 .. c : w[j] \in part /\ w[j] \in from
    BY <1>6, <2>2 DEF From
  <2>4. \A j, m \in 1 .. c : j < m => w[j] < w[m]
    <3> SUFFICES ASSUME NEW j \in 1 .. c, NEW m \in 1 .. c, j < m PROVE w[j] < w[m]
      OBVIOUS
    <3> DEFINE x == at + 1 + j
               y == at + 1 + m
    <3>1. x < y
      BY <1>3, <2>1
    <3>2. x \in 1 .. n /\ y \in 1 .. n /\ w[j] = keys[x] /\ w[m] = keys[y]
      BY <2>1, <2>2
    <3> HIDE DEF x, y
    <3> QED
      BY <1>2, <3>1, <3>2
  <2>5. low \in part /\ low < w[1]
    BY <1>6, <2>1, <2>2 DEF From
  <2>6. s.back.count = c /\ s.back.keys = w
    BY <1>4
  <2>7. \A j \in Slots : j > c => w[j] \in LeftKeys
    BY <1>11
  <2> HIDE DEF part, c
  <2> QED
    BY <2>1, <2>3, <2>4, <2>5, <2>6, <2>7 DEF Keyed, part
<1>13. Parts(low, range)
  BY <1>6, <1>8 DEF Parts
<1> QED
  BY <1>6, <1>10, <1>12, <1>13 DEF low

\* A page with one key is keyed where something lies before the key.
LEMMA NewPageKeyed ==
    ASSUME NEW P, NEW front \in P, NEW back \in P, NEW key \in Nat, NEW range \in SUBSET Nat, Parts(key, range),
           NEW from, key \in from, NEW old \in Leftovers,
           NEW np, np = InsertKey(InitPage(0, 0, old), key, front, back).page
    PROVE  Keyed(np, range, from)
<1> DEFINE w == [old EXCEPT ![1] = key]
<1>1. KeyCapacity \in Nat /\ KeyCapacity >= 8 /\ 1 \in Slots /\ 1 > 0
  BY InternalPageAssumption DEF Slots
<1>2. np.count = 1 /\ np.keys = w
  <2>1. InsertKey(InitPage(0, 0, old), key, front, back)
          = Ok([InitPage(0, 0, old) EXCEPT !.count = 1, !.keys = w, !.kids = <<front, back>>])
    <3>1. InitPage(0, 0, old).count = 0 /\ InitPage(0, 0, old).keys = old /\ 0 # KeyCapacity
      BY <1>1 DEF InitPage
    <3> QED
      BY <3>1 DEF InsertKey
  <2>2. np = [InitPage(0, 0, old) EXCEPT !.count = 1, !.keys = w, !.kids = <<front, back>>]
    BY <2>1 DEF Ok
  <2> HIDE DEF w
  <2> QED
    BY <2>2 DEF InitPage
<1>3. w[1] = key /\ \A j \in Slots : j > 1 => w[j] \in LeftKeys
  <2>1. old \in [Slots -> Nat] /\ \A j \in Slots : old[j] \in LeftKeys
    BY LeftoversAssumption DEF LeftKeys
  <2> QED
    BY <1>1, <2>1 DEF Slots
<1> HIDE DEF w
<1>4. \A j \in 1 .. 1 : j = 1
  OBVIOUS
<1>5. \A i, j \in 1 .. 1 : ~(i < j)
  OBVIOUS
<1>6. \A i \in 1 .. np.count : np.keys[i] \in range /\ np.keys[i] \in from
  BY <1>2, <1>3, <1>4 DEF Parts
<1>7. \E k \in range : k < np.keys[1]
  BY <1>2, <1>3 DEF Parts
<1>8. \A j \in Slots : j > np.count => np.keys[j] \in LeftKeys \/ np.keys[j] \notin range
  BY <1>2, <1>3
<1>9. \A i, j \in 1 .. np.count : i < j => np.keys[i] < np.keys[j]
  BY <1>2, <1>5
<1> QED
  BY <1>1, <1>2, <1>6, <1>7, <1>8, <1>9 DEF Keyed
=============================================================================
