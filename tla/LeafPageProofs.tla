--------------------------- MODULE LeafPageProofs ---------------------------
(***************************************************************************)
(* Proofs about LeafPage.tla, for every page size, every set of keys and   *)
(* sizes and every sequence of calls: the header's counters agree with the *)
(* records and the fragments, and no two areas of a page share a byte.     *)
(*                                                                         *)
(* Both are one inductive invariant, Sound, of each of the two pages by    *)
(* itself: every operation of a page (a record put on the stack, into a    *)
(* fragment, taken out) keeps it, and so do those that repeat it, vacuum,  *)
(* merge and balance, by induction over the records they move.             *)
(***************************************************************************)
EXTENDS LeafPage, Induction

-----------------------------------------------------------------------------
(* Sums of sequences                                                       *)

\* SumOf step by step: the sums of the first n elements.
LEMMA SumSteps ==
    ASSUME NEW s, Len(s) \in Nat, \A n \in 1 .. Len(s) : s[n] \in Int
    PROVE  \E h \in [0 .. Len(s) -> Int] :
             /\ h[0] = 0
             /\ \A n \in 1 .. Len(s) : h[n] = h[n - 1] + s[n]
             /\ SumOf(s) = h[Len(s)]
<1> DEFINE N == Len(s)
           IsSum(h) == h = [n \in 0 .. Len(s) |-> IF n = 0 THEN 0 ELSE h[n - 1] + s[n]]
           f == [n \in 1 .. N |-> [x \in Int |-> x + s[n]]]
           sum == CHOOSE h : IsSum(h)
<1>0. N \in Nat
  OBVIOUS
<1>1. f \in [1 .. N -> [Int -> Int]]
  OBVIOUS
<1>2. PICK h \in [0 .. N -> Int] : h[0] = 0 /\ \A n \in 1 .. N : h[n] = f[n][h[n - 1]]
  <2> DEFINE D == Int
             base == 0
  <2>0. N \in Nat
    BY <1>0
  <2>1. base \in D
    OBVIOUS
  <2>3. f \in [1 .. N -> [D -> D]]
    BY <1>1
  <2> HIDE DEF N, f, D, base, IsSum, sum
  <2>2. \E h \in [0 .. N -> D] : h[0] = base /\ \A n \in 1 .. N : h[n] = f[n][h[n - 1]]
    BY <2>0, <2>1, <2>3, Iteration, SMTT(30)
  <2> QED
    BY <2>2, Zenon DEF D, base
<1>3. IsSum(h)
  <2>1. ASSUME NEW n \in 0 .. N PROVE h[n] = IF n = 0 THEN 0 ELSE h[n - 1] + s[n]
    <3>1. CASE n = 0
      BY <3>1, <1>2
    <3>2. CASE n # 0
      <4>1. h[n] = f[n][h[n - 1]] /\ n \in 1 .. N /\ h[n - 1] \in Int
        <5> HIDE DEF f
        <5> QED
          BY <1>2, <3>2, <1>0
      <4> QED
        BY <3>2, <4>1
    <3> QED
      BY <3>1, <3>2
  <2> QED
    BY <2>1
<1>4. IsSum(sum)
  <2> HIDE DEF IsSum
  <2> QED
    BY <1>3
<1>5. SumOf(s) = sum[Len(s)]
  BY DEF SumOf
<1>6. \A n \in 0 .. Len(s) : sum[n] = IF n = 0 THEN 0 ELSE sum[n - 1] + s[n]
  <2> HIDE DEF sum
  <2> QED
    BY <1>4
<1>7. sum \in [0 .. Len(s) -> Int]
  <2> HIDE DEF sum
  <2> DEFINE S == {n \in 0 .. N : sum[n] \in Int}
  <2>1. 0 \in S
    BY <1>6, <1>0
  <2>2. ASSUME NEW n \in 0 .. N - 1, n \in S PROVE n + 1 \in S
    <3>1. sum[n + 1] = sum[n] + s[n + 1] /\ n + 1 \in 1 .. N
      <4>1. n + 1 \in 0 .. Len(s) /\ n + 1 # 0 /\ (n + 1) - 1 = n
        BY <1>0
      <4> QED
        BY <1>6, <1>0, <4>1
    <3>2. s[n + 1] \in Int
      BY <3>1
    <3> QED
      BY <3>1, <3>2, <2>2
  <2>3. \A n \in 0 .. N : n \in S
    <3> HIDE DEF S, N
    <3> QED
      BY <1>0, <2>1, <2>2, UpTo
  <2> QED
    BY <1>4, <2>3
<1> HIDE DEF sum
<1>8. sum[0] = 0 /\ \A n \in 1 .. Len(s) : sum[n] = sum[n - 1] + s[n]
  BY <1>6
<1> QED
  BY <1>5, <1>7, <1>8

\* Nothing sums up to nothing.
LEMMA SumOfNone == ASSUME NEW s, Len(s) = 0 PROVE SumOf(s) = 0
BY SumSteps

\* With no negative element, no part of a sum is more than all of it.
LEMMA SumBounds ==
    ASSUME NEW s, Len(s) \in Nat, \A n \in 1 .. Len(s) : s[n] \in Nat
    PROVE  \E h \in [0 .. Len(s) -> Nat] :
             /\ h[0] = 0
             /\ \A n \in 1 .. Len(s) : h[n] = h[n - 1] + s[n]
             /\ SumOf(s) = h[Len(s)]
             /\ \A n \in 0 .. Len(s) : h[n] <= SumOf(s)
<1>1. PICK h \in [0 .. Len(s) -> Int] :
             /\ h[0] = 0
             /\ \A n \in 1 .. Len(s) : h[n] = h[n - 1] + s[n]
             /\ SumOf(s) = h[Len(s)]
  BY SumSteps
<1> DEFINE N == Len(s)
           S == {n \in 0 .. N : h[n] >= 0}
           T == {n \in 0 .. N : h[N - n] <= h[N]}
<1>2. N \in Nat
  OBVIOUS
<1>2a. \A m \in 0 .. N : h[m] \in Int
  BY <1>1
<1>3. \A n \in 0 .. N : n \in S
  <2>1. 0 \in S
    BY <1>1, <1>2
  <2>2. ASSUME NEW n \in 0 .. N - 1, n \in S PROVE n + 1 \in S
    <3>1. n + 1 \in 1 .. N /\ (n + 1) - 1 = n
      BY <1>2
    <3>2. h[n + 1] = h[n] + s[n + 1] /\ s[n + 1] \in Nat /\ h[n] \in Int /\ h[n] >= 0
      BY <1>1, <2>2, <3>1
    <3> QED
      BY <3>1, <3>2
  <2> HIDE DEF S, N
  <2> QED
    BY <1>2, <2>1, <2>2, UpTo
<1>4. \A n \in 0 .. N : n \in T
  <2>1. 0 \in T
    BY <1>1, <1>2
  <2>2. ASSUME NEW n \in 0 .. N - 1, n \in T PROVE n + 1 \in T
    <3>1. N - n \in 1 .. N /\ (N - n) - 1 = N - (n + 1) /\ n + 1 \in 0 .. N
      BY <1>2
    <3>2. h[N - n] = h[N - (n + 1)] + s[N - n] /\ s[N - n] \in Nat /\ h[N - n] <= h[N]
      BY <1>1, <2>2, <3>1
    <3>3. h[N - (n + 1)] \in Int /\ h[N] \in Int
      <4>1. N - (n + 1) \in 0 .. N /\ N \in 0 .. N
        BY <1>2
      <4> QED
        BY <1>2a, <4>1
    <3> QED
      BY <3>1, <3>2, <3>3
  <2> HIDE DEF T, N
  <2> QED
    BY <1>2, <2>1, <2>2, UpTo
<1>5. ASSUME NEW n \in 0 .. N PROVE h[n] \in Nat /\ h[n] <= SumOf(s)
  <2>1. N - n \in 0 .. N /\ N - (N - n) = n
    BY <1>2
  <2>2. n \in S /\ N - n \in T
    BY <1>3, <1>4, <2>1
  <2>3. h[n] \in Int /\ h[n] >= 0
    BY <1>2a, <2>2
  <2>4. h[N - (N - n)] <= h[N]
    BY <2>2
  <2> QED
    BY <1>1, <2>1, <2>3, <2>4
<1>6. h \in [0 .. Len(s) -> Nat]
  BY <1>1, <1>5
<1> QED
  BY <1>1, <1>5, <1>6

\* One element more, wherever it is put, makes the sum greater by itself.
LEMMA SumInserted ==
    ASSUME NEW s, NEW t, NEW i, NEW x \in Int,
           Len(s) \in Nat, Len(t) = Len(s) + 1, i \in 1 .. Len(t),
           \A n \in 1 .. Len(s) : s[n] \in Int,
           \A n \in 1 .. i - 1 : t[n] = s[n],
           t[i] = x,
           \A n \in i + 1 .. Len(t) : t[n] = s[n - 1]
    PROVE  SumOf(t) = SumOf(s) + x
<1> DEFINE N == Len(s)
<1>0. N \in Nat /\ i \in Nat /\ i >= 1 /\ i <= N + 1
  OBVIOUS
<1>1. \A n \in 1 .. N + 1 : t[n] \in Int
  <2> TAKE n \in 1 .. N + 1
  <2>1. CASE n < i
    BY <1>0, <2>1
  <2>2. CASE n = i
    BY <2>2
  <2>3. CASE n > i
    BY <1>0, <2>3
  <2> QED
    BY <1>0, <2>1, <2>2, <2>3
<1>2. PICK h \in [0 .. Len(s) -> Int] :
             /\ h[0] = 0
             /\ \A n \in 1 .. Len(s) : h[n] = h[n - 1] + s[n]
             /\ SumOf(s) = h[Len(s)]
  BY SumSteps
<1>3. PICK g \in [0 .. Len(t) -> Int] :
             /\ g[0] = 0
             /\ \A n \in 1 .. Len(t) : g[n] = g[n - 1] + t[n]
             /\ SumOf(t) = g[Len(t)]
  <2>1. Len(t) \in Nat /\ \A n \in 1 .. Len(t) : t[n] \in Int
    BY <1>0, <1>1
  <2> QED
    BY <2>1, SumSteps
<1> DEFINE S == {n \in 0 .. N + 1 : (n < i => g[n] = h[n]) /\ (n >= i => g[n] = h[n - 1] + x)}
<1>4. 0 \in S
  BY <1>0, <1>2, <1>3
<1>5. ASSUME NEW n \in 0 .. N, n \in S PROVE n + 1 \in S
  <2>1. g[n + 1] = g[n] + t[n + 1]
    <3>1. n + 1 \in 1 .. Len(t) /\ (n + 1) - 1 = n
      BY <1>0
    <3> QED
      BY <1>3, <3>1
  <2>2. CASE n + 1 < i
    <3>1. n + 1 \in 1 .. Len(s) /\ (n + 1) - 1 = n /\ n + 1 \in 1 .. i - 1
      BY <1>0, <2>2
    <3>2. h[n + 1] = h[n] + s[n + 1] /\ t[n + 1] = s[n + 1]
      BY <1>2, <3>1
    <3>3. g[n] = h[n]
      BY <1>0, <1>5, <2>2
    <3> QED
      BY <1>0, <2>1, <2>2, <3>2, <3>3
  <2>3. CASE n + 1 = i
    <3>1. g[n] = h[n]
      BY <1>0, <1>5, <2>3
    <3> QED
      BY <1>0, <2>1, <2>3, <3>1
  <2>4. CASE n + 1 > i
    <3>1. n \in 1 .. Len(s) /\ n + 1 \in i + 1 .. Len(t) /\ (n + 1) - 1 = n
      BY <1>0, <2>4
    <3>2. h[n] = h[n - 1] + s[n] /\ t[n + 1] = s[n]
      BY <1>2, <3>1
    <3>3. g[n] = h[n - 1] + x
      BY <1>0, <1>5, <2>4
    <3>4. n - 1 \in 0 .. Len(s) /\ n \in 0 .. Len(s)
      BY <1>0, <3>1
    <3>5. h[n - 1] \in Int /\ s[n] \in Int /\ h[n] \in Int
      BY <1>2, <3>1, <3>4
    <3>6. g[n + 1] = (h[n - 1] + x) + s[n]
      BY <2>1, <3>2, <3>3
    <3>7. g[n + 1] = h[n] + x
      <4> DEFINE a == h[n - 1]
                 b == s[n]
                 c == h[n]
                 d == g[n + 1]
      <4>1. c = a + b /\ d = (a + x) + b /\ a \in Int /\ b \in Int /\ x \in Int
        BY <3>2, <3>5, <3>6
      <4> HIDE DEF a, b, c, d
      <4>2. d = c + x
        BY <4>1
      <4> QED
        BY <4>2 DEF c, d
    <3>8. n + 1 \in 0 .. N + 1 /\ n + 1 >= i /\ ~ (n + 1 < i)
      BY <1>0, <2>4
    <3> QED
      BY <3>1, <3>7, <3>8
  <2> QED
    BY <1>0, <2>2, <2>3, <2>4
<1>6. N + 1 \in S
  <2> HIDE DEF S, N
  <2>1. N + 1 \in Nat /\ (N + 1) - 1 = N /\ N + 1 \in 0 .. N + 1
    BY <1>0
  <2>2. \A n \in 0 .. N + 1 : n \in S
    BY <1>4, <1>5, <2>1, UpTo
  <2> QED
    BY <2>1, <2>2
<1>7. g[N + 1] = h[N] + x
  BY <1>0, <1>6
<1> QED
  BY <1>2, <1>3, <1>7

\* Sequences with the same elements have the same sum.
LEMMA SumSame ==
    ASSUME NEW s, NEW t, Len(s) \in Nat, Len(t) = Len(s),
           \A n \in 1 .. Len(s) : s[n] \in Int /\ t[n] = s[n]
    PROVE  SumOf(t) = SumOf(s)
<1> DEFINE N == Len(s)
<1>1. PICK h \in [0 .. Len(s) -> Int] :
             /\ h[0] = 0
             /\ \A n \in 1 .. Len(s) : h[n] = h[n - 1] + s[n]
             /\ SumOf(s) = h[Len(s)]
  BY SumSteps
<1>2. PICK g \in [0 .. Len(t) -> Int] :
             /\ g[0] = 0
             /\ \A n \in 1 .. Len(t) : g[n] = g[n - 1] + t[n]
             /\ SumOf(t) = g[Len(t)]
  BY SumSteps
<1> DEFINE S == {n \in 0 .. N : g[n] = h[n]}
<1>3. 0 \in S
  BY <1>1, <1>2
<1>4. ASSUME NEW n \in 0 .. N - 1, n \in S PROVE n + 1 \in S
  <2>1. n + 1 \in 1 .. N /\ (n + 1) - 1 = n
    OBVIOUS
  <2>2. g[n + 1] = g[n] + t[n + 1] /\ h[n + 1] = h[n] + s[n + 1]
    BY <1>1, <1>2, <2>1
  <2> QED
    BY <1>4, <2>1, <2>2
<1>5. \A n \in 0 .. N : n \in S
  <2> HIDE DEF S
  <2> QED
    BY <1>3, <1>4, UpTo
<1> QED
  BY <1>1, <1>2, <1>5

-----------------------------------------------------------------------------
(* One record or fragment put in or taken out                              *)

\* t is s with x put in at place i; s is t with its element i taken out.
Inserted(t, s, i, x) ==
    /\ Len(t) = Len(s) + 1
    /\ i \in 1 .. Len(t)
    /\ t[i] = x
    /\ \A n \in 1 .. i - 1 : t[n] = s[n]
    /\ \A n \in i + 1 .. Len(t) : t[n] = s[n - 1]

Down(i, k) == IF k < i THEN k ELSE k - 1
Up(i, k)   == IF k < i THEN k ELSE k + 1

\* Every other element of the longer one is an element of the shorter one, different
\* ones different ones.
Lowered(t, s, i) ==
    /\ \A k \in 1 .. Len(t) : k # i => Down(i, k) \in 1 .. Len(s) /\ t[k] = s[Down(i, k)]
    /\ \A k, l \in 1 .. Len(t) : k # i /\ l # i /\ k # l => Down(i, k) # Down(i, l)

\* And the other way round.
Raised(t, s, i) ==
    /\ \A m \in 1 .. Len(s) :
          Up(i, m) \in 1 .. Len(t) /\ Up(i, m) # i /\ s[m] = t[Up(i, m)]
    /\ \A m, n \in 1 .. Len(s) : m # n => Up(i, m) # Up(i, n)

LEMMA InsertedDown ==
    ASSUME NEW t, NEW s, NEW i, NEW x, Len(s) \in Nat, Inserted(t, s, i, x)
    PROVE  Lowered(t, s, i)
<1>0. /\ Len(t) \in Nat /\ i \in Nat /\ i >= 1 /\ i <= Len(t) /\ Len(t) = Len(s) + 1
      /\ \A n \in 1 .. i - 1 : t[n] = s[n]
      /\ \A n \in i + 1 .. Len(t) : t[n] = s[n - 1]
  BY DEF Inserted
<1>1. ASSUME NEW k \in 1 .. Len(t), k # i
      PROVE  Down(i, k) \in 1 .. Len(s) /\ t[k] = s[Down(i, k)]
  <2>1. CASE k < i
    <3>1. k \in 1 .. i - 1 /\ Down(i, k) = k
      BY <1>0, <2>1 DEF Down
    <3> QED
      BY <1>0, <3>1
  <2>2. CASE ~(k < i)
    <3>1. k \in i + 1 .. Len(t) /\ Down(i, k) = k - 1
      BY <1>0, <1>1, <2>2 DEF Down
    <3> QED
      BY <1>0, <3>1
  <2> QED
    BY <2>1, <2>2
<1>2. \A k, l \in 1 .. Len(t) : k # i /\ l # i /\ k # l => Down(i, k) # Down(i, l)
  BY <1>0 DEF Down
<1> QED
  BY <1>1, <1>2 DEF Lowered

LEMMA InsertedUp ==
    ASSUME NEW t, NEW s, NEW i, NEW x, Len(s) \in Nat, Inserted(t, s, i, x)
    PROVE  Raised(t, s, i)
<1>0. /\ Len(t) \in Nat /\ i \in Nat /\ i >= 1 /\ i <= Len(t) /\ Len(t) = Len(s) + 1
      /\ \A n \in 1 .. i - 1 : t[n] = s[n]
      /\ \A n \in i + 1 .. Len(t) : t[n] = s[n - 1]
  BY DEF Inserted
<1>1. ASSUME NEW m \in 1 .. Len(s)
      PROVE  Up(i, m) \in 1 .. Len(t) /\ Up(i, m) # i /\ s[m] = t[Up(i, m)]
  <2>1. CASE m < i
    <3>1. m \in 1 .. i - 1 /\ Up(i, m) = m
      BY <1>0, <2>1 DEF Up
    <3> QED
      BY <1>0, <2>1, <3>1
  <2>2. CASE ~(m < i)
    <3>1. m + 1 \in i + 1 .. Len(t) /\ Up(i, m) = m + 1 /\ (m + 1) - 1 = m
      BY <1>0, <2>2 DEF Up
    <3> QED
      BY <1>0, <3>1
  <2> QED
    BY <2>1, <2>2
<1>2. \A m, n \in 1 .. Len(s) : m # n => Up(i, m) # Up(i, n)
  BY <1>0 DEF Up
<1> QED
  BY <1>1, <1>2 DEF Raised

\* InsertAt, RemoveAt and a new first element.
LEMMA InsertedBy ==
    ASSUME NEW T, NEW s \in Seq(T)
    PROVE  /\ \A x \in T, i \in 1 .. Len(s) + 1 :
                 InsertAt(s, i, x) \in Seq(T) /\ Inserted(InsertAt(s, i, x), s, i, x)
           /\ \A i \in 1 .. Len(s) :
                 RemoveAt(s, i) \in Seq(T) /\ Inserted(s, RemoveAt(s, i), i, s[i])
           /\ \A x \in T : <<x>> \o s \in Seq(T) /\ Inserted(<<x>> \o s, s, 1, x)
<1>1. ASSUME NEW x \in T, NEW i \in 1 .. Len(s) + 1
      PROVE  InsertAt(s, i, x) \in Seq(T) /\ Inserted(InsertAt(s, i, x), s, i, x)
  <2>1. /\ InsertAt(s, i, x) \in Seq(T)
        /\ Len(InsertAt(s, i, x)) = Len(s) + 1
        /\ InsertAt(s, i, x)[i] = x
        /\ \A k \in 1 .. Len(s) + 1 : /\ k < i => InsertAt(s, i, x)[k] = s[k]
                                      /\ k > i => InsertAt(s, i, x)[k] = s[k - 1]
    BY InsertAtElements
  <2>2. i \in Nat /\ Len(s) \in Nat
    OBVIOUS
  <2> QED
    BY <2>1, <2>2 DEF Inserted
<1>2. ASSUME NEW i \in 1 .. Len(s)
      PROVE  RemoveAt(s, i) \in Seq(T) /\ Inserted(s, RemoveAt(s, i), i, s[i])
  <2>1. /\ RemoveAt(s, i) \in Seq(T)
        /\ Len(RemoveAt(s, i)) = Len(s) - 1
        /\ \A k \in 1 .. Len(s) - 1 : /\ k < i => RemoveAt(s, i)[k] = s[k]
                                      /\ k >= i => RemoveAt(s, i)[k] = s[k + 1]
    BY RemoveAtElements
  <2>2. i \in Nat /\ Len(s) \in Nat
    OBVIOUS
  <2>3. ASSUME NEW n \in i + 1 .. Len(s) PROVE s[n] = RemoveAt(s, i)[n - 1]
    <3>1. n - 1 \in 1 .. Len(s) - 1 /\ n - 1 >= i /\ (n - 1) + 1 = n
      BY <2>2
    <3> QED
      BY <2>1, <3>1
  <2> QED
    BY <2>1, <2>2, <2>3 DEF Inserted
<1>3. ASSUME NEW x \in T PROVE <<x>> \o s \in Seq(T) /\ Inserted(<<x>> \o s, s, 1, x)
  <2>1. <<x>> \in Seq(T) /\ Len(<<x>>) = 1
    OBVIOUS
  <2> QED
    BY <2>1 DEF Inserted
<1> QED
  BY <1>1, <1>2, <1>3

-----------------------------------------------------------------------------
(* A page                                                                  *)

Record   == [key : Keys, size : Sizes, offset : Int]
Fragment == [offset : Int, size : 8 .. Align(PageSize \div 4)]

\* A page with its fields' types but no bounds on its offsets and counters.
WidePage == [recs : Seq(Record), frags : Seq(Fragment),
             dataZone : Int, payload : Int, fragment : Int]

Counted(pg) ==
    /\ pg.payload = SumOf(RecordSizes(pg))
    /\ pg.fragment = SumOf(FragmentSizes(pg))
    /\ pg.dataZone = PageSize - pg.payload - pg.fragment

\* Areas of width v and w at two offsets share no byte.
Apart(a, v, b, w) == a + v <= b \/ b + w <= a

RecordsPlaced(pg) ==
    /\ \A i \in DOMAIN pg.recs :
          /\ pg.dataZone <= pg.recs[i].offset
          /\ pg.recs[i].offset + Align(pg.recs[i].size) <= PageSize
    /\ \A i, j \in DOMAIN pg.recs : i # j =>
          Apart(pg.recs[i].offset, Align(pg.recs[i].size), pg.recs[j].offset, Align(pg.recs[j].size))

FragmentsPlaced(pg) ==
    /\ \A i \in DOMAIN pg.frags :
          /\ pg.dataZone <= pg.frags[i].offset
          /\ pg.frags[i].offset + pg.frags[i].size <= PageSize
    /\ \A i, j \in DOMAIN pg.frags : i # j =>
          Apart(pg.frags[i].offset, pg.frags[i].size, pg.frags[j].offset, pg.frags[j].size)
    /\ \A i \in DOMAIN pg.recs, j \in DOMAIN pg.frags :
          Apart(pg.recs[i].offset, Align(pg.recs[i].size), pg.frags[j].offset, pg.frags[j].size)

\* What every function of btree_leaf_page.cpp relies on and leaves behind.
Sound(pg) ==
    /\ pg \in WidePage
    /\ Counted(pg)
    /\ FreeZone(pg) <= pg.dataZone
    /\ RecordsPlaced(pg)
    /\ FragmentsPlaced(pg)

\* Sizes are aligned up to the next eight bytes.
LEMMA AlignBounds ==
    /\ \A size \in Sizes : /\ size \in Nat \ {0}
                           /\ Align(size) \in 8 .. Align(PageSize \div 4)
                           /\ size <= Align(size)
    /\ PageSize \in Nat /\ PageSize > 48
<1>1. PageSize \in Nat /\ PageSize > 48 /\ Sizes \subseteq 1 .. PageSize \div 4 - 1
  BY LeafAssumption DEF HeaderSize
<1> QED
  BY <1>1 DEF Align

\* The sizes that are summed up are numbers.
LEMMA SizesAreNumbers ==
    ASSUME NEW pg \in WidePage
    PROVE  /\ Len(RecordSizes(pg)) = Len(pg.recs) /\ Len(pg.recs) \in Nat
           /\ \A n \in 1 .. Len(pg.recs) : /\ RecordSizes(pg)[n] = Align(pg.recs[n].size)
                                           /\ RecordSizes(pg)[n] \in Nat
                                           /\ RecordSizes(pg)[n] >= 8
           /\ Len(FragmentSizes(pg)) = Len(pg.frags) /\ Len(pg.frags) \in Nat
           /\ \A n \in 1 .. Len(pg.frags) : /\ FragmentSizes(pg)[n] = pg.frags[n].size
                                            /\ FragmentSizes(pg)[n] \in Nat
                                            /\ FragmentSizes(pg)[n] >= 8
<1>1. pg.recs \in Seq(Record) /\ pg.frags \in Seq(Fragment)
  BY DEF WidePage
<1>2. DOMAIN pg.recs = 1 .. Len(pg.recs) /\ DOMAIN pg.frags = 1 .. Len(pg.frags)
  BY <1>1
<1>3. ASSUME NEW n \in 1 .. Len(pg.recs)
      PROVE  Align(pg.recs[n].size) \in Nat /\ Align(pg.recs[n].size) >= 8
  <2>0. pg.recs[n] \in Record
    BY <1>1
  <2>1. pg.recs[n].size \in Sizes
    BY <2>0 DEF Record
  <2>2. Align(pg.recs[n].size) \in 8 .. Align(PageSize \div 4)
    BY <2>1, AlignBounds
  <2> HIDE DEF Align
  <2> QED
    BY <2>2
<1>4. ASSUME NEW n \in 1 .. Len(pg.frags)
      PROVE  pg.frags[n].size \in Nat /\ pg.frags[n].size >= 8
  <2>1. pg.frags[n] \in Fragment
    BY <1>1
  <2> QED
    BY <2>1 DEF Fragment
<1>5. Len(RecordSizes(pg)) = Len(pg.recs) /\ Len(FragmentSizes(pg)) = Len(pg.frags)
  BY <1>1, <1>2 DEF RecordSizes, FragmentSizes
<1> QED
  BY <1>1, <1>2, <1>3, <1>4, <1>5 DEF RecordSizes, FragmentSizes

\* The counters of a sound page are numbers, and its data zone lies within the page.
LEMMA CounterBounds ==
    ASSUME NEW pg \in WidePage, Counted(pg)
    PROVE  /\ pg.payload \in Nat /\ pg.fragment \in Nat
           /\ pg.dataZone \in Int /\ pg.dataZone <= PageSize
           /\ pg.recs = <<>> => pg.payload = 0
           /\ pg.frags = <<>> => pg.fragment = 0
<1>1. SumOf(RecordSizes(pg)) \in Nat
  <2>1. PICK h \in [0 .. Len(RecordSizes(pg)) -> Nat] :
             SumOf(RecordSizes(pg)) = h[Len(RecordSizes(pg))]
    BY SizesAreNumbers, SumBounds
  <2> QED
    BY <2>1, SizesAreNumbers
<1>2. SumOf(FragmentSizes(pg)) \in Nat
  <2>1. PICK h \in [0 .. Len(FragmentSizes(pg)) -> Nat] :
             SumOf(FragmentSizes(pg)) = h[Len(FragmentSizes(pg))]
    BY SizesAreNumbers, SumBounds
  <2> QED
    BY <2>1, SizesAreNumbers
<1>3. pg.recs = <<>> => SumOf(RecordSizes(pg)) = 0
  BY SizesAreNumbers, SumOfNone
<1>4. pg.frags = <<>> => SumOf(FragmentSizes(pg)) = 0
  BY SizesAreNumbers, SumOfNone
<1> QED
  BY <1>1, <1>2, <1>3, <1>4, AlignBounds DEF Counted

\* insert_payload_meta finds a place, and puts the record there.
LEMMA PlaceIs ==
    ASSUME NEW recs \in Seq(Record), NEW r \in Record
    PROVE  /\ PlaceOf(recs, r) \in 1 .. Len(recs) + 1
           /\ PlaceOf(recs, r) <= Len(recs) => recs[PlaceOf(recs, r)].key > r.key
           /\ \A j \in 1 .. PlaceOf(recs, r) - 1 : recs[j].key <= r.key
           /\ Place(recs, r) \in Seq(Record)
           /\ Inserted(Place(recs, r), recs, PlaceOf(recs, r), r)
<1> DEFINE Greater == {i \in 1 .. Len(recs) : recs[i].key > r.key}
           Ok(i) == /\ i \in 1 .. Len(recs) + 1
                    /\ i <= Len(recs) => recs[i].key > r.key
                    /\ \A j \in 1 .. i - 1 : recs[j].key <= r.key
<1>0. Len(recs) \in Nat /\ r.key \in Int /\ \A i \in 1 .. Len(recs) : recs[i].key \in Int
  <2>1. \A i \in 1 .. Len(recs) : recs[i] \in Record
    OBVIOUS
  <2>2. Keys \subseteq Int
    BY LeafAssumption
  <2>3. \A q \in Record : q.key \in Int
    BY <2>2 DEF Record
  <2> QED
    BY <2>1, <2>3
<1>1. \E i : Ok(i)
  <2>1. CASE Greater = {}
    <3>1. \A j \in 1 .. Len(recs) : recs[j].key <= r.key
      BY <1>0, <2>1
    <3>2. Ok(Len(recs) + 1)
      BY <1>0, <3>1
    <3> QED
      BY <3>2
  <2>2. CASE Greater # {}
    <3>0. Greater \subseteq Nat
      OBVIOUS
    <3>1. PICK m \in Greater : \A k \in Greater : m <= k
      <4> HIDE DEF Greater
      <4> QED
        BY <2>2, <3>0, Least
    <3>2. m \in 1 .. Len(recs) /\ recs[m].key > r.key
      BY <3>1
    <3>3. ASSUME NEW j \in 1 .. m - 1 PROVE recs[j].key <= r.key
      <4>1. j \in 1 .. Len(recs) /\ ~(m <= j)
        BY <1>0, <3>2
      <4>2. j \notin Greater
        BY <3>1, <4>1
      <4> QED
        BY <1>0, <4>1, <4>2
    <3>4. Ok(m)
      BY <1>0, <3>2, <3>3
    <3> QED
      BY <3>4
  <2> QED
    BY <2>1, <2>2
<1>2. Ok(PlaceOf(recs, r))
  <2>1. PlaceOf(recs, r) = CHOOSE i : Ok(i)
    BY DEF PlaceOf
  <2> HIDE DEF Ok
  <2> QED
    BY <1>1, <2>1
<1>3. Place(recs, r) \in Seq(Record) /\ Inserted(Place(recs, r), recs, PlaceOf(recs, r), r)
  BY <1>2, InsertedBy DEF Place
<1> QED
  BY <1>2, <1>3

-----------------------------------------------------------------------------
(* One record put on the stack, into a fragment, taken out                 *)

\* Two pages of which one has one record more: their sums and metas.
LEMMA RecordsDiffer ==
    ASSUME NEW pg \in WidePage, NEW new \in WidePage, NEW i, NEW r,
           Inserted(new.recs, pg.recs, i, r)
    PROVE  /\ Len(new.recs) = Len(pg.recs) + 1
           /\ SumOf(RecordSizes(new)) = SumOf(RecordSizes(pg)) + Align(r.size)
           /\ FreeZone(new) = FreeZone(pg) + MetaSize
<1>1. Len(pg.recs) \in Nat /\ Len(new.recs) = Len(pg.recs) + 1 /\ i \in 1 .. Len(new.recs)
  BY DEF WidePage, Inserted
<1>2. SumOf(RecordSizes(new)) = SumOf(RecordSizes(pg)) + Align(r.size)
  <2> DEFINE s == RecordSizes(pg)
             t == RecordSizes(new)
             x == Align(r.size)
  <2>1. /\ Len(s) \in Nat /\ Len(t) = Len(s) + 1 /\ i \in 1 .. Len(t)
        /\ \A n \in 1 .. Len(s) : s[n] \in Int
    BY <1>1, SizesAreNumbers
  <2>2. x \in Int /\ t[i] = x
    <3>1. t[i] = Align(new.recs[i].size) /\ t[i] \in Nat
      BY <1>1, SizesAreNumbers
    <3>2. new.recs[i] = r
      BY DEF Inserted
    <3> QED
      BY <3>1, <3>2
  <2>3. ASSUME NEW n \in 1 .. i - 1 PROVE t[n] = s[n]
    <3>1. n \in 1 .. Len(new.recs) /\ n \in 1 .. Len(pg.recs)
      BY <1>1
    <3>2. t[n] = Align(new.recs[n].size) /\ s[n] = Align(pg.recs[n].size)
      BY <3>1, SizesAreNumbers
    <3>3. new.recs[n] = pg.recs[n]
      BY DEF Inserted
    <3> QED
      BY <3>2, <3>3
  <2>4. ASSUME NEW n \in i + 1 .. Len(t) PROVE t[n] = s[n - 1]
    <3>1. n \in 1 .. Len(new.recs) /\ n - 1 \in 1 .. Len(pg.recs) /\ n \in i + 1 .. Len(new.recs)
      BY <1>1, SizesAreNumbers
    <3>2. t[n] = Align(new.recs[n].size) /\ s[n - 1] = Align(pg.recs[n - 1].size)
      BY <3>1, SizesAreNumbers
    <3>3. new.recs[n] = pg.recs[n - 1]
      BY <3>1 DEF Inserted
    <3> QED
      BY <3>2, <3>3
  <2> HIDE DEF s, t, x
  <2>5. SumOf(t) = SumOf(s) + x
    BY <2>1, <2>2, <2>3, <2>4, SumInserted
  <2> QED
    BY <2>5 DEF s, t, x
<1>3. FreeZone(new) = FreeZone(pg) + MetaSize
  BY <1>1 DEF FreeZone, MetaSize, HeaderSize
<1> QED
  BY <1>1, <1>2, <1>3

\* Two pages of which one has one fragment more.
LEMMA FragmentsDiffer ==
    ASSUME NEW pg \in WidePage, NEW new \in WidePage, NEW i, NEW f,
           Inserted(new.frags, pg.frags, i, f)
    PROVE  SumOf(FragmentSizes(new)) = SumOf(FragmentSizes(pg)) + f.size
<1>1. Len(pg.frags) \in Nat /\ Len(new.frags) = Len(pg.frags) + 1 /\ i \in 1 .. Len(new.frags)
  BY DEF WidePage, Inserted
<1> DEFINE s == FragmentSizes(pg)
           t == FragmentSizes(new)
           x == f.size
<1>2. /\ Len(s) \in Nat /\ Len(t) = Len(s) + 1 /\ i \in 1 .. Len(t)
      /\ \A n \in 1 .. Len(s) : s[n] \in Int
  BY <1>1, SizesAreNumbers
<1>3. x \in Int /\ t[i] = x
  <2>1. t[i] = new.frags[i].size /\ t[i] \in Nat
    BY <1>1, SizesAreNumbers
  <2>2. new.frags[i] = f
    BY DEF Inserted
  <2> QED
    BY <2>1, <2>2
<1>4. ASSUME NEW n \in 1 .. i - 1 PROVE t[n] = s[n]
  <2>1. n \in 1 .. Len(new.frags) /\ n \in 1 .. Len(pg.frags)
    BY <1>1
  <2>2. t[n] = new.frags[n].size /\ s[n] = pg.frags[n].size
    BY <2>1, SizesAreNumbers
  <2>3. new.frags[n] = pg.frags[n]
    BY DEF Inserted
  <2> QED
    BY <2>2, <2>3
<1>5. ASSUME NEW n \in i + 1 .. Len(t) PROVE t[n] = s[n - 1]
  <2>1. n \in 1 .. Len(new.frags) /\ n - 1 \in 1 .. Len(pg.frags) /\ n \in i + 1 .. Len(new.frags)
    BY <1>1, SizesAreNumbers
  <2>2. t[n] = new.frags[n].size /\ s[n - 1] = pg.frags[n - 1].size
    BY <2>1, SizesAreNumbers
  <2>3. new.frags[n] = pg.frags[n - 1]
    BY <2>1 DEF Inserted
  <2> QED
    BY <2>2, <2>3
<1> HIDE DEF s, t, x
<1>6. SumOf(t) = SumOf(s) + x
  BY <1>2, <1>3, <1>4, <1>5, SumInserted
<1> QED
  BY <1>6 DEF s, t, x

\* What a new record changes in the list of records, whatever its place.
LEMMA RecordAdded ==
    ASSUME NEW pg \in WidePage, NEW new \in WidePage, NEW r \in Record,
           new.recs = Place(pg.recs, r)
    PROVE  /\ Len(new.recs) = Len(pg.recs) + 1
           /\ SumOf(RecordSizes(new)) = SumOf(RecordSizes(pg)) + Align(r.size)
           /\ FreeZone(new) = FreeZone(pg) + MetaSize
           /\ \E i \in 1 .. Len(new.recs) : Inserted(new.recs, pg.recs, i, r)
<1>1. Inserted(new.recs, pg.recs, PlaceOf(pg.recs, r), r)
  BY PlaceIs DEF WidePage
<1>2. PlaceOf(pg.recs, r) \in 1 .. Len(new.recs)
  BY <1>1 DEF Inserted
<1>3. /\ Len(new.recs) = Len(pg.recs) + 1
      /\ SumOf(RecordSizes(new)) = SumOf(RecordSizes(pg)) + Align(r.size)
      /\ FreeZone(new) = FreeZone(pg) + MetaSize
  <2> DEFINE i == PlaceOf(pg.recs, r)
  <2>1. Inserted(new.recs, pg.recs, i, r)
    BY <1>1
  <2> HIDE DEF i
  <2> QED
    BY <2>1, RecordsDiffer
<1> QED
  BY <1>1, <1>2, <1>3

\* A record in an area that no other record shares, between the data zone and the
\* end of the page.
LEMMA RecordPlacedApart ==
    ASSUME NEW pg \in WidePage, NEW new \in WidePage, NEW r \in Record,
           new.recs = Place(pg.recs, r),
           RecordsPlaced(pg),
           new.dataZone <= pg.dataZone, new.dataZone <= r.offset,
           r.offset + Align(r.size) <= PageSize,
           \A i \in DOMAIN pg.recs :
              Apart(r.offset, Align(r.size), pg.recs[i].offset, Align(pg.recs[i].size))
    PROVE  RecordsPlaced(new)
<1>1. pg.recs \in Seq(Record) /\ new.recs \in Seq(Record)
  BY DEF WidePage
<1>2. PICK i \in 1 .. Len(new.recs) : Inserted(new.recs, pg.recs, i, r)
  BY RecordAdded
<1>3. /\ \A k \in 1 .. Len(new.recs) :
            k # i => Down(i, k) \in 1 .. Len(pg.recs) /\ new.recs[k] = pg.recs[Down(i, k)]
      /\ \A k, l \in 1 .. Len(new.recs) : k # i /\ l # i /\ k # l => Down(i, k) # Down(i, l)
  <2>1. Len(pg.recs) \in Nat
    BY <1>1
  <2>2. Lowered(new.recs, pg.recs, i)
    BY <1>2, <2>1, InsertedDown
  <2> QED
    BY <2>2 DEF Lowered
<1>4. new.recs[i] = r
  BY <1>2 DEF Inserted
<1>5. pg.dataZone \in Int /\ new.dataZone \in Int
  BY DEF WidePage
<1>6. \A q \in Record : q.offset \in Int
  BY DEF Record
<1>7. ASSUME NEW k \in DOMAIN new.recs
      PROVE  /\ new.dataZone <= new.recs[k].offset
             /\ new.recs[k].offset + Align(new.recs[k].size) <= PageSize
  <2>1. CASE k = i
    BY <1>4, <2>1
  <2>2. CASE k # i
    <3>1. Down(i, k) \in DOMAIN pg.recs /\ new.recs[k] = pg.recs[Down(i, k)]
      BY <1>1, <1>3, <2>2
    <3>2. /\ pg.dataZone <= new.recs[k].offset
          /\ new.recs[k].offset + Align(new.recs[k].size) <= PageSize
      BY <3>1 DEF RecordsPlaced
    <3>3. new.recs[k].offset \in Int
      BY <1>1, <1>6
    <3> QED
      BY <1>5, <3>2, <3>3
  <2> QED
    BY <2>1, <2>2
<1>8. ASSUME NEW k \in DOMAIN new.recs, NEW l \in DOMAIN new.recs, k # l
      PROVE  Apart(new.recs[k].offset, Align(new.recs[k].size),
                   new.recs[l].offset, Align(new.recs[l].size))
  <2>0. k \in 1 .. Len(new.recs) /\ l \in 1 .. Len(new.recs)
    BY <1>1
  <2>1. CASE k = i
    <3>1. Down(i, l) \in DOMAIN pg.recs /\ new.recs[l] = pg.recs[Down(i, l)]
      BY <1>1, <1>3, <1>8, <2>0, <2>1
    <3> QED
      BY <1>4, <2>1, <3>1
  <2>2. CASE l = i
    <3>1. Down(i, k) \in DOMAIN pg.recs /\ new.recs[k] = pg.recs[Down(i, k)]
      BY <1>1, <1>3, <1>8, <2>0, <2>2
    <3> QED
      BY <1>4, <2>2, <3>1 DEF Apart
  <2>3. CASE k # i /\ l # i
    <3>1. /\ Down(i, k) \in DOMAIN pg.recs /\ new.recs[k] = pg.recs[Down(i, k)]
          /\ Down(i, l) \in DOMAIN pg.recs /\ new.recs[l] = pg.recs[Down(i, l)]
          /\ Down(i, k) # Down(i, l)
      BY <1>1, <1>3, <1>8, <2>0, <2>3
    <3> QED
      BY <3>1 DEF RecordsPlaced
  <2> QED
    BY <2>1, <2>2, <2>3
<1> QED
  BY <1>7, <1>8 DEF RecordsPlaced

\* The fields of the page allocate_stack_space leaves.
LEMMA FromStackFields ==
    ASSUME NEW pg \in WidePage, NEW key \in Keys, NEW size \in Sizes,
           NEW r, r = [key |-> key, size |-> size, offset |-> pg.dataZone - Align(size)]
    PROVE  /\ FromStack(pg, key, size) \in WidePage
           /\ r \in Record
           /\ FromStack(pg, key, size).recs = Place(pg.recs, r)
           /\ FromStack(pg, key, size).frags = pg.frags
           /\ FromStack(pg, key, size).dataZone = pg.dataZone - Align(size)
           /\ FromStack(pg, key, size).payload = pg.payload + Align(size)
           /\ FromStack(pg, key, size).fragment = pg.fragment
<1>1. Align(size) \in Int /\ pg.dataZone \in Int /\ pg.payload \in Int
  <2>1. Align(size) \in 8 .. Align(PageSize \div 4)
    BY AlignBounds
  <2> HIDE DEF Align
  <2> QED
    BY <2>1 DEF WidePage
<1>2. r \in Record
  BY <1>1 DEF Record
<1>3. Place(pg.recs, r) \in Seq(Record)
  BY <1>2, PlaceIs DEF WidePage
<1> DEFINE at == pg.dataZone - Align(size)
           p  == pg.payload + Align(size)
           q  == Place(pg.recs, r)
<1>4. FromStack(pg, key, size) = [pg EXCEPT !.dataZone = at, !.payload = p, !.recs = q]
  BY DEF FromStack, WidePage
<1>5. at \in Int /\ p \in Int /\ q \in Seq(Record)
  BY <1>1, <1>3
<1> HIDE DEF at, p, q
<1>6. /\ FromStack(pg, key, size) \in WidePage
      /\ FromStack(pg, key, size).recs = q
      /\ FromStack(pg, key, size).frags = pg.frags
      /\ FromStack(pg, key, size).dataZone = at
      /\ FromStack(pg, key, size).payload = p
      /\ FromStack(pg, key, size).fragment = pg.fragment
  BY <1>4, <1>5 DEF WidePage
<1> QED
  BY <1>2, <1>6 DEF at, p, q

\* allocate_stack_space with room for the payload and its meta keeps a page sound.
LEMMA FromStackSound ==
    ASSUME NEW pg, Sound(pg), NEW key \in Keys, NEW size \in Sizes,
           Align(size) + MetaSize <= StackSpace(pg)
    PROVE  Sound(FromStack(pg, key, size))
<1> DEFINE A == Align(size)
           r == [key |-> key, size |-> size, offset |-> pg.dataZone - A]
           new == FromStack(pg, key, size)
<1>0. pg \in WidePage /\ Counted(pg) /\ RecordsPlaced(pg) /\ FragmentsPlaced(pg)
  BY DEF Sound
<1>1. /\ new \in WidePage /\ r \in Record
      /\ new.recs = Place(pg.recs, r)
      /\ new.frags = pg.frags
      /\ new.dataZone = pg.dataZone - A
      /\ new.payload = pg.payload + A
      /\ new.fragment = pg.fragment
  BY <1>0, FromStackFields
<1>2. A \in Nat /\ A >= 8
  <2>1. A \in 8 .. Align(PageSize \div 4)
    BY AlignBounds
  <2> HIDE DEF A
  <2> QED
    BY <2>1
<1>3. /\ pg.payload \in Nat /\ pg.fragment \in Nat /\ pg.dataZone \in Int
      /\ pg.dataZone <= PageSize /\ PageSize \in Nat
  BY <1>0, CounterBounds, AlignBounds
<1> HIDE DEF A, new
<1>4. Counted(new)
  <2>1. SumOf(RecordSizes(new)) = SumOf(RecordSizes(pg)) + A
    BY <1>0, <1>1, RecordAdded DEF A
  <2>2. FragmentSizes(new) = FragmentSizes(pg)
    BY <1>1 DEF FragmentSizes
  <2> QED
    BY <1>0, <1>1, <1>2, <1>3, <2>1, <2>2 DEF Counted
<1>5. FreeZone(new) <= new.dataZone
  <2>1. FreeZone(new) = FreeZone(pg) + MetaSize
    BY <1>0, <1>1, RecordAdded
  <2>2. FreeZone(pg) \in Int
    BY <1>0 DEF FreeZone, HeaderSize, MetaSize, WidePage
  <2> QED
    BY <1>1, <1>2, <1>3, <2>1, <2>2 DEF StackSpace, MetaSize, A
<1>6. r.offset = new.dataZone /\ r.offset + A = pg.dataZone /\ r.size = size
  BY <1>1, <1>2, <1>3
<1>7. ASSUME NEW i \in DOMAIN pg.recs
      PROVE  Apart(r.offset, A, pg.recs[i].offset, Align(pg.recs[i].size))
  BY <1>0, <1>6 DEF RecordsPlaced, Apart
<1>8. RecordsPlaced(new)
  <2>1. new.dataZone <= pg.dataZone /\ new.dataZone <= r.offset
        /\ r.offset + A <= PageSize
    BY <1>1, <1>2, <1>3, <1>6
  <2> QED
    BY <1>0, <1>1, <1>6, <1>7, <2>1, RecordPlacedApart DEF A
<1>9. FragmentsPlaced(new)
  <2>1. pg.frags \in Seq(Fragment) /\ \A q \in Fragment : q.offset \in Int
    BY <1>0 DEF WidePage, Fragment
  <2>2. ASSUME NEW j \in DOMAIN pg.frags PROVE new.dataZone <= pg.frags[j].offset
    BY <1>0, <1>1, <1>2, <1>3, <2>1 DEF FragmentsPlaced
  <2>3. PICK i \in 1 .. Len(new.recs) : Inserted(new.recs, pg.recs, i, r)
    BY <1>0, <1>1, RecordAdded
  <2>4. ASSUME NEW k \in DOMAIN new.recs, NEW j \in DOMAIN pg.frags
        PROVE  Apart(new.recs[k].offset, Align(new.recs[k].size),
                     pg.frags[j].offset, pg.frags[j].size)
    <3>0. new.recs \in Seq(Record) /\ pg.recs \in Seq(Record) /\ k \in 1 .. Len(new.recs)
      BY <1>0, <1>1 DEF WidePage
    <3>1. CASE k = i
      <4>1. new.recs[k] = r
        BY <2>3, <3>1 DEF Inserted
      <4>2. pg.dataZone <= pg.frags[j].offset
        BY <1>0 DEF FragmentsPlaced
      <4> QED
        BY <1>6, <4>1, <4>2 DEF Apart, A
    <3>2. CASE k # i
      <4>1. Down(i, k) \in DOMAIN pg.recs /\ new.recs[k] = pg.recs[Down(i, k)]
        <5>1. Lowered(new.recs, pg.recs, i)
          BY <2>3, <3>0, InsertedDown
        <5> QED
          BY <3>0, <3>2, <5>1 DEF Lowered
      <4> QED
        BY <1>0, <4>1 DEF FragmentsPlaced
    <3> QED
      BY <3>1, <3>2
  <2> QED
    BY <1>0, <1>1, <2>2, <2>4 DEF FragmentsPlaced
<1> QED
  BY <1>1, <1>4, <1>5, <1>8, <1>9 DEF Sound, new

\* The fields of the page delete_payload leaves.
LEMMA DropFields ==
    ASSUME NEW pg \in WidePage, NEW i \in DOMAIN pg.recs
    PROVE  /\ Drop(pg, i) \in WidePage
           /\ Drop(pg, i).recs = RemoveAt(pg.recs, i)
           /\ Drop(pg, i).payload = pg.payload - Align(pg.recs[i].size)
           /\ pg.recs[i].offset = pg.dataZone =>
                 /\ Drop(pg, i).dataZone = pg.dataZone + Align(pg.recs[i].size)
                 /\ Drop(pg, i).frags = pg.frags /\ Drop(pg, i).fragment = pg.fragment
           /\ pg.recs[i].offset # pg.dataZone =>
                 /\ Drop(pg, i).dataZone = pg.dataZone
                 /\ Drop(pg, i).frags =
                       <<[offset |-> pg.recs[i].offset, size |-> Align(pg.recs[i].size)]>> \o pg.frags
                 /\ Drop(pg, i).fragment = pg.fragment + Align(pg.recs[i].size)
<1> DEFINE r == pg.recs[i]
           A == Align(r.size)
           f == [offset |-> r.offset, size |-> A]
           rest == [pg EXCEPT !.recs = RemoveAt(pg.recs, i), !.payload = pg.payload - A]
<1>1. r \in Record /\ r.offset \in Int /\ r.size \in Sizes
  <2>1. r \in Record
    BY DEF WidePage
  <2> QED
    BY <2>1 DEF Record
<1>2. A \in 8 .. Align(PageSize \div 4) /\ A \in Int
  <2>1. A \in 8 .. Align(PageSize \div 4)
    BY <1>1, AlignBounds
  <2> HIDE DEF A
  <2> QED
    BY <2>1
<1>3. RemoveAt(pg.recs, i) \in Seq(Record)
  BY InsertedBy DEF WidePage
<1>4. f \in Fragment
  BY <1>1, <1>2 DEF Fragment
<1>5. <<f>> \o pg.frags \in Seq(Fragment)
  BY <1>4, InsertedBy DEF WidePage
<1>6. /\ pg.payload - A \in Int /\ pg.dataZone + A \in Int /\ pg.fragment + A \in Int
  BY <1>2 DEF WidePage
<1>7. /\ rest \in WidePage
      /\ rest.recs = RemoveAt(pg.recs, i) /\ rest.payload = pg.payload - A
      /\ rest.dataZone = pg.dataZone /\ rest.frags = pg.frags /\ rest.fragment = pg.fragment
  BY <1>3, <1>6 DEF WidePage
<1>8. Drop(pg, i) = IF r.offset = pg.dataZone THEN [rest EXCEPT !.dataZone = rest.dataZone + A]
                    ELSE [rest EXCEPT !.frags = <<f>> \o rest.frags,
                                      !.fragment = rest.fragment + A]
  BY DEF Drop
<1> HIDE DEF rest, A, f
<1>9. CASE r.offset = pg.dataZone
  <2>1. Drop(pg, i) = [rest EXCEPT !.dataZone = pg.dataZone + A]
    BY <1>7, <1>8, <1>9
  <2>2. /\ Drop(pg, i) \in WidePage
        /\ Drop(pg, i).recs = rest.recs /\ Drop(pg, i).payload = rest.payload
        /\ Drop(pg, i).dataZone = pg.dataZone + A
        /\ Drop(pg, i).frags = rest.frags /\ Drop(pg, i).fragment = rest.fragment
    BY <1>6, <1>7, <2>1 DEF WidePage
  <2> QED
    BY <1>7, <1>9, <2>2 DEF A
<1>10. CASE r.offset # pg.dataZone
  <2>1. Drop(pg, i) = [rest EXCEPT !.frags = <<f>> \o pg.frags, !.fragment = pg.fragment + A]
    BY <1>7, <1>8, <1>10
  <2>2. /\ Drop(pg, i) \in WidePage
        /\ Drop(pg, i).recs = rest.recs /\ Drop(pg, i).payload = rest.payload
        /\ Drop(pg, i).dataZone = rest.dataZone
        /\ Drop(pg, i).frags = <<f>> \o pg.frags /\ Drop(pg, i).fragment = pg.fragment + A
    BY <1>5, <1>6, <1>7, <2>1 DEF WidePage
  <2> QED
    BY <1>7, <1>10, <2>2 DEF A, f
<1> QED
  BY <1>9, <1>10

\* delete_payload: the record's area goes back to the data zone or onto the list of
\* fragments, and nothing else changes.
LEMMA DropSound ==
    ASSUME NEW pg, Sound(pg), NEW i \in DOMAIN pg.recs
    PROVE  Sound(Drop(pg, i))
<1> DEFINE r == pg.recs[i]
           A == Align(r.size)
           f == [offset |-> r.offset, size |-> A]
           new == Drop(pg, i)
<1>0. /\ pg \in WidePage /\ Counted(pg) /\ RecordsPlaced(pg) /\ FragmentsPlaced(pg)
      /\ FreeZone(pg) <= pg.dataZone
  BY DEF Sound
<1>1. /\ new \in WidePage
      /\ new.recs = RemoveAt(pg.recs, i)
      /\ new.payload = pg.payload - A
      /\ r.offset = pg.dataZone =>
            new.dataZone = pg.dataZone + A /\ new.frags = pg.frags /\ new.fragment = pg.fragment
      /\ r.offset # pg.dataZone =>
            /\ new.dataZone = pg.dataZone
            /\ new.frags = <<f>> \o pg.frags
            /\ new.fragment = pg.fragment + A
  BY <1>0, DropFields
<1>2. r \in Record /\ r.offset \in Int /\ A \in Nat /\ A >= 8 /\ f \in Fragment
  <2>1. r \in Record
    BY <1>0 DEF WidePage
  <2>2. A \in 8 .. Align(PageSize \div 4)
    BY <2>1, AlignBounds DEF Record
  <2>3. f \in Fragment /\ r.offset \in Int
    BY <2>1, <2>2 DEF Record, Fragment
  <2> HIDE DEF A
  <2> QED
    BY <2>1, <2>2, <2>3
<1>3. /\ pg.payload \in Nat /\ pg.fragment \in Nat /\ pg.dataZone \in Int
      /\ pg.dataZone <= PageSize /\ PageSize \in Nat
  BY <1>0, CounterBounds, AlignBounds
<1>4. Inserted(pg.recs, new.recs, i, r)
  <2>1. pg.recs \in Seq(Record) /\ i \in 1 .. Len(pg.recs)
    BY <1>0 DEF WidePage
  <2>2. Inserted(pg.recs, RemoveAt(pg.recs, i), i, pg.recs[i])
    BY <2>1, InsertedBy
  <2> QED
    BY <1>1, <2>2
<1> HIDE DEF new, A, f
<1>5. /\ pg.recs \in Seq(Record) /\ new.recs \in Seq(Record) /\ i \in 1 .. Len(pg.recs)
      /\ pg.frags \in Seq(Fragment) /\ new.frags \in Seq(Fragment)
  BY <1>0, <1>1 DEF WidePage
<1>6. /\ DOMAIN new.recs = 1 .. Len(new.recs) /\ DOMAIN pg.recs = 1 .. Len(pg.recs)
      /\ Len(new.recs) \in Nat /\ Len(pg.recs) \in Nat
      /\ DOMAIN new.frags = 1 .. Len(new.frags) /\ DOMAIN pg.frags = 1 .. Len(pg.frags)
      /\ Len(new.frags) \in Nat /\ Len(pg.frags) \in Nat
  BY <1>5
<1>7. /\ \A m \in DOMAIN new.recs :
            Up(i, m) \in DOMAIN pg.recs /\ Up(i, m) # i /\ new.recs[m] = pg.recs[Up(i, m)]
      /\ \A m, n \in DOMAIN new.recs : m # n => Up(i, m) # Up(i, n)
  <2> HIDE DEF r
  <2>1. Len(new.recs) \in Nat
    BY <1>6
  <2>2. /\ \A m \in 1 .. Len(new.recs) :
              Up(i, m) \in 1 .. Len(pg.recs) /\ Up(i, m) # i /\ new.recs[m] = pg.recs[Up(i, m)]
        /\ \A m, n \in 1 .. Len(new.recs) : m # n => Up(i, m) # Up(i, n)
    <3>1. Raised(pg.recs, new.recs, i)
      BY <1>4, <2>1, InsertedUp
    <3> QED
      BY <3>1 DEF Raised
  <2> QED
    BY <1>6, <2>2
<1>8. /\ SumOf(RecordSizes(pg)) = SumOf(RecordSizes(new)) + A
      /\ FreeZone(pg) = FreeZone(new) + MetaSize
  <2> HIDE DEF r
  <2>1. /\ SumOf(RecordSizes(pg)) = SumOf(RecordSizes(new)) + Align(r.size)
        /\ FreeZone(pg) = FreeZone(new) + MetaSize
    <3>1. pg \in WidePage /\ new \in WidePage
      BY <1>0, <1>1
    <3> QED
      BY <1>4, <3>1, RecordsDiffer
  <2> QED
    BY <2>1 DEF A
<1>9. /\ SumOf(RecordSizes(new)) \in Int /\ FreeZone(new) \in Int
  <2>1. PICK h \in [0 .. Len(RecordSizes(new)) -> Nat] :
             SumOf(RecordSizes(new)) = h[Len(RecordSizes(new))]
    BY <1>1, SizesAreNumbers, SumBounds
  <2>2. new \in WidePage
    BY <1>1
  <2>3. Len(RecordSizes(new)) = Len(new.recs) /\ Len(new.recs) \in Nat
    BY <2>2, SizesAreNumbers
  <2>4. FreeZone(new) \in Int
    BY <2>3 DEF FreeZone, HeaderSize, MetaSize
  <2> QED
    BY <2>1, <2>3, <2>4
<1>10. \A q \in Record : q.offset \in Int
  BY DEF Record
<1>11. \A q \in Fragment : q.offset \in Int /\ q.size \in Nat /\ q.size >= 8
  BY DEF Fragment
<1>12. \A q \in Record : Align(q.size) \in Nat /\ Align(q.size) >= 8
  <2>1. ASSUME NEW q \in Record PROVE Align(q.size) \in 8 .. Align(PageSize \div 4)
    BY AlignBounds DEF Record
  <2> HIDE DEF Align
  <2> QED
    BY <2>1
<1>13. RecordsPlaced(new)
  <2>1. ASSUME NEW m \in DOMAIN new.recs
        PROVE  /\ new.dataZone <= new.recs[m].offset
               /\ new.recs[m].offset + Align(new.recs[m].size) <= PageSize
    <3> DEFINE q == new.recs[m]
    <3>0. q = pg.recs[Up(i, m)] /\ Up(i, m) \in DOMAIN pg.recs /\ Up(i, m) # i
      BY <1>7
    <3>1. q \in Record /\ q.offset \in Int /\ Align(q.size) \in Nat /\ Align(q.size) >= 8
      <4>1. q \in Record
        BY <1>5
      <4> HIDE DEF q
      <4> QED
        BY <4>1, <1>10, <1>12
    <3>2. /\ pg.dataZone <= q.offset /\ q.offset + Align(q.size) <= PageSize
          /\ Apart(r.offset, A, q.offset, Align(q.size))
      BY <1>0, <3>0 DEF RecordsPlaced, A
    <3> HIDE DEF q
    <3>3. new.dataZone <= q.offset
      BY <1>1, <1>2, <1>3, <3>1, <3>2 DEF Apart
    <3> QED
      BY <3>2, <3>3 DEF q
  <2>2. ASSUME NEW m \in DOMAIN new.recs, NEW n \in DOMAIN new.recs, m # n
        PROVE  Apart(new.recs[m].offset, Align(new.recs[m].size),
                     new.recs[n].offset, Align(new.recs[n].size))
    <3>1. /\ new.recs[m] = pg.recs[Up(i, m)] /\ Up(i, m) \in DOMAIN pg.recs
          /\ new.recs[n] = pg.recs[Up(i, n)] /\ Up(i, n) \in DOMAIN pg.recs
          /\ Up(i, m) # Up(i, n)
      BY <1>7, <2>2
    <3> QED
      BY <1>0, <3>1 DEF RecordsPlaced
  <2> QED
    BY <2>1, <2>2 DEF RecordsPlaced
<1>14. ASSUME NEW m \in DOMAIN new.recs, NEW j \in DOMAIN pg.frags
       PROVE  Apart(new.recs[m].offset, Align(new.recs[m].size),
                    pg.frags[j].offset, pg.frags[j].size)
  BY <1>0, <1>7 DEF FragmentsPlaced
<1>15. CASE r.offset = pg.dataZone
  <2>1. Counted(new)
    <3>1. FragmentSizes(new) = FragmentSizes(pg)
      BY <1>1, <1>15 DEF FragmentSizes
    <3> QED
      BY <1>0, <1>1, <1>2, <1>3, <1>8, <1>9, <1>15, <3>1 DEF Counted
  <2>2. FragmentsPlaced(new)
    <3>1. ASSUME NEW j \in DOMAIN pg.frags PROVE new.dataZone <= pg.frags[j].offset
      <4> DEFINE q == pg.frags[j]
      <4>1. q.offset \in Int /\ q.size \in Nat /\ q.size >= 8
        BY <1>5, <1>11
      <4>2. pg.dataZone <= q.offset /\ Apart(r.offset, A, q.offset, q.size)
        BY <1>0 DEF FragmentsPlaced, A
      <4> HIDE DEF q
      <4>3. new.dataZone <= q.offset
        BY <1>1, <1>2, <1>3, <1>15, <4>1, <4>2 DEF Apart
      <4> QED
        BY <4>3 DEF q
    <3> QED
      BY <1>0, <1>1, <1>14, <1>15, <3>1 DEF FragmentsPlaced
  <2>3. FreeZone(new) <= new.dataZone
    BY <1>0, <1>1, <1>2, <1>3, <1>8, <1>9, <1>15 DEF MetaSize
  <2> QED
    BY <1>1, <1>13, <2>1, <2>2, <2>3 DEF Sound, new
<1>16. CASE r.offset # pg.dataZone
  <2>0. Inserted(new.frags, pg.frags, 1, f)
    BY <1>1, <1>2, <1>5, <1>16, InsertedBy
  <2>1. Counted(new)
    <3>1. SumOf(FragmentSizes(new)) = SumOf(FragmentSizes(pg)) + f.size
      BY <1>0, <1>1, <2>0, FragmentsDiffer
    <3>2. f.size = A
      BY DEF f
    <3>3. /\ pg.payload = SumOf(RecordSizes(pg)) /\ pg.fragment = SumOf(FragmentSizes(pg))
          /\ pg.dataZone = PageSize - pg.payload - pg.fragment
      BY <1>0 DEF Counted
    <3>4. /\ new.payload = pg.payload - A /\ new.fragment = pg.fragment + A
          /\ new.dataZone = pg.dataZone
      BY <1>1, <1>16
    <3> QED
      BY <1>2, <1>3, <1>8, <1>9, <3>1, <3>2, <3>3, <3>4 DEF Counted
  <2>2. FragmentsPlaced(new)
    <3>0. new.frags[1] = f /\ f.offset = r.offset /\ f.size = A
      BY <2>0 DEF Inserted, f
    <3>1. /\ \A k \in DOMAIN new.frags : k # 1 =>
                Down(1, k) \in DOMAIN pg.frags /\ new.frags[k] = pg.frags[Down(1, k)]
          /\ \A k, l \in DOMAIN new.frags : k # 1 /\ l # 1 /\ k # l => Down(1, k) # Down(1, l)
      <4>1. Len(pg.frags) \in Nat
        BY <1>6
      <4>2. /\ \A k \in 1 .. Len(new.frags) : k # 1 =>
                  Down(1, k) \in 1 .. Len(pg.frags) /\ new.frags[k] = pg.frags[Down(1, k)]
            /\ \A k, l \in 1 .. Len(new.frags) :
                  k # 1 /\ l # 1 /\ k # l => Down(1, k) # Down(1, l)
        <5>1. Lowered(new.frags, pg.frags, 1)
          BY <2>0, <4>1, InsertedDown
        <5> QED
          BY <5>1 DEF Lowered
      <4> QED
        BY <1>6, <4>2
    <3>2. ASSUME NEW k \in DOMAIN new.frags
          PROVE  /\ new.dataZone <= new.frags[k].offset
                 /\ new.frags[k].offset + new.frags[k].size <= PageSize
      <4>1. CASE k = 1
        BY <1>0, <1>1, <1>5, <1>16, <3>0, <4>1 DEF RecordsPlaced, A
      <4>2. CASE k # 1
        BY <1>0, <1>1, <1>16, <3>1, <4>2 DEF FragmentsPlaced
      <4> QED
        BY <4>1, <4>2
    <3>3. ASSUME NEW k \in DOMAIN new.frags, NEW l \in DOMAIN new.frags, k # l
          PROVE  Apart(new.frags[k].offset, new.frags[k].size,
                       new.frags[l].offset, new.frags[l].size)
      <4>1. CASE k = 1
        <5>1. Down(1, l) \in DOMAIN pg.frags /\ new.frags[l] = pg.frags[Down(1, l)]
          BY <3>1, <3>3, <4>1
        <5> QED
          BY <1>0, <1>5, <3>0, <4>1, <5>1 DEF FragmentsPlaced, A
      <4>2. CASE l = 1
        <5>1. Down(1, k) \in DOMAIN pg.frags /\ new.frags[k] = pg.frags[Down(1, k)]
          BY <3>1, <3>3, <4>2
        <5> QED
          BY <1>0, <1>5, <3>0, <4>2, <5>1 DEF FragmentsPlaced, A, Apart
      <4>3. CASE k # 1 /\ l # 1
        BY <1>0, <3>1, <3>3, <4>3 DEF FragmentsPlaced
      <4> QED
        BY <4>1, <4>2, <4>3
    <3>4. ASSUME NEW m \in DOMAIN new.recs, NEW k \in DOMAIN new.frags
          PROVE  Apart(new.recs[m].offset, Align(new.recs[m].size),
                       new.frags[k].offset, new.frags[k].size)
      <4>1. CASE k = 1
        BY <1>0, <1>5, <1>7, <3>0, <4>1 DEF RecordsPlaced, A
      <4>2. CASE k # 1
        BY <1>14, <3>1, <4>2
      <4> QED
        BY <4>1, <4>2
    <3> QED
      BY <3>2, <3>3, <3>4 DEF FragmentsPlaced
  <2>3. FreeZone(new) <= new.dataZone
    BY <1>0, <1>1, <1>3, <1>8, <1>9, <1>16 DEF MetaSize
  <2> QED
    BY <1>1, <1>13, <2>1, <2>2, <2>3 DEF Sound, new
<1> QED
  BY <1>15, <1>16

\* The fields of the page allocate_fragment_space leaves.
LEMMA FromFragmentFields ==
    ASSUME NEW pg \in WidePage, NEW j \in DOMAIN pg.frags, NEW key \in Keys, NEW size \in Sizes,
           NEW r, r = [key |-> key, size |-> size, offset |-> pg.frags[j].offset]
    PROVE  /\ FromFragment(pg, j, key, size) \in WidePage
           /\ r \in Record
           /\ FromFragment(pg, j, key, size).recs = Place(pg.recs, r)
           /\ FromFragment(pg, j, key, size).frags = RemoveAt(pg.frags, j)
           /\ FromFragment(pg, j, key, size).dataZone = pg.dataZone
           /\ FromFragment(pg, j, key, size).payload = pg.payload + Align(size)
           /\ FromFragment(pg, j, key, size).fragment = pg.fragment - Align(size)
<1>1. Align(size) \in Int /\ pg.fragment \in Int /\ pg.payload \in Int
  <2>1. Align(size) \in 8 .. Align(PageSize \div 4)
    BY AlignBounds
  <2> HIDE DEF Align
  <2> QED
    BY <2>1 DEF WidePage
<1>2. r \in Record
  <2>1. pg.frags[j] \in Fragment
    BY DEF WidePage
  <2>2. pg.frags[j].offset \in Int
    BY <2>1 DEF Fragment
  <2> QED
    BY <2>2 DEF Record
<1>3. Place(pg.recs, r) \in Seq(Record)
  BY <1>2, PlaceIs DEF WidePage
<1>4. RemoveAt(pg.frags, j) \in Seq(Fragment)
  BY InsertedBy DEF WidePage
<1> DEFINE fs == RemoveAt(pg.frags, j)
           w  == pg.fragment - Align(size)
           p  == pg.payload + Align(size)
           q  == Place(pg.recs, r)
<1>5. FromFragment(pg, j, key, size) =
         [pg EXCEPT !.frags = fs, !.fragment = w, !.payload = p, !.recs = q]
  BY DEF FromFragment, WidePage
<1>6. fs \in Seq(Fragment) /\ w \in Int /\ p \in Int /\ q \in Seq(Record)
  BY <1>1, <1>3, <1>4
<1> HIDE DEF fs, w, p, q
<1>7. /\ FromFragment(pg, j, key, size) \in WidePage
      /\ FromFragment(pg, j, key, size).recs = q
      /\ FromFragment(pg, j, key, size).frags = fs
      /\ FromFragment(pg, j, key, size).dataZone = pg.dataZone
      /\ FromFragment(pg, j, key, size).payload = p
      /\ FromFragment(pg, j, key, size).fragment = w
  BY <1>5, <1>6 DEF WidePage
<1> QED
  BY <1>2, <1>7 DEF fs, w, p, q

\* allocate_fragment_space, with room for the meta, keeps a page sound: the record takes
\* the whole area of the fragment that leaves the list.
LEMMA FromFragmentSound ==
    ASSUME NEW pg, Sound(pg), NEW j \in DOMAIN pg.frags, NEW key \in Keys, NEW size \in Sizes,
           StackSpace(pg) >= MetaSize, pg.frags[j].size = Align(size)
    PROVE  Sound(FromFragment(pg, j, key, size))
<1> DEFINE A == Align(size)
           f == pg.frags[j]
           r == [key |-> key, size |-> size, offset |-> f.offset]
           new == FromFragment(pg, j, key, size)
<1>0. /\ pg \in WidePage /\ Counted(pg) /\ RecordsPlaced(pg) /\ FragmentsPlaced(pg)
      /\ StackSpace(pg) >= MetaSize /\ f.size = A
  BY DEF Sound
<1>1. /\ new \in WidePage /\ r \in Record
      /\ new.recs = Place(pg.recs, r)
      /\ new.frags = RemoveAt(pg.frags, j)
      /\ new.dataZone = pg.dataZone
      /\ new.payload = pg.payload + A
      /\ new.fragment = pg.fragment - A
  BY <1>0, FromFragmentFields
<1>2. A \in Nat /\ A >= 8
  <2>1. A \in 8 .. Align(PageSize \div 4)
    BY AlignBounds
  <2> HIDE DEF A
  <2> QED
    BY <2>1
<1>3. /\ pg.payload \in Nat /\ pg.fragment \in Nat /\ pg.dataZone \in Int
      /\ pg.dataZone <= PageSize /\ PageSize \in Nat
  BY <1>0, CounterBounds, AlignBounds
<1>4. /\ new.recs \in Seq(Record) /\ DOMAIN new.recs = 1 .. Len(new.recs)
      /\ pg.recs \in Seq(Record) /\ DOMAIN pg.recs = 1 .. Len(pg.recs)
      /\ new.frags \in Seq(Fragment) /\ DOMAIN new.frags = 1 .. Len(new.frags)
      /\ pg.frags \in Seq(Fragment) /\ DOMAIN pg.frags = 1 .. Len(pg.frags)
      /\ Len(new.recs) \in Nat /\ Len(pg.recs) \in Nat
      /\ Len(new.frags) \in Nat /\ Len(pg.frags) \in Nat
  <2>1. new.recs \in Seq(Record) /\ pg.recs \in Seq(Record)
        /\ new.frags \in Seq(Fragment) /\ pg.frags \in Seq(Fragment)
    BY <1>0, <1>1 DEF WidePage
  <2> HIDE DEF new
  <2> QED
    BY <2>1
<1>5. Inserted(pg.frags, new.frags, j, f)
  <2>1. Inserted(pg.frags, RemoveAt(pg.frags, j), j, pg.frags[j])
    BY <1>4, InsertedBy
  <2> QED
    BY <1>1, <2>1
<1>6. r.offset = f.offset /\ r.size = size
  OBVIOUS
<1> HIDE DEF new, A, f, r
<1>7. PICK i \in 1 .. Len(new.recs) : Inserted(new.recs, pg.recs, i, r)
  BY <1>0, <1>1, RecordAdded
<1>8. new.recs[i] = r
  BY <1>7 DEF Inserted
<1>9. \A k \in 1 .. Len(new.recs) :
         k # i => Down(i, k) \in 1 .. Len(pg.recs) /\ new.recs[k] = pg.recs[Down(i, k)]
  <2>1. Len(pg.recs) \in Nat
    BY <1>4
  <2> QED
    <3>1. Lowered(new.recs, pg.recs, i)
      BY <1>7, <2>1, InsertedDown
    <3> QED
      BY <3>1 DEF Lowered
<1>10. /\ \A m \in 1 .. Len(new.frags) :
             Up(j, m) \in 1 .. Len(pg.frags) /\ Up(j, m) # j /\ new.frags[m] = pg.frags[Up(j, m)]
       /\ \A m, n \in 1 .. Len(new.frags) : m # n => Up(j, m) # Up(j, n)
  <2>1. Len(new.frags) \in Nat
    BY <1>4
  <2> QED
    <3>1. Raised(pg.frags, new.frags, j)
      BY <1>5, <2>1, InsertedUp
    <3> QED
      BY <3>1 DEF Raised
<1>11. j \in DOMAIN pg.frags /\ pg.frags[j] = f /\ r.size = size /\ Align(r.size) = A
  BY <1>6 DEF f, A
<1>12. RecordsPlaced(new)
  <2>1. pg.dataZone <= r.offset /\ r.offset + Align(r.size) <= PageSize
    BY <1>0, <1>6, <1>11 DEF FragmentsPlaced
  <2>2. ASSUME NEW k \in DOMAIN pg.recs
        PROVE  Apart(r.offset, Align(r.size), pg.recs[k].offset, Align(pg.recs[k].size))
    BY <1>0, <1>6, <1>11 DEF FragmentsPlaced, Apart
  <2>3. new.dataZone <= pg.dataZone /\ new.dataZone <= r.offset
    BY <1>1, <1>3, <2>1
  <2> QED
    BY <1>0, <1>1, <2>1, <2>2, <2>3, RecordPlacedApart
<1>13. FragmentsPlaced(new)
  <2>1. ASSUME NEW m \in DOMAIN new.frags
        PROVE  /\ new.dataZone <= new.frags[m].offset
               /\ new.frags[m].offset + new.frags[m].size <= PageSize
    BY <1>0, <1>1, <1>4, <1>10 DEF FragmentsPlaced
  <2>2. ASSUME NEW m \in DOMAIN new.frags, NEW n \in DOMAIN new.frags, m # n
        PROVE  Apart(new.frags[m].offset, new.frags[m].size,
                     new.frags[n].offset, new.frags[n].size)
    <3>1. /\ Up(j, m) \in DOMAIN pg.frags /\ new.frags[m] = pg.frags[Up(j, m)]
          /\ Up(j, n) \in DOMAIN pg.frags /\ new.frags[n] = pg.frags[Up(j, n)]
          /\ Up(j, m) # Up(j, n)
      BY <1>4, <1>10, <2>2
    <3> QED
      BY <1>0, <3>1 DEF FragmentsPlaced
  <2>3. ASSUME NEW k \in DOMAIN new.recs, NEW m \in DOMAIN new.frags
        PROVE  Apart(new.recs[k].offset, Align(new.recs[k].size),
                     new.frags[m].offset, new.frags[m].size)
    <3>1. Up(j, m) \in DOMAIN pg.frags /\ new.frags[m] = pg.frags[Up(j, m)] /\ Up(j, m) # j
      BY <1>4, <1>10
    <3>2. CASE k = i
      <4>1. Apart(f.offset, f.size, new.frags[m].offset, new.frags[m].size)
        BY <1>0, <1>11, <3>1 DEF FragmentsPlaced
      <4> QED
        BY <1>0, <1>6, <1>8, <1>11, <3>2, <4>1
    <3>3. CASE k # i
      <4>1. Down(i, k) \in DOMAIN pg.recs /\ new.recs[k] = pg.recs[Down(i, k)]
        BY <1>4, <1>9, <3>3
      <4> QED
        BY <1>0, <3>1, <4>1 DEF FragmentsPlaced
    <3> QED
      BY <3>2, <3>3
  <2> QED
    BY <2>1, <2>2, <2>3 DEF FragmentsPlaced
<1>14. Counted(new)
  <2>1. SumOf(RecordSizes(new)) = SumOf(RecordSizes(pg)) + A
    <3>1. pg \in WidePage /\ new \in WidePage /\ r \in Record /\ new.recs = Place(pg.recs, r)
      BY <1>0, <1>1
    <3>2. SumOf(RecordSizes(new)) = SumOf(RecordSizes(pg)) + Align(r.size)
      BY <3>1, RecordAdded
    <3> QED
      BY <1>11, <3>2
  <2>2. SumOf(FragmentSizes(pg)) = SumOf(FragmentSizes(new)) + f.size
    <3>1. pg \in WidePage /\ new \in WidePage
      BY <1>0, <1>1
    <3> QED
      BY <1>5, <3>1, FragmentsDiffer
  <2>3. SumOf(FragmentSizes(new)) \in Int
    <3>1. PICK h \in [0 .. Len(FragmentSizes(new)) -> Nat] :
               SumOf(FragmentSizes(new)) = h[Len(FragmentSizes(new))]
      BY <1>1, SizesAreNumbers, SumBounds
    <3>2. Len(FragmentSizes(new)) \in Nat
      <4>1. new \in WidePage
        BY <1>1
      <4> QED
        BY <4>1, SizesAreNumbers
    <3> QED
      BY <3>1, <3>2
  <2> QED
    BY <1>0, <1>1, <1>2, <1>3, <2>1, <2>2, <2>3 DEF Counted
<1>15. FreeZone(new) <= new.dataZone
  <2>1. FreeZone(new) = FreeZone(pg) + MetaSize
    BY <1>0, <1>1, RecordAdded
  <2>2. FreeZone(pg) \in Int
    BY <1>4 DEF FreeZone, HeaderSize, MetaSize
  <2> QED
    BY <1>0, <1>1, <1>3, <2>1, <2>2 DEF StackSpace, MetaSize
<1> QED
  BY <1>1, <1>12, <1>13, <1>14, <1>15 DEF Sound, new

-----------------------------------------------------------------------------
(* Records moved one by one                                                *)

\* The page init leaves.
LEMMA EmptyPageSound == EmptyPage \in WidePage /\ Sound(EmptyPage)
<1>1. /\ EmptyPage \in WidePage
      /\ EmptyPage.recs = <<>> /\ EmptyPage.frags = <<>> /\ EmptyPage.dataZone = PageSize
      /\ EmptyPage.payload = 0 /\ EmptyPage.fragment = 0
  BY AlignBounds DEF EmptyPage, WidePage
<1> HIDE DEF EmptyPage
<1>2. Counted(EmptyPage)
  BY <1>1, SizesAreNumbers, SumOfNone, AlignBounds DEF Counted
<1>3. FreeZone(EmptyPage) <= EmptyPage.dataZone
  BY <1>1, AlignBounds DEF FreeZone, HeaderSize, MetaSize
<1>4. RecordsPlaced(EmptyPage) /\ FragmentsPlaced(EmptyPage)
  BY <1>1 DEF RecordsPlaced, FragmentsPlaced
<1> QED
  BY <1>1, <1>2, <1>3, <1>4 DEF Sound

\* Vacuum record by record.
LEMMA VacuumSteps ==
    ASSUME NEW pg \in WidePage
    PROVE  \E h \in [0 .. Len(pg.recs) -> WidePage] :
              /\ h[0] = EmptyPage
              /\ \A n \in 1 .. Len(pg.recs) :
                    h[n] = FromStack(h[n - 1], pg.recs[n].key, pg.recs[n].size)
              /\ Vacuum(pg) = h[Len(pg.recs)]
<1> DEFINE N == Len(pg.recs)
           Is(h) == h = [n \in 0 .. Len(pg.recs) |->
                            IF n = 0 THEN EmptyPage
                            ELSE FromStack(h[n - 1], pg.recs[n].key, pg.recs[n].size)]
           f == [n \in 1 .. N |->
                    [x \in WidePage |-> FromStack(x, pg.recs[n].key, pg.recs[n].size)]]
           new == CHOOSE h : Is(h)
<1>0. N \in Nat /\ \A n \in 1 .. N : pg.recs[n].key \in Keys /\ pg.recs[n].size \in Sizes
  <2>1. pg.recs \in Seq(Record)
    BY DEF WidePage
  <2>2. \A n \in 1 .. N : pg.recs[n] \in Record
    BY <2>1
  <2> QED
    BY <2>1, <2>2 DEF Record
<1>1. ASSUME NEW n \in 1 .. N, NEW x \in WidePage
      PROVE  FromStack(x, pg.recs[n].key, pg.recs[n].size) \in WidePage
  BY <1>0, FromStackFields
<1>2. f \in [1 .. N -> [WidePage -> WidePage]]
  BY <1>1
<1>3. PICK h \in [0 .. N -> WidePage] : h[0] = EmptyPage /\ \A n \in 1 .. N : h[n] = f[n][h[n - 1]]
  <2> DEFINE D == WidePage
             base == EmptyPage
  <2>1. base \in D /\ f \in [1 .. N -> [D -> D]]
    BY <1>2, EmptyPageSound
  <2>0. N \in Nat
    BY <1>0
  <2> HIDE DEF N, f, D, base, Is, new
  <2>2. \E h \in [0 .. N -> D] : h[0] = base /\ \A n \in 1 .. N : h[n] = f[n][h[n - 1]]
    BY <2>0, <2>1, Iteration, SMTT(30)
  <2> QED
    BY <2>2 DEF D, base
<1>4. \A n \in 1 .. N : /\ h[n] = FromStack(h[n - 1], pg.recs[n].key, pg.recs[n].size)
                        /\ h[n - 1] \in WidePage
  <2> TAKE n \in 1 .. N
  <2>1. n - 1 \in 0 .. N
    BY <1>0
  <2>2. h[n - 1] \in WidePage
    BY <2>1
  <2> QED
    BY <1>3, <2>2
<1>5. Is(h)
  <2>1. ASSUME NEW n \in 0 .. N
        PROVE  h[n] = IF n = 0 THEN EmptyPage
                      ELSE FromStack(h[n - 1], pg.recs[n].key, pg.recs[n].size)
    BY <1>0, <1>3, <1>4
  <2> QED
    BY <2>1
<1>6. Is(new)
  <2> HIDE DEF Is
  <2> QED
    BY <1>5
<1>7. Vacuum(pg) = new[Len(pg.recs)]
  BY DEF Vacuum
<1> HIDE DEF new, f
<1>8. /\ DOMAIN new = 0 .. N
      /\ \A n \in 0 .. N : new[n] = IF n = 0 THEN EmptyPage
                                    ELSE FromStack(new[n - 1], pg.recs[n].key, pg.recs[n].size)
      /\ new = [n \in 0 .. N |-> new[n]]
  BY <1>6
<1> DEFINE S == {n \in 0 .. N : new[n] = h[n]}
<1>9. \A n \in 0 .. N : n \in S
  <2>1. 0 \in S
    <3>1. 0 \in 0 .. N
      BY <1>0
    <3>2. new[0] = EmptyPage
      BY <1>8, <3>1
    <3> QED
      BY <1>3, <3>1, <3>2
  <2>2. ASSUME NEW n \in 0 .. N - 1, n \in S PROVE n + 1 \in S
    <3>1. n + 1 \in 1 .. N /\ n + 1 \in 0 .. N /\ n + 1 # 0 /\ (n + 1) - 1 = n
      BY <1>0
    <3>2. new[n] = h[n]
      BY <2>2
    <3>3. new[n + 1] = FromStack(new[n], pg.recs[n + 1].key, pg.recs[n + 1].size)
      BY <1>8, <3>1
    <3>4. h[n + 1] = FromStack(h[n], pg.recs[n + 1].key, pg.recs[n + 1].size)
      BY <1>4, <3>1
    <3> QED
      BY <3>1, <3>2, <3>3, <3>4
  <2> HIDE DEF S, N
  <2> QED
    BY <1>0, <2>1, <2>2, UpTo
<1>10. new = h
  BY <1>8, <1>9
<1> QED
  BY <1>3, <1>4, <1>7, <1>10

\* The sums of the first sizes of a page's records.
LEMMA PayloadSteps ==
    ASSUME NEW pg \in WidePage
    PROVE  \E g \in [0 .. Len(pg.recs) -> Nat] :
              /\ g[0] = 0
              /\ \A n \in 1 .. Len(pg.recs) : g[n] = g[n - 1] + Align(pg.recs[n].size)
              /\ SumOf(RecordSizes(pg)) = g[Len(pg.recs)]
              /\ \A n \in 0 .. Len(pg.recs) : g[n] <= SumOf(RecordSizes(pg))
<1> DEFINE s == RecordSizes(pg)
<1>1. /\ Len(s) = Len(pg.recs) /\ Len(s) \in Nat
      /\ \A n \in 1 .. Len(s) : s[n] = Align(pg.recs[n].size) /\ s[n] \in Nat
  BY SizesAreNumbers
<1> HIDE DEF s
<1>2. PICK g \in [0 .. Len(s) -> Nat] :
             /\ g[0] = 0
             /\ \A n \in 1 .. Len(s) : g[n] = g[n - 1] + s[n]
             /\ SumOf(s) = g[Len(s)]
             /\ \A n \in 0 .. Len(s) : g[n] <= SumOf(s)
  BY <1>1, SumBounds
<1>3. \A n \in 1 .. Len(pg.recs) : g[n] = g[n - 1] + Align(pg.recs[n].size)
  BY <1>1, <1>2
<1> QED
  BY <1>1, <1>2, <1>3 DEF s

\* vacuum: the same records, one after the other, and no fragments.
LEMMA VacuumSound ==
    ASSUME NEW pg, Sound(pg)
    PROVE  /\ Sound(Vacuum(pg))
           /\ Vacuum(pg).frags = <<>>
           /\ Len(Vacuum(pg).recs) = Len(pg.recs)
           /\ Vacuum(pg).payload = pg.payload
<1> DEFINE N == Len(pg.recs)
<1>0. /\ pg \in WidePage /\ pg.payload = SumOf(RecordSizes(pg)) /\ N \in Nat
      /\ \A n \in 1 .. N : pg.recs[n].key \in Keys /\ pg.recs[n].size \in Sizes
  <2>1. pg \in WidePage /\ pg.payload = SumOf(RecordSizes(pg))
    BY DEF Sound, Counted
  <2>2. pg.recs \in Seq(Record)
    BY <2>1 DEF WidePage
  <2>3. \A n \in 1 .. N : pg.recs[n] \in Record
    BY <2>2
  <2> QED
    BY <2>1, <2>2, <2>3 DEF Record
<1>1. HeaderSize + MetaSize * N + pg.payload <= PageSize
  <2>1. /\ FreeZone(pg) <= pg.dataZone /\ pg.dataZone = PageSize - pg.payload - pg.fragment
        /\ pg.fragment \in Nat /\ pg.payload \in Nat /\ PageSize \in Nat
    BY CounterBounds, AlignBounds DEF Sound, Counted
  <2>2. FreeZone(pg) = HeaderSize + MetaSize * N /\ FreeZone(pg) \in Int
    BY <1>0 DEF FreeZone, HeaderSize, MetaSize
  <2> HIDE DEF N
  <2> QED
    BY <2>1, <2>2
<1>2. PICK h \in [0 .. N -> WidePage] :
             /\ h[0] = EmptyPage
             /\ \A n \in 1 .. N : h[n] = FromStack(h[n - 1], pg.recs[n].key, pg.recs[n].size)
             /\ Vacuum(pg) = h[N]
  BY <1>0, VacuumSteps
<1>3. PICK g \in [0 .. N -> Nat] :
             /\ g[0] = 0
             /\ \A n \in 1 .. N : g[n] = g[n - 1] + Align(pg.recs[n].size)
             /\ pg.payload = g[N]
             /\ \A n \in 0 .. N : g[n] <= pg.payload
  BY <1>0, PayloadSteps
<1> DEFINE S == {n \in 0 .. N : /\ Sound(h[n]) /\ h[n].frags = <<>>
                                /\ Len(h[n].recs) = n /\ h[n].payload = g[n]}
<1>4. 0 \in S
  <2>1. h[0].frags = <<>> /\ Len(h[0].recs) = 0 /\ h[0].payload = 0
    BY <1>2 DEF EmptyPage
  <2>2. Sound(h[0])
    BY <1>2, EmptyPageSound
  <2> HIDE DEF N
  <2> QED
    BY <1>0, <1>3, <2>1, <2>2
<1>5. ASSUME NEW n \in 0 .. N - 1, n \in S PROVE n + 1 \in S
  <2> DEFINE key == pg.recs[n + 1].key
             size == pg.recs[n + 1].size
             old == h[n]
             new == h[n + 1]
  <2>1. /\ n + 1 \in 1 .. N /\ (n + 1) - 1 = n /\ n \in Nat /\ n + 1 \in 0 .. N /\ n \in 0 .. N
    BY <1>0
  <2>2. key \in Keys /\ size \in Sizes /\ new = FromStack(old, key, size)
    BY <1>0, <1>2, <2>1
  <2>3. Sound(old) /\ old.frags = <<>> /\ Len(old.recs) = n /\ old.payload = g[n]
    BY <1>5
  <2>4. /\ g[n + 1] = g[n] + Align(size) /\ g[n + 1] <= pg.payload
        /\ g[n] \in Nat /\ g[n + 1] \in Nat
    BY <1>3, <2>1
  <2> HIDE DEF key, size, old, new, N, S
  <2>5. Align(size) \in Nat
    <3>1. Align(size) \in 8 .. Align(PageSize \div 4)
      BY <2>2, AlignBounds
    <3> HIDE DEF Align
    <3> QED
      BY <3>1
  <2>6. old \in WidePage /\ old.dataZone = PageSize - g[n] /\ PageSize \in Nat
    <3>1. old \in WidePage /\ Counted(old)
      BY <2>3 DEF Sound
    <3>2. old.fragment = 0
      BY <2>3, <3>1, CounterBounds
    <3> QED
      BY <2>3, <2>4, <3>1, <3>2, AlignBounds DEF Counted
  <2>7. StackSpace(old) = PageSize - g[n] - (HeaderSize + MetaSize * n)
    BY <2>3, <2>6 DEF StackSpace, FreeZone
  <2>8. Align(size) + MetaSize <= StackSpace(old)
    <3>1. MetaSize * n + MetaSize <= MetaSize * N
      BY <1>0, <2>1 DEF MetaSize
    <3>2. pg.payload \in Nat /\ MetaSize * n \in Nat /\ MetaSize * N \in Nat
      BY <1>0, <2>1, CounterBounds DEF MetaSize, Sound
    <3> DEFINE u == MetaSize * n
               v == MetaSize * N
               a == Align(size)
               p == g[n]
               q == g[n + 1]
               x == pg.payload
    <3>3. /\ u + MetaSize <= v /\ u \in Nat /\ v \in Nat /\ x \in Nat
          /\ q = p + a /\ q <= x /\ p \in Nat /\ q \in Nat /\ a \in Nat
          /\ StackSpace(old) = PageSize - p - (HeaderSize + u)
      BY <2>4, <2>5, <2>7, <3>1, <3>2
    <3>4. HeaderSize + v + x <= PageSize
      BY <1>1
    <3> HIDE DEF u, v, a, p, q, x
    <3>5. a + MetaSize <= StackSpace(old)
      BY <2>6, <3>3, <3>4 DEF HeaderSize, MetaSize
    <3> QED
      BY <3>5 DEF a
  <2>9. Sound(new)
    BY <2>2, <2>3, <2>8, FromStackSound
  <2>10. /\ new.frags = <<>> /\ new.payload = g[n + 1] /\ Len(new.recs) = n + 1
    <3> DEFINE r == [key |-> key, size |-> size, offset |-> old.dataZone - Align(size)]
    <3>1. /\ r \in Record /\ new \in WidePage /\ new.recs = Place(old.recs, r)
          /\ new.frags = old.frags /\ new.payload = old.payload + Align(size)
      BY <2>2, <2>6, FromStackFields
    <3> HIDE DEF r
    <3>2. Len(new.recs) = Len(old.recs) + 1
      <4>1. old \in WidePage
        BY <2>6
      <4> QED
        BY <3>1, <4>1, RecordAdded
    <3>3. old.frags = <<>> /\ old.payload = g[n] /\ Len(old.recs) = n
      BY <2>3
    <3> QED
      BY <2>4, <3>1, <3>2, <3>3
  <2> QED
    BY <2>1, <2>9, <2>10 DEF S, new
<1>6. N \in S
  <2> HIDE DEF S, N
  <2>1. \A n \in 0 .. N : n \in S
    BY <1>0, <1>4, <1>5, UpTo
  <2> QED
    BY <1>0, <2>1
<1> QED
  BY <1>2, <1>3, <1>6

\* The fields insert_payload depends on, whichever space the record gets.
LEMMA PutFields ==
    ASSUME NEW pg \in WidePage, NEW key \in Keys, NEW size \in Sizes
    PROVE  /\ Put(pg, key, size) \in WidePage
           /\ Vacuum(pg) \in WidePage
<1>1. Vacuum(pg) \in WidePage
  <2>1. Len(pg.recs) \in Nat
    BY DEF WidePage
  <2>2. PICK h \in [0 .. Len(pg.recs) -> WidePage] : Vacuum(pg) = h[Len(pg.recs)]
    BY VacuumSteps
  <2> HIDE DEF WidePage
  <2> QED
    BY <2>1, <2>2
<1>2. ASSUME NEW j \in DOMAIN pg.frags PROVE FromFragment(pg, j, key, size) \in WidePage
  BY FromFragmentFields
<1>3. CASE FragmentsFor(pg, size) # {}
  <2>1. (CHOOSE i \in FragmentsFor(pg, size) : TRUE) \in DOMAIN pg.frags
    BY <1>3 DEF FragmentsFor
  <2> QED
    BY <1>1, <1>2, <1>3, <2>1 DEF Put
<1>4. CASE FragmentsFor(pg, size) = {}
  <2>1. FromStack(pg, key, size) \in WidePage /\ FromStack(Vacuum(pg), key, size) \in WidePage
    BY <1>1, FromStackFields
  <2> QED
    BY <1>1, <1>4, <2>1 DEF Put
<1> QED
  BY <1>3, <1>4

\* insert_payload with room for the record and its meta: from a fragment, from the
\* stack, or after a vacuum, the page is sound and has one record more.
LEMMA PutSound ==
    ASSUME NEW pg, Sound(pg), NEW key \in Keys, NEW size \in Sizes, Fits(pg, size)
    PROVE  /\ Sound(Put(pg, key, size))
           /\ Len(Put(pg, key, size).recs) = Len(pg.recs) + 1
           /\ Put(pg, key, size).payload = pg.payload + Align(size)
           /\ pg.frags = <<>> => Put(pg, key, size).frags = <<>>
<1>0. pg \in WidePage /\ Counted(pg)
  BY DEF Sound
<1>1. Align(size) \in Nat
  <2>1. Align(size) \in 8 .. Align(PageSize \div 4)
    BY AlignBounds
  <2> HIDE DEF Align
  <2> QED
    BY <2>1
<1>2. /\ Sound(Vacuum(pg)) /\ Vacuum(pg).frags = <<>> /\ Vacuum(pg).payload = pg.payload
      /\ Len(Vacuum(pg).recs) = Len(pg.recs)
  BY VacuumSound
<1>3. ASSUME NEW p, Sound(p), Align(size) + MetaSize <= StackSpace(p)
      PROVE  /\ Sound(FromStack(p, key, size))
             /\ Len(FromStack(p, key, size).recs) = Len(p.recs) + 1
             /\ FromStack(p, key, size).payload = p.payload + Align(size)
             /\ FromStack(p, key, size).frags = p.frags
  <2> DEFINE r == [key |-> key, size |-> size, offset |-> p.dataZone - Align(size)]
             new == FromStack(p, key, size)
  <2>1. p \in WidePage
    BY <1>3 DEF Sound
  <2>2. /\ new \in WidePage /\ r \in Record /\ new.recs = Place(p.recs, r)
        /\ new.frags = p.frags /\ new.payload = p.payload + Align(size)
    BY <2>1, FromStackFields
  <2>3. Sound(new)
    BY <1>3, FromStackSound
  <2> HIDE DEF r, new
  <2>4. Len(new.recs) = Len(p.recs) + 1
    BY <2>1, <2>2, RecordAdded
  <2> QED
    BY <2>2, <2>3, <2>4 DEF new
<1>4. CASE FragmentsFor(pg, size) # {}
  <2> DEFINE j == CHOOSE i \in FragmentsFor(pg, size) : TRUE
             r == [key |-> key, size |-> size, offset |-> pg.frags[j].offset]
             new == FromFragment(pg, j, key, size)
  <2>1. /\ j \in DOMAIN pg.frags /\ StackSpace(pg) >= MetaSize
        /\ pg.frags[j].size = Align(size)
    BY <1>4 DEF FragmentsFor
  <2>2. Put(pg, key, size) = new
    BY <1>4 DEF Put
  <2> HIDE DEF j
  <2>3. Sound(new)
    BY <2>1, FromFragmentSound
  <2>4. /\ new \in WidePage /\ r \in Record /\ new.recs = Place(pg.recs, r)
        /\ new.payload = pg.payload + Align(size)
    BY <1>0, <2>1, FromFragmentFields
  <2> HIDE DEF r, new
  <2>5. Len(new.recs) = Len(pg.recs) + 1
    BY <1>0, <2>4, RecordAdded
  <2>6. pg.frags # <<>>
    BY <2>1
  <2> QED
    BY <2>2, <2>3, <2>4, <2>5, <2>6
<1>5. CASE FragmentsFor(pg, size) = {} /\ StackFits(pg, Align(size))
  <2>1. Put(pg, key, size) = FromStack(pg, key, size)
    BY <1>5 DEF Put
  <2>2. Align(size) + MetaSize <= StackSpace(pg)
    <3>1. StackSpace(pg) \in Int
      BY <1>0 DEF StackSpace, FreeZone, WidePage, HeaderSize, MetaSize
    <3> QED
      BY <1>1, <1>5, <3>1 DEF StackFits, MetaSize
  <2> QED
    BY <1>3, <2>1, <2>2
<1>6. CASE FragmentsFor(pg, size) = {} /\ ~StackFits(pg, Align(size))
  <2> DEFINE v == Vacuum(pg)
  <2>1. Put(pg, key, size) = FromStack(v, key, size)
    BY <1>6 DEF Put
  <2>2. v \in WidePage /\ Counted(v)
    BY <1>2 DEF Sound
  <2> HIDE DEF v
  <2>3. v.fragment = 0 /\ pg.payload \in Nat /\ pg.fragment \in Nat /\ PageSize \in Nat
    BY <1>0, <1>2, <2>2, CounterBounds, AlignBounds DEF v
  <2>4. v.dataZone = PageSize - pg.payload /\ FreeZone(v) = FreeZone(pg)
        /\ pg.dataZone = PageSize - pg.payload - pg.fragment
    BY <1>0, <1>2, <2>2, <2>3 DEF Counted, FreeZone, v
  <2>5. FreeZone(pg) \in Int
    BY <1>0 DEF FreeZone, HeaderSize, MetaSize, WidePage
  <2>6. Align(size) + MetaSize <= StackSpace(v)
    BY <1>1, <2>3, <2>4, <2>5 DEF Fits, MaxFree, StackSpace, MetaSize
  <2>7. Sound(v) /\ v.frags = <<>> /\ v.payload = pg.payload /\ Len(v.recs) = Len(pg.recs)
    BY <1>2 DEF v
  <2> QED
    BY <1>3, <2>1, <2>6, <2>7
<1> QED
  BY <1>4, <1>5, <1>6

\* Merged record by record.
LEMMA MergedSteps ==
    ASSUME NEW front \in WidePage, NEW back \in WidePage
    PROVE  \E h \in [0 .. Len(back.recs) -> WidePage] :
              /\ h[0] = Vacuum(front)
              /\ \A n \in 1 .. Len(back.recs) :
                    h[n] = Put(h[n - 1], back.recs[n].key, back.recs[n].size)
              /\ Merged(front, back) = h[Len(back.recs)]
<1> DEFINE N == Len(back.recs)
           Is(h) == h = [n \in 0 .. Len(back.recs) |->
                            IF n = 0 THEN Vacuum(front)
                            ELSE Put(h[n - 1], back.recs[n].key, back.recs[n].size)]
           f == [n \in 1 .. N |->
                    [x \in WidePage |-> Put(x, back.recs[n].key, back.recs[n].size)]]
           new == CHOOSE h : Is(h)
<1>0. N \in Nat /\ \A n \in 1 .. N : back.recs[n].key \in Keys /\ back.recs[n].size \in Sizes
  <2>1. back.recs \in Seq(Record)
    BY DEF WidePage
  <2>2. \A n \in 1 .. N : back.recs[n] \in Record
    BY <2>1
  <2> QED
    BY <2>1, <2>2 DEF Record
<1>1. ASSUME NEW n \in 1 .. N, NEW x \in WidePage
      PROVE  Put(x, back.recs[n].key, back.recs[n].size) \in WidePage
  BY <1>0, PutFields
<1>2. f \in [1 .. N -> [WidePage -> WidePage]]
  BY <1>1
<1>3. PICK h \in [0 .. N -> WidePage] :
             h[0] = Vacuum(front) /\ \A n \in 1 .. N : h[n] = f[n][h[n - 1]]
  <2> DEFINE D == WidePage
             base == Vacuum(front)
  <2>0. N \in Nat
    BY <1>0
  <2>1. base \in D
    <3>1. Len(front.recs) \in Nat
      BY DEF WidePage
    <3>2. PICK h \in [0 .. Len(front.recs) -> WidePage] : Vacuum(front) = h[Len(front.recs)]
      BY VacuumSteps
    <3> HIDE DEF WidePage
    <3> QED
      BY <3>1, <3>2
  <2>2. f \in [1 .. N -> [D -> D]]
    BY <1>2
  <2> HIDE DEF N, f, D, base, Is, new
  <2>3. \E h \in [0 .. N -> D] : h[0] = base /\ \A n \in 1 .. N : h[n] = f[n][h[n - 1]]
    BY <2>0, <2>1, <2>2, Iteration, SMTT(30)
  <2> QED
    BY <2>3 DEF D, base
<1>4. \A n \in 1 .. N : /\ h[n] = Put(h[n - 1], back.recs[n].key, back.recs[n].size)
                        /\ h[n - 1] \in WidePage
  <2> TAKE n \in 1 .. N
  <2>1. n - 1 \in 0 .. N
    BY <1>0
  <2>2. h[n - 1] \in WidePage
    BY <2>1
  <2> QED
    BY <1>3, <2>2
<1>5. Is(h)
  <2>1. ASSUME NEW n \in 0 .. N
        PROVE  h[n] = IF n = 0 THEN Vacuum(front)
                      ELSE Put(h[n - 1], back.recs[n].key, back.recs[n].size)
    BY <1>0, <1>3, <1>4
  <2> QED
    BY <2>1
<1>6. Is(new)
  <2> HIDE DEF Is
  <2> QED
    BY <1>5
<1>7. Merged(front, back) = new[Len(back.recs)]
  BY DEF Merged
<1> HIDE DEF new, f
<1>8. /\ \A n \in 0 .. N : new[n] = IF n = 0 THEN Vacuum(front)
                                    ELSE Put(new[n - 1], back.recs[n].key, back.recs[n].size)
      /\ new = [n \in 0 .. N |-> new[n]]
  BY <1>6
<1> DEFINE S == {n \in 0 .. N : new[n] = h[n]}
<1>9. \A n \in 0 .. N : n \in S
  <2>1. 0 \in S
    <3>1. 0 \in 0 .. N
      BY <1>0
    <3>2. new[0] = Vacuum(front)
      BY <1>8, <3>1
    <3> QED
      BY <1>3, <3>1, <3>2
  <2>2. ASSUME NEW n \in 0 .. N - 1, n \in S PROVE n + 1 \in S
    <3>1. n + 1 \in 1 .. N /\ n + 1 \in 0 .. N /\ n + 1 # 0 /\ (n + 1) - 1 = n
      BY <1>0
    <3>2. new[n] = h[n]
      BY <2>2
    <3>3. new[n + 1] = Put(new[n], back.recs[n + 1].key, back.recs[n + 1].size)
      BY <1>8, <3>1
    <3>4. h[n + 1] = Put(h[n], back.recs[n + 1].key, back.recs[n + 1].size)
      BY <1>4, <3>1
    <3> QED
      BY <3>1, <3>2, <3>3, <3>4
  <2> HIDE DEF S, N
  <2> QED
    BY <1>0, <2>1, <2>2, UpTo
<1>10. new = h
  BY <1>8, <1>9
<1> QED
  BY <1>3, <1>4, <1>7, <1>10

\* merge: when its check passes every record of the back page finds room on the front one.
LEMMA MergedSound ==
    ASSUME NEW front, NEW back, Sound(front), Sound(back), MergeFits(front, back)
    PROVE  /\ Sound(Merged(front, back))
           /\ Len(Merged(front, back).recs) = Len(front.recs) + Len(back.recs)
           /\ Merged(front, back).payload = front.payload + back.payload
<1> DEFINE N == Len(back.recs)
           M == Len(front.recs)
<1>0. /\ front \in WidePage /\ back \in WidePage
      /\ back.payload = SumOf(RecordSizes(back)) /\ N \in Nat /\ M \in Nat
      /\ \A n \in 1 .. N : back.recs[n].key \in Keys /\ back.recs[n].size \in Sizes
  <2>1. /\ front \in WidePage /\ back \in WidePage /\ back.payload = SumOf(RecordSizes(back))
    BY DEF Sound, Counted
  <2>2. back.recs \in Seq(Record) /\ front.recs \in Seq(Record)
    BY <2>1 DEF WidePage
  <2>3. \A n \in 1 .. N : back.recs[n] \in Record
    BY <2>2
  <2> QED
    BY <2>1, <2>2, <2>3 DEF Record
<1>1. /\ HeaderSize + MetaSize * (M + N) + front.payload + back.payload < PageSize
      /\ front.payload \in Nat /\ back.payload \in Nat /\ PageSize \in Nat
  BY CounterBounds, AlignBounds DEF Sound, MergeFits
<1>2. PICK h \in [0 .. N -> WidePage] :
             /\ h[0] = Vacuum(front)
             /\ \A n \in 1 .. N : h[n] = Put(h[n - 1], back.recs[n].key, back.recs[n].size)
             /\ Merged(front, back) = h[N]
  BY <1>0, MergedSteps
<1>3. PICK g \in [0 .. N -> Nat] :
             /\ g[0] = 0
             /\ \A n \in 1 .. N : g[n] = g[n - 1] + Align(back.recs[n].size)
             /\ back.payload = g[N]
             /\ \A n \in 0 .. N : g[n] <= back.payload
  BY <1>0, PayloadSteps
<1> DEFINE S == {n \in 0 .. N : /\ Sound(h[n]) /\ h[n].frags = <<>>
                                /\ Len(h[n].recs) = M + n /\ h[n].payload = front.payload + g[n]}
<1>4. 0 \in S
  <2>1. /\ Sound(h[0]) /\ h[0].frags = <<>> /\ Len(h[0].recs) = M /\ h[0].payload = front.payload
    BY <1>2, VacuumSound
  <2> HIDE DEF N, M
  <2> QED
    BY <1>0, <1>1, <1>3, <2>1
<1>5. ASSUME NEW n \in 0 .. N - 1, n \in S PROVE n + 1 \in S
  <2> DEFINE key == back.recs[n + 1].key
             size == back.recs[n + 1].size
             old == h[n]
             new == h[n + 1]
  <2>1. /\ n + 1 \in 1 .. N /\ (n + 1) - 1 = n /\ n \in Nat /\ n + 1 \in 0 .. N /\ n \in 0 .. N
    BY <1>0
  <2>2. key \in Keys /\ size \in Sizes /\ new = Put(old, key, size)
    BY <1>0, <1>2, <2>1
  <2>3. /\ Sound(old) /\ old.frags = <<>> /\ Len(old.recs) = M + n
        /\ old.payload = front.payload + g[n]
    BY <1>5
  <2>4. /\ g[n + 1] = g[n] + Align(size) /\ g[n + 1] <= back.payload
        /\ g[n] \in Nat /\ g[n + 1] \in Nat
    BY <1>3, <2>1
  <2> HIDE DEF key, size, old, new, N, M, S
  <2>5. Align(size) \in Nat
    <3>1. Align(size) \in 8 .. Align(PageSize \div 4)
      BY <2>2, AlignBounds
    <3> HIDE DEF Align
    <3> QED
      BY <3>1
  <2>6. old.dataZone = PageSize - front.payload - g[n] /\ old.fragment = 0
    <3>1. old \in WidePage /\ Counted(old)
      BY <2>3 DEF Sound
    <3>2. old.fragment = 0
      BY <2>3, <3>1, CounterBounds
    <3> QED
      BY <1>1, <2>3, <2>4, <3>1, <3>2 DEF Counted
  <2>7. MaxFree(old) = PageSize - front.payload - g[n] - (HeaderSize + MetaSize * (M + n))
    <3>1. MetaSize * (M + n) \in Int
      BY <1>0, <2>1 DEF MetaSize
    <3> QED
      BY <1>1, <2>3, <2>4, <2>6, <3>1 DEF MaxFree, StackSpace, FreeZone, HeaderSize
  <2>8. Fits(old, size)
    <3> DEFINE u == MetaSize * (M + n)
               v == MetaSize * (M + N)
               a == Align(size)
               p == g[n]
               q == g[n + 1]
    <3>1. u + 16 <= v /\ u \in Nat /\ v \in Nat
      BY <1>0, <2>1 DEF MetaSize
    <3>2. /\ 48 + v + front.payload + back.payload < PageSize
          /\ MaxFree(old) = PageSize - front.payload - p - (48 + u)
      BY <1>1, <2>7 DEF HeaderSize
    <3>3. q = p + a /\ q <= back.payload /\ p \in Nat /\ q \in Nat /\ a \in Nat
      BY <2>4, <2>5
    <3> HIDE DEF u, v, a, p, q
    <3>4. MaxFree(old) > a + 16
      <4> DEFINE x == front.payload
                 y == back.payload
      <4>1. PageSize \in Nat /\ x \in Nat /\ y \in Nat
        BY <1>1
      <4>2. 48 + v + x + y < PageSize /\ MaxFree(old) = PageSize - x - p - (48 + u) /\ q <= y
        BY <3>2, <3>3
      <4> HIDE DEF x, y
      <4> QED
        BY <3>1, <3>3, <4>1, <4>2
    <3> QED
      BY <3>4 DEF Fits, MetaSize, a
  <2>9. /\ Sound(new) /\ new.frags = <<>> /\ Len(new.recs) = (M + n) + 1
        /\ new.payload = (front.payload + g[n]) + Align(size)
    BY <2>2, <2>3, <2>8, PutSound
  <2>10. Len(new.recs) = M + (n + 1) /\ new.payload = front.payload + g[n + 1]
    BY <1>0, <1>1, <2>1, <2>4, <2>5, <2>9
  <2> QED
    BY <2>1, <2>9, <2>10 DEF S, new
<1>6. N \in S
  <2> HIDE DEF S, N
  <2>1. \A n \in 0 .. N : n \in S
    BY <1>0, <1>4, <1>5, UpTo
  <2> QED
    BY <1>0, <2>1
<1> QED
  BY <1>2, <1>3, <1>6

\* A sound page on which a vacuum would succeed: a byte to spare.
Good(pg) == Sound(pg) /\ MaxFree(pg) > 0

\* The free space of a sound page depends on its records' number and sizes alone.
LEMMA Room ==
    ASSUME NEW pg, Sound(pg)
    PROVE  /\ MaxFree(pg) = PageSize - pg.payload - (HeaderSize + MetaSize * Len(pg.recs))
           /\ PageSize \in Nat /\ pg.payload \in Nat /\ Len(pg.recs) \in Nat
<1>1. pg \in WidePage /\ Counted(pg)
  BY DEF Sound
<1>2. /\ PageSize \in Nat /\ pg.payload \in Nat /\ pg.fragment \in Nat /\ pg.dataZone \in Int
      /\ Len(pg.recs) \in Nat
  BY <1>1, CounterBounds, SizesAreNumbers, AlignBounds
<1> QED
  BY <1>1, <1>2 DEF MaxFree, StackSpace, FreeZone, Counted, HeaderSize, MetaSize

\* vacuum, insert_payload, delete_payload and init leave good pages, and vacuum never
\* fails on one.
LEMMA GoodPages ==
    /\ Good(EmptyPage)
    /\ \A pg : Good(pg) => Good(Vacuum(pg)) /\ VacuumOk(pg)
    /\ \A pg : \A key \in Keys, size \in Sizes :
          Good(pg) /\ Fits(pg, size) => Good(Put(pg, key, size))
    /\ \A pg : \A i \in DOMAIN pg.recs : Good(pg) => Good(Drop(pg, i))
<1>1. Good(EmptyPage)
  BY EmptyPageSound, Room, AlignBounds DEF EmptyPage, Good, HeaderSize, MetaSize
<1>2. ASSUME NEW pg, Good(pg) PROVE Good(Vacuum(pg)) /\ VacuumOk(pg)
  <2>1. /\ Sound(Vacuum(pg)) /\ Len(Vacuum(pg).recs) = Len(pg.recs)
        /\ Vacuum(pg).payload = pg.payload
    BY <1>2, VacuumSound DEF Good
  <2>2. MaxFree(Vacuum(pg)) = MaxFree(pg)
    BY <1>2, <2>1, Room DEF Good
  <2> QED
    BY <1>2, <2>1, <2>2 DEF Good, VacuumOk
<1>3. ASSUME NEW pg, Good(pg), NEW key \in Keys, NEW size \in Sizes, Fits(pg, size)
      PROVE  Good(Put(pg, key, size))
  <2> DEFINE new == Put(pg, key, size)
             a == Align(size)
  <2>1. Sound(new) /\ Len(new.recs) = Len(pg.recs) + 1 /\ new.payload = pg.payload + a
    BY <1>3, PutSound DEF Good
  <2>2. /\ MaxFree(new) = PageSize - new.payload - (HeaderSize + MetaSize * Len(new.recs))
        /\ MaxFree(pg) = PageSize - pg.payload - (HeaderSize + MetaSize * Len(pg.recs))
        /\ PageSize \in Nat /\ pg.payload \in Nat /\ Len(pg.recs) \in Nat /\ new.payload \in Nat
    BY <1>3, <2>1, Room DEF Good
  <2>3. MaxFree(pg) > a + MetaSize /\ a \in Nat
    <3>1. a \in 8 .. Align(PageSize \div 4)
      BY AlignBounds
    <3> HIDE DEF a
    <3> QED
      BY <1>3, <3>1 DEF Fits, a
  <2> DEFINE n == Len(pg.recs)
             p == pg.payload
  <2>4. MaxFree(new) = PageSize - (p + a) - (48 + 16 * (n + 1))
    BY <2>1, <2>2 DEF HeaderSize, MetaSize
  <2>5. /\ PageSize - p - (48 + 16 * n) > a + 16
        /\ a \in Nat /\ n \in Nat /\ p \in Nat /\ PageSize \in Nat
    BY <2>2, <2>3 DEF HeaderSize, MetaSize
  <2> HIDE DEF new, a, n, p
  <2>6. MaxFree(new) > 0
    BY <2>4, <2>5
  <2> QED
    BY <2>1, <2>6 DEF Good, new
<1>4. ASSUME NEW pg, Good(pg), NEW i \in DOMAIN pg.recs PROVE Good(Drop(pg, i))
  <2> DEFINE new == Drop(pg, i)
             a == Align(pg.recs[i].size)
  <2>1. Sound(new)
    BY <1>4, DropSound DEF Good
  <2>2. pg \in WidePage /\ pg.recs \in Seq(Record) /\ i \in 1 .. Len(pg.recs)
    BY <1>4 DEF Good, Sound, WidePage
  <2>3. Len(new.recs) = Len(pg.recs) - 1 /\ new.payload = pg.payload - a
    BY <2>2, DropFields, RemoveAtElements
  <2>4. a \in Nat
    BY <2>2, SizesAreNumbers
  <2>5. /\ MaxFree(new) = PageSize - new.payload - (HeaderSize + MetaSize * Len(new.recs))
        /\ MaxFree(pg) = PageSize - pg.payload - (HeaderSize + MetaSize * Len(pg.recs))
        /\ PageSize \in Nat /\ pg.payload \in Nat /\ Len(pg.recs) \in Nat /\ new.payload \in Nat
        /\ MaxFree(pg) > 0
    BY <1>4, <2>1, Room DEF Good
  <2> DEFINE n == Len(pg.recs)
             p == pg.payload
  <2>6. MaxFree(new) = PageSize - (p - a) - (48 + 16 * (n - 1))
    BY <2>3, <2>5 DEF HeaderSize, MetaSize
  <2>7. /\ PageSize - p - (48 + 16 * n) > 0
        /\ a \in Nat /\ n \in Nat /\ p \in Nat /\ PageSize \in Nat
    BY <2>4, <2>5 DEF HeaderSize, MetaSize
  <2> HIDE DEF new, a, n, p
  <2>8. MaxFree(new) > 0
    BY <2>6, <2>7
  <2> QED
    BY <2>1, <2>8 DEF Good, new
<1> QED
  BY <1>1, <1>2, <1>3, <1>4

\* merge leaves one.
LEMMA MergedGood ==
    ASSUME NEW front, NEW back, Good(front), Good(back), MergeFits(front, back)
    PROVE  Good(Merged(front, back))
<1> DEFINE new == Merged(front, back)
           m == Len(front.recs)
           n == Len(back.recs)
           p == front.payload
           q == back.payload
<1>1. Sound(new) /\ Len(new.recs) = m + n /\ new.payload = p + q
  BY MergedSound DEF Good
<1>2. MaxFree(new) = PageSize - (p + q) - (48 + 16 * (m + n))
  BY <1>1, Room DEF HeaderSize, MetaSize
<1>3. PageSize \in Nat /\ m \in Nat /\ n \in Nat /\ p \in Nat /\ q \in Nat
  BY Room DEF Good
<1>4. 48 + 16 * (m + n) + p + q < PageSize
  BY DEF MergeFits, HeaderSize, MetaSize
<1> HIDE DEF new, m, n, p, q
<1>5. MaxFree(new) > 0
  BY <1>2, <1>3, <1>4
<1> QED
  BY <1>1, <1>5 DEF Good, new

\* One step of balance's loops, with the target and the direction balance has chosen.
Moved(s, target, toFirst) ==
    IF s.to.payload >= target \/ s.from.recs = <<>> THEN s
    ELSE LET i == Mover(s.from.recs, toFirst)
             r == s.from.recs[i]
         IN  [to   |-> IF Fits(s.to, r.size) THEN Put(s.to, r.key, r.size) ELSE s.to,
              from |-> Drop(s.from, i)]

Pair == [to : WidePage, from : WidePage]

\* The record that moves is one of the page's.
LEMMA MoverIsRecord ==
    ASSUME NEW pg \in WidePage, pg.recs # <<>>, NEW toFirst \in BOOLEAN
    PROVE  LET i == Mover(pg.recs, toFirst)
           IN  i \in DOMAIN pg.recs /\ pg.recs[i].key \in Keys /\ pg.recs[i].size \in Sizes
<1>1. pg.recs \in Seq(Record) /\ Len(pg.recs) \in Nat /\ Len(pg.recs) >= 1
  BY DEF WidePage
<1>2. Mover(pg.recs, toFirst) \in 1 .. Len(pg.recs)
  BY <1>1 DEF Mover
<1>3. pg.recs[Mover(pg.recs, toFirst)] \in Record
  BY <1>1, <1>2
<1> QED
  BY <1>1, <1>2, <1>3 DEF Record

\* A step of balance: the record leaves one page, and is put on the other if there is room.
LEMMA MovedGood ==
    ASSUME NEW s \in Pair, NEW target, NEW toFirst \in BOOLEAN
    PROVE  /\ Moved(s, target, toFirst) \in Pair
           /\ Good(s.to) /\ Good(s.from) =>
                 Good(Moved(s, target, toFirst).to) /\ Good(Moved(s, target, toFirst).from)
<1>0. s.to \in WidePage /\ s.from \in WidePage
  BY DEF Pair
<1>1. CASE s.to.payload >= target \/ s.from.recs = <<>>
  BY <1>1 DEF Moved
<1>2. CASE ~(s.to.payload >= target \/ s.from.recs = <<>>)
  <2> DEFINE i == Mover(s.from.recs, toFirst)
             key == s.from.recs[i].key
             size == s.from.recs[i].size
             to == IF Fits(s.to, size) THEN Put(s.to, key, size) ELSE s.to
             from == Drop(s.from, i)
  <2>1. i \in DOMAIN s.from.recs /\ key \in Keys /\ size \in Sizes
    BY <1>0, <1>2, MoverIsRecord
  <2>2. Moved(s, target, toFirst) = [to |-> to, from |-> from]
    BY <1>2 DEF Moved
  <2> HIDE DEF i, key, size
  <2>3. to \in WidePage /\ from \in WidePage
    BY <1>0, <2>1, PutFields, DropFields
  <2>4. ASSUME Good(s.to), Good(s.from) PROVE Good(to) /\ Good(from)
    <3>1. Good(from)
      BY <2>1, <2>4, GoodPages
    <3>2. Fits(s.to, size) => Good(Put(s.to, key, size))
      BY <2>1, <2>4, GoodPages
    <3> QED
      BY <2>4, <3>1, <3>2
  <2> HIDE DEF to, from
  <2>5. Moved(s, target, toFirst).to = to /\ Moved(s, target, toFirst).from = from
    BY <2>2
  <2>6. Moved(s, target, toFirst) \in Pair
    BY <2>2, <2>3 DEF Pair
  <2> QED
    BY <2>4, <2>5, <2>6
<1> QED
  BY <1>1, <1>2

\* balance: however many records move, and whether or not the last of them is lost,
\* both pages are good.
LEMMA BalancedGood ==
    ASSUME NEW first, NEW last, Good(first), Good(last)
    PROVE  Good(Balanced(first, last).first) /\ Good(Balanced(first, last).last)
<1> DEFINE target == (first.payload + last.payload) \div 2
           toFirst == first.payload < last.payload
           start == IF toFirst THEN [to |-> Vacuum(first), from |-> Vacuum(last)]
                               ELSE [to |-> Vacuum(last), from |-> Vacuum(first)]
           N == Len(start.from.recs)
           Is(h) == h = [n \in 0 .. N |-> IF n = 0 THEN start
                                          ELSE Moved(h[n - 1], target, toFirst)]
           state == CHOOSE h : Is(h)
           end == state[N]
           f == [n \in 1 .. N |-> [s \in Pair |-> Moved(s, target, toFirst)]]
<1>1. /\ Balanced(first, last).first = Vacuum(IF toFirst THEN end.to ELSE end.from)
      /\ Balanced(first, last).last = Vacuum(IF toFirst THEN end.from ELSE end.to)
  BY DEF Balanced, Moved
<1>2. start \in Pair /\ Good(start.to) /\ Good(start.from)
  <2>1. Good(Vacuum(first)) /\ Good(Vacuum(last))
    BY GoodPages
  <2>2. Vacuum(first) \in WidePage /\ Vacuum(last) \in WidePage
    BY <2>1 DEF Good, Sound
  <2> QED
    BY <2>1, <2>2 DEF Pair
<1>3. toFirst \in BOOLEAN
  OBVIOUS
<1> HIDE DEF target, toFirst, start
<1>4. N \in Nat
  <2>1. start.from.recs \in Seq(Record)
    BY <1>2 DEF Pair, WidePage
  <2> QED
    BY <2>1
<1> HIDE DEF N
<1>5. \A s \in Pair : Moved(s, target, toFirst) \in Pair
  BY <1>3, MovedGood
<1>6. f \in [1 .. N -> [Pair -> Pair]]
  BY <1>5
<1>7. PICK h \in [0 .. N -> Pair] : h[0] = start /\ \A n \in 1 .. N : h[n] = f[n][h[n - 1]]
  <2> DEFINE D == Pair
             base == start
  <2>1. base \in D /\ f \in [1 .. N -> [D -> D]]
    BY <1>2, <1>6
  <2> HIDE DEF f, D, base, Is, state
  <2>2. \E h \in [0 .. N -> D] : h[0] = base /\ \A n \in 1 .. N : h[n] = f[n][h[n - 1]]
    BY <1>4, <2>1, Iteration, SMTT(30)
  <2> QED
    BY <2>2 DEF D, base
<1>8. \A n \in 1 .. N : h[n] = Moved(h[n - 1], target, toFirst)
  <2> TAKE n \in 1 .. N
  <2>1. n - 1 \in 0 .. N
    BY <1>4
  <2>2. h[n - 1] \in Pair
    BY <2>1
  <2> QED
    BY <1>7, <2>2
<1>9. Is(h)
  <2>1. ASSUME NEW n \in 0 .. N
        PROVE  h[n] = IF n = 0 THEN start ELSE Moved(h[n - 1], target, toFirst)
    BY <1>4, <1>7, <1>8
  <2> QED
    BY <2>1
<1>10. Is(state)
  <2> HIDE DEF Is
  <2> QED
    BY <1>9
<1> HIDE DEF state, f
<1>11. \A n \in 0 .. N : state[n] = IF n = 0 THEN start
                                    ELSE Moved(state[n - 1], target, toFirst)
  BY <1>10
<1> DEFINE S == {n \in 0 .. N : state[n] \in Pair /\ Good(state[n].to) /\ Good(state[n].from)}
<1>12. 0 \in S
  <2>1. 0 \in 0 .. N
    BY <1>4
  <2>2. state[0] = start
    BY <1>11, <2>1
  <2> QED
    BY <1>2, <2>1, <2>2
<1>13. ASSUME NEW n \in 0 .. N - 1, n \in S PROVE n + 1 \in S
  <2>1. n + 1 \in 0 .. N /\ n + 1 # 0 /\ (n + 1) - 1 = n
    BY <1>4
  <2>2. state[n + 1] = Moved(state[n], target, toFirst)
    BY <1>11, <2>1
  <2> QED
    BY <1>3, <1>13, <2>1, <2>2, MovedGood
<1>14. Good(end.to) /\ Good(end.from)
  <2>1. N \in 0 .. N
    BY <1>4
  <2>2. N \in S
    <3> HIDE DEF S
    <3>1. \A n \in 0 .. N : n \in S
      BY <1>4, <1>12, <1>13, UpTo
    <3> QED
      BY <2>1, <3>1
  <2> QED
    BY <2>2
<1> HIDE DEF end
<1> QED
  BY <1>1, <1>14, GoodPages

\* update_payload in place: the size kept with the record changes, its area does not.
LEMMA ResizedGood ==
    ASSUME NEW pg, Good(pg), NEW i \in DOMAIN pg.recs, NEW size \in Sizes,
           Align(size) = Align(pg.recs[i].size)
    PROVE  Good([pg EXCEPT !.recs[i].size = size])
<1> DEFINE new == [pg EXCEPT !.recs[i].size = size]
           rs == [pg.recs EXCEPT ![i].size = size]
<1>0. pg \in WidePage /\ Counted(pg) /\ RecordsPlaced(pg) /\ FragmentsPlaced(pg)
      /\ FreeZone(pg) <= pg.dataZone
  BY DEF Good, Sound
<1>1. pg.recs \in Seq(Record) /\ DOMAIN pg.recs = 1 .. Len(pg.recs) /\ Len(pg.recs) \in Nat
  BY <1>0 DEF WidePage
<1>2. pg.recs[i] \in Record
  BY <1>1
<1>3. [pg.recs[i] EXCEPT !.size = size] \in Record
  BY <1>2 DEF Record
<1>4. rs \in Seq(Record) /\ Len(rs) = Len(pg.recs) /\ DOMAIN rs = DOMAIN pg.recs
  BY <1>1, <1>3
<1>5. \A k \in DOMAIN pg.recs : /\ rs[k].offset = pg.recs[k].offset
                                /\ Align(rs[k].size) = Align(pg.recs[k].size)
  <2> TAKE k \in DOMAIN pg.recs
  <2>1. CASE k = i
    <3>1. rs[k] = [pg.recs[i] EXCEPT !.size = size]
      BY <1>1, <2>1
    <3>2. rs[k].offset = pg.recs[k].offset /\ rs[k].size = size
      BY <1>2, <2>1, <3>1 DEF Record
    <3> QED
      BY <2>1, <3>2
  <2>2. CASE k # i
    BY <1>1, <2>2
  <2> QED
    BY <2>1, <2>2
<1> HIDE DEF rs
<1>6. new = [pg EXCEPT !.recs = rs]
  BY <1>0 DEF WidePage, rs
<1>7. /\ new \in WidePage /\ new.recs = rs /\ new.frags = pg.frags /\ new.dataZone = pg.dataZone
      /\ new.payload = pg.payload /\ new.fragment = pg.fragment
  BY <1>0, <1>4, <1>6 DEF WidePage
<1> HIDE DEF new
<1>8. RecordSizes(new) = RecordSizes(pg) /\ FragmentSizes(new) = FragmentSizes(pg)
  BY <1>4, <1>5, <1>7 DEF RecordSizes, FragmentSizes
<1>9. Counted(new)
  BY <1>0, <1>7, <1>8 DEF Counted
<1>10. FreeZone(new) = FreeZone(pg) /\ MaxFree(new) = MaxFree(pg)
  BY <1>4, <1>7 DEF FreeZone, MaxFree, StackSpace
<1>11. RecordsPlaced(new)
  BY <1>0, <1>4, <1>5, <1>7 DEF RecordsPlaced
<1>12. FragmentsPlaced(new)
  BY <1>0, <1>4, <1>5, <1>7 DEF FragmentsPlaced
<1> QED
  BY <1>0, <1>7, <1>9, <1>10, <1>11, <1>12 DEF Good, Sound, new

-----------------------------------------------------------------------------
(* The two pages                                                           *)

\* The inductive invariant.
LeafInv ==
    /\ leaf \in [Sides -> WidePage]
    /\ \A s \in Sides : Good(leaf[s])
    /\ split \in BOOLEAN /\ due \in BOOLEAN
    /\ middle \in Keys \cup {0}

\* Two pages that are both empty.
LEMMA InitLeafInv == ASSUME Init PROVE LeafInv
BY EmptyPageSound, GoodPages DEF Init, LeafInv, EmptyPage

\* One of the two pages changes and stays good.
LEMMA OnePage ==
    ASSUME LeafInv, NEW s \in Sides, NEW pg, Good(pg), leaf' = [leaf EXCEPT ![s] = pg],
           split' \in BOOLEAN, due' \in BOOLEAN, middle' \in Keys \cup {0}
    PROVE  LeafInv'
<1>1. pg \in WidePage
  BY DEF Good, Sound
<1> QED
  BY <1>1 DEF LeafInv

\* Both change and stay good.
LEMMA BothPages ==
    ASSUME NEW f, NEW b, Good(f), Good(b), leaf' = [front |-> f, back |-> b],
           split' \in BOOLEAN, due' \in BOOLEAN, middle' \in Keys \cup {0}
    PROVE  LeafInv'
<1>1. f \in WidePage /\ b \in WidePage
  BY DEF Good, Sound
<1>2. leaf' \in [Sides -> WidePage] /\ leaf'["front"] = f /\ leaf'["back"] = b
  BY <1>1 DEF Sides
<1> QED
  BY <1>2 DEF LeafInv, Sides

\* The key that separates two pages is one of the keys.
LEMMA FirstKey ==
    ASSUME NEW pg, Good(pg), pg.recs # <<>>
    PROVE  pg.recs[1].key \in Keys
<1>1. pg.recs \in Seq(Record) /\ 1 \in 1 .. Len(pg.recs)
  BY DEF Good, Sound, WidePage
<1>2. pg.recs[1] \in Record
  BY <1>1
<1> QED
  BY <1>2 DEF Record

\* Every step keeps the invariant.
LEMMA NextLeafInv ==
    ASSUME LeafInv, [Next]_vars
    PROVE  LeafInv'
<1>0. /\ Good(leaf["front"]) /\ Good(leaf["back"]) /\ leaf \in [Sides -> WidePage]
      /\ Sides = {"front", "back"} /\ \A s \in Sides : Good(leaf[s])
      /\ split \in BOOLEAN /\ due \in BOOLEAN /\ middle \in Keys \cup {0}
  BY DEF LeafInv, Sides
<1>1. ASSUME NEW key \in Keys, NEW size \in Sizes, InsertPayload(key, size) PROVE LeafInv'
  <2> DEFINE s == SideOf(key)
  <2>1. s \in Sides
    BY <1>0 DEF SideOf
  <2>2. /\ leaf' = [leaf EXCEPT ![s] = Put(leaf[s], key, size)] /\ Fits(leaf[s], size)
        /\ split' = split /\ middle' = middle /\ due' = due
    BY <1>1 DEF InsertPayload
  <2> HIDE DEF s
  <2>3. Good(Put(leaf[s], key, size))
    BY <1>0, <2>1, <2>2, GoodPages
  <2> QED
    BY <1>0, <2>1, <2>2, <2>3, OnePage
<1>2. ASSUME NEW key \in Keys, NEW size \in Sizes, SplitAndInsert(key, size) PROVE LeafInv'
  <2> DEFINE b == Balanced(leaf["front"], EmptyPage)
             m == b.last.recs[1].key
             goal == IF key > m THEN b.last ELSE b.first
  <2>1. Good(b.first) /\ Good(b.last)
    BY <1>0, GoodPages, BalancedGood
  <2>2. PICK outcome \in Outcomes(b) :
           IF outcome = "returns" /\ Fits(goal, size)
           THEN /\ leaf' = IF key > m
                           THEN [front |-> b.first, back |-> Put(goal, key, size)]
                           ELSE [front |-> Put(goal, key, size), back |-> b.last]
                /\ middle' = m
                /\ split' = TRUE
           ELSE UNCHANGED <<leaf, middle, split>>
    BY <1>2 DEF SplitAndInsert
  <2>3. due' = due
    BY <1>2 DEF SplitAndInsert
  <2> HIDE DEF b
  <2>4. CASE outcome = "returns" /\ Fits(goal, size)
    <3>1. b.last.recs # <<>>
      BY <2>4 DEF Outcomes
    <3>2. m \in Keys
      BY <2>1, <3>1, FirstKey
    <3>3. Good(goal)
      BY <2>1
    <3> HIDE DEF m, goal
    <3>4. Good(Put(goal, key, size))
      BY <2>4, <3>3, GoodPages
    <3>5. middle' \in Keys \cup {0} /\ split' \in BOOLEAN /\ due' \in BOOLEAN
      BY <1>0, <2>2, <2>3, <2>4, <3>2
    <3>6. CASE key > m
      <4>1. leaf' = [front |-> b.first, back |-> Put(goal, key, size)]
        BY <2>2, <2>4, <3>6
      <4> QED
        BY <2>1, <3>4, <3>5, <4>1, BothPages
    <3>7. CASE ~(key > m)
      <4>1. leaf' = [front |-> Put(goal, key, size), back |-> b.last]
        BY <2>2, <2>4, <3>7
      <4> QED
        BY <2>1, <3>4, <3>5, <4>1, BothPages
    <3> QED
      BY <3>6, <3>7
  <2>5. CASE ~(outcome = "returns" /\ Fits(goal, size))
    <3>1. UNCHANGED <<leaf, middle, split>>
      BY <2>2, <2>5
    <3> QED
      BY <2>3, <3>1 DEF LeafInv
  <2> QED
    BY <2>4, <2>5
<1>3. ASSUME NEW s \in Sides, NEW i \in DOMAIN leaf[s].recs, DeletePayload(s, i) PROVE LeafInv'
  <2>1. /\ leaf' = [leaf EXCEPT ![s] = Drop(leaf[s], i)] /\ due' \in BOOLEAN
        /\ split' = split /\ middle' = middle
    BY <1>0, <1>3 DEF DeletePayload
  <2>2. Good(Drop(leaf[s], i))
    BY <1>0, GoodPages
  <2> QED
    BY <1>0, <2>1, <2>2, OnePage
<1>4. ASSUME NEW s \in Sides, NEW i \in DOMAIN leaf[s].recs, NEW size \in Sizes,
             UpdateInPlace(s, i, size)
      PROVE  LeafInv'
  <2> DEFINE new == [leaf[s] EXCEPT !.recs[i].size = size]
  <2>1. /\ leaf' = [leaf EXCEPT ![s] = new]
        /\ Align(size) = Align(leaf[s].recs[i].size)
        /\ split' = split /\ middle' = middle /\ due' = due
    BY <1>4 DEF UpdateInPlace
  <2>2. Good(new)
    BY <1>0, <2>1, ResizedGood
  <2> HIDE DEF new
  <2> QED
    BY <1>0, <2>1, <2>2, OnePage
<1>5. ASSUME NEW s \in Sides, NEW i \in DOMAIN leaf[s].recs, NEW size \in Sizes,
             UpdateMoves(s, i, size)
      PROVE  LeafInv'
  <2> DEFINE key == leaf[s].recs[i].key
             rest == Drop(leaf[s], i)
  <2>1. /\ \/ Fits(rest, size) /\ leaf' = [leaf EXCEPT ![s] = Put(rest, key, size)]
           \/ UNCHANGED leaf
        /\ split' = split /\ middle' = middle /\ due' = due
    BY <1>5 DEF UpdateMoves
  <2>2. key \in Keys
    <3>1. leaf[s].recs \in Seq(Record)
      BY <1>0 DEF WidePage
    <3>2. leaf[s].recs[i] \in Record
      BY <3>1
    <3> QED
      BY <3>2 DEF Record
  <2>3. Good(rest)
    BY <1>0, GoodPages
  <2> HIDE DEF rest, key
  <2>4. CASE Fits(rest, size) /\ leaf' = [leaf EXCEPT ![s] = Put(rest, key, size)]
    <3>1. Good(Put(rest, key, size))
      BY <2>2, <2>3, <2>4, GoodPages
    <3> QED
      BY <1>0, <2>1, <2>4, <3>1, OnePage
  <2>5. CASE UNCHANGED leaf
    BY <2>1, <2>5 DEF LeafInv
  <2> QED
    BY <2>1, <2>4, <2>5
<1>6. ASSUME Merge PROVE LeafInv'
  <2>1. /\ middle' = middle /\ due' = FALSE
        /\ \/ /\ MergeFits(leaf["front"], leaf["back"])
              /\ leaf' = [front |-> Merged(leaf["front"], leaf["back"]), back |-> EmptyPage]
              /\ split' = FALSE
           \/ UNCHANGED <<leaf, split>>
    BY <1>6 DEF Merge
  <2>2. CASE UNCHANGED <<leaf, split>>
    BY <2>1, <2>2 DEF LeafInv
  <2>3. CASE ~UNCHANGED <<leaf, split>>
    <3>1. Good(Merged(leaf["front"], leaf["back"])) /\ Good(EmptyPage)
      BY <1>0, <2>1, <2>3, MergedGood, GoodPages
    <3> QED
      BY <1>0, <2>1, <2>3, <3>1, BothPages
  <2> QED
    BY <2>2, <2>3
<1>7. ASSUME Balance PROVE LeafInv'
  <2> DEFINE b == Balanced(leaf["front"], leaf["back"])
  <2>1. Good(b.first) /\ Good(b.last)
    BY <1>0, BalancedGood
  <2>2. PICK outcome \in Outcomes(b) :
           IF outcome = "returns"
           THEN leaf' = [front |-> b.first, back |-> b.last] /\ middle' = b.last.recs[1].key
           ELSE UNCHANGED <<leaf, middle>>
    BY <1>7 DEF Balance
  <2>3. due' = FALSE /\ split' = split
    BY <1>7 DEF Balance
  <2> HIDE DEF b
  <2>4. CASE outcome = "returns"
    <3>1. b.last.recs # <<>>
      BY <2>4 DEF Outcomes
    <3>2. middle' \in Keys
      BY <2>1, <2>2, <2>4, <3>1, FirstKey
    <3> QED
      BY <1>0, <2>1, <2>2, <2>3, <2>4, <3>2, BothPages
  <2>5. CASE outcome # "returns"
    BY <2>2, <2>3, <2>5 DEF LeafInv
  <2> QED
    BY <2>4, <2>5
<1>8. CASE UNCHANGED vars
  BY <1>8 DEF LeafInv, vars
<1> QED
  BY <1>1, <1>2, <1>3, <1>4, <1>5, <1>6, <1>7, <1>8 DEF Next

-----------------------------------------------------------------------------
(* Theorems                                                                *)

\* Whatever the calls, each of the two pages is good in every state.
THEOREM LeafInvariant == Spec => []LeafInv
<1>1. Init => LeafInv
  BY InitLeafInv
<1>2. LeafInv /\ [Next]_vars => LeafInv'
  BY NextLeafInv
<1> QED
  BY <1>1, <1>2, PTL DEF Spec

\* The offsets and counters of a good page lie within it.
LEMMA GoodIsPage ==
    ASSUME NEW pg, Good(pg)
    PROVE  pg \in Page
<1>1. pg \in WidePage /\ Counted(pg) /\ RecordsPlaced(pg) /\ FragmentsPlaced(pg)
      /\ FreeZone(pg) <= pg.dataZone
  BY DEF Good, Sound
<1>2. /\ pg.recs \in Seq(Record) /\ pg.frags \in Seq(Fragment)
      /\ pg = [recs |-> pg.recs, frags |-> pg.frags, dataZone |-> pg.dataZone,
               payload |-> pg.payload, fragment |-> pg.fragment]
  BY <1>1 DEF WidePage
<1>3. /\ pg.payload \in Nat /\ pg.fragment \in Nat /\ pg.dataZone \in Int /\ PageSize \in Nat
      /\ pg.dataZone <= PageSize
  BY <1>1, CounterBounds, AlignBounds
<1>4. HeaderSize <= pg.dataZone
  <2>1. Len(pg.recs) \in Nat
    BY <1>2
  <2> QED
    BY <1>1, <1>3, <2>1 DEF FreeZone, HeaderSize, MetaSize
<1>5. /\ pg.dataZone \in HeaderSize .. PageSize /\ pg.payload \in 0 .. PageSize
      /\ pg.fragment \in 0 .. PageSize
  BY <1>1, <1>3, <1>4 DEF Counted, HeaderSize
<1>6. ASSUME NEW i \in DOMAIN pg.recs
      PROVE  pg.recs[i] \in [key : Keys, size : Sizes, offset : Offset]
  <2>1. pg.recs[i] \in Record
    BY <1>2
  <2>2. pg.recs[i].offset \in Int /\ Align(pg.recs[i].size) \in Nat /\ Align(pg.recs[i].size) >= 8
    <3>1. i \in 1 .. Len(pg.recs)
      BY <1>2
    <3> QED
      BY <1>1, <2>1, <3>1, SizesAreNumbers DEF Record
  <2>3. /\ pg.dataZone <= pg.recs[i].offset
        /\ pg.recs[i].offset + Align(pg.recs[i].size) <= PageSize
    BY <1>1 DEF RecordsPlaced
  <2>4. pg.recs[i].offset \in Offset
    BY <1>3, <1>4, <2>2, <2>3 DEF Offset, HeaderSize
  <2> QED
    BY <2>1, <2>4 DEF Record
<1>7. ASSUME NEW i \in DOMAIN pg.frags
      PROVE  pg.frags[i] \in [offset : Offset, size : 8 .. Align(PageSize \div 4)]
  <2>1. pg.frags[i] \in Fragment
    BY <1>2
  <2>2. pg.frags[i].offset \in Int /\ pg.frags[i].size \in Nat /\ pg.frags[i].size >= 8
    BY <2>1 DEF Fragment
  <2>3. pg.dataZone <= pg.frags[i].offset /\ pg.frags[i].offset + pg.frags[i].size <= PageSize
    BY <1>1 DEF FragmentsPlaced
  <2>4. pg.frags[i].offset \in Offset
    BY <1>3, <1>4, <2>2, <2>3 DEF Offset, HeaderSize
  <2> QED
    BY <2>1, <2>4 DEF Fragment
<1>8. /\ pg.recs \in Seq([key : Keys, size : Sizes, offset : Offset])
      /\ pg.frags \in Seq([offset : Offset, size : 8 .. Align(PageSize \div 4)])
  BY <1>2, <1>6, <1>7, SequenceOf
<1> QED
  BY <1>2, <1>5, <1>8 DEF Page

\* The header's counters are the sums of the sizes they stand for, after every call and
\* every split, merge and balance (allocate_space, free_space, vacuum, merge, balance).
THEOREM AccountingAlways == Spec => []Accounting
<1>1. LeafInv => Accounting
  <2> SUFFICES ASSUME LeafInv PROVE Accounting
    OBVIOUS
  <2>1. leaf \in [Sides -> WidePage] /\ \A s \in Sides : Good(leaf[s])
    BY DEF LeafInv
  <2>2. \A s \in Sides : leaf[s] \in Page
    BY <2>1, GoodIsPage
  <2>3. leaf \in [Sides -> Page]
    BY <2>1, <2>2
  <2>4. \A s \in Sides : Counted(leaf[s])
    BY <2>1 DEF Good, Sound
  <2> QED
    BY <2>3, <2>4 DEF Accounting, TypeOK, LeafInv, Counted
<1> QED
  BY <1>1, LeafInvariant, PTL

\* The areas of a good page, records and fragments in one sequence, lie apart.
LEMMA AreasApart ==
    ASSUME NEW pg, Good(pg)
    PROVE  LET a == Areas(pg)
           IN  /\ FreeZone(pg) <= pg.dataZone
               /\ \A i \in DOMAIN a : pg.dataZone <= a[i].from /\ a[i].to <= PageSize
               /\ \A i, j \in DOMAIN a : i # j => a[i].to <= a[j].from \/ a[j].to <= a[i].from
<1> DEFINE R == [i \in DOMAIN pg.recs |->
                   [from |-> pg.recs[i].offset, to |-> pg.recs[i].offset + Align(pg.recs[i].size)]]
           F == [i \in DOMAIN pg.frags |->
                   [from |-> pg.frags[i].offset, to |-> pg.frags[i].offset + pg.frags[i].size]]
           a == Areas(pg)
           M == Len(pg.recs)
           N == Len(pg.frags)
<1>0. /\ pg \in WidePage /\ RecordsPlaced(pg) /\ FragmentsPlaced(pg)
      /\ FreeZone(pg) <= pg.dataZone
  BY DEF Good, Sound
<1>1. /\ DOMAIN pg.recs = 1 .. M /\ DOMAIN pg.frags = 1 .. N /\ M \in Nat /\ N \in Nat
  BY <1>0 DEF WidePage
<1>2. a = R \o F
  BY DEF Areas
<1>3. /\ \A i \in 1 .. M : R[i].from = pg.recs[i].offset
                           /\ R[i].to = pg.recs[i].offset + Align(pg.recs[i].size)
      /\ \A i \in 1 .. N : F[i].from = pg.frags[i].offset
                           /\ F[i].to = pg.frags[i].offset + pg.frags[i].size
      /\ R = [i \in 1 .. M |-> R[i]] /\ F = [i \in 1 .. N |-> F[i]]
  BY <1>1
<1> HIDE DEF R, F, a, M, N
<1>4. /\ DOMAIN a = 1 .. M + N
      /\ \A i \in 1 .. M + N : a[i] = IF i <= M THEN R[i] ELSE F[i - M]
  <2> DEFINE T == {R[i] : i \in 1 .. M} \cup {F[i] : i \in 1 .. N}
  <2>1. /\ \A i \in 1 .. M : R[i] \in T
        /\ \A i \in 1 .. N : F[i] \in T
    OBVIOUS
  <2> HIDE DEF T
  <2>2. R \in Seq(T) /\ Len(R) = M /\ F \in Seq(T) /\ Len(F) = N
    <3>1. R \in [1 .. M -> T] /\ F \in [1 .. N -> T]
      BY <1>3, <2>1
    <3> QED
      BY <1>1, <3>1
  <2> QED
    BY <1>2, <2>2
<1>5. \A i \in DOMAIN a : \/ i \in DOMAIN pg.recs /\ a[i] = R[i]
                          \/ /\ i \notin DOMAIN pg.recs
                             /\ i - M \in DOMAIN pg.frags /\ a[i] = F[i - M]
  BY <1>1, <1>4
<1>6. ASSUME NEW i \in DOMAIN a PROVE pg.dataZone <= a[i].from /\ a[i].to <= PageSize
  <2>1. CASE i \in DOMAIN pg.recs /\ a[i] = R[i]
    BY <1>0, <1>1, <1>3, <2>1 DEF RecordsPlaced
  <2>2. CASE i - M \in DOMAIN pg.frags /\ a[i] = F[i - M]
    BY <1>0, <1>1, <1>3, <2>2 DEF FragmentsPlaced
  <2> QED
    BY <1>5, <2>1, <2>2
<1>7. ASSUME NEW i \in DOMAIN a, NEW j \in DOMAIN a, i # j
      PROVE  a[i].to <= a[j].from \/ a[j].to <= a[i].from
  <2>1. CASE i \in DOMAIN pg.recs /\ j \in DOMAIN pg.recs
    <3>1. Apart(pg.recs[i].offset, Align(pg.recs[i].size),
                pg.recs[j].offset, Align(pg.recs[j].size))
      BY <1>0, <1>7, <2>1 DEF RecordsPlaced
    <3>2. a[i] = R[i] /\ a[j] = R[j] /\ i \in 1 .. M /\ j \in 1 .. M
      BY <1>1, <1>5, <2>1
    <3> QED
      BY <1>3, <3>1, <3>2 DEF Apart
  <2>2. CASE i \in DOMAIN pg.recs /\ j \notin DOMAIN pg.recs
    <3>1. /\ i \in 1 .. M /\ a[i] = R[i]
          /\ j - M \in DOMAIN pg.frags /\ a[j] = F[j - M]
      BY <1>1, <1>5, <2>2
    <3>2. Apart(pg.recs[i].offset, Align(pg.recs[i].size),
                pg.frags[j - M].offset, pg.frags[j - M].size)
      BY <1>0, <1>1, <3>1 DEF FragmentsPlaced
    <3> QED
      BY <1>1, <1>3, <3>1, <3>2 DEF Apart
  <2>3. CASE i \notin DOMAIN pg.recs /\ j \in DOMAIN pg.recs
    <3>1. /\ j \in 1 .. M /\ a[j] = R[j]
          /\ i - M \in DOMAIN pg.frags /\ a[i] = F[i - M]
      BY <1>1, <1>5, <2>3
    <3>2. Apart(pg.recs[j].offset, Align(pg.recs[j].size),
                pg.frags[i - M].offset, pg.frags[i - M].size)
      BY <1>0, <1>1, <3>1 DEF FragmentsPlaced
    <3> QED
      BY <1>1, <1>3, <3>1, <3>2 DEF Apart
  <2>4. CASE i \notin DOMAIN pg.recs /\ j \notin DOMAIN pg.recs
    <3>1. i - M # j - M
      BY <1>1, <1>4, <1>7
    <3>2. /\ i - M \in DOMAIN pg.frags /\ a[i] = F[i - M]
          /\ j - M \in DOMAIN pg.frags /\ a[j] = F[j - M]
      BY <1>5, <2>4
    <3>3. Apart(pg.frags[i - M].offset, pg.frags[i - M].size,
                pg.frags[j - M].offset, pg.frags[j - M].size)
      BY <1>0, <3>1, <3>2 DEF FragmentsPlaced
    <3> QED
      BY <1>1, <1>3, <3>2, <3>3 DEF Apart
  <2> QED
    BY <2>1, <2>2, <2>3, <2>4
<1> QED
  BY <1>0, <1>6, <1>7 DEF a

\* No call makes two records, or a record and a free area, share a byte, or lets the
\* metas grow into the data zone (allocate_space's choices, free_space, vacuum).
THEOREM NoOverlapAlways == Spec => []NoOverlap
<1>1. LeafInv => NoOverlap
  <2> SUFFICES ASSUME LeafInv, NEW s \in Sides, NEW pg, pg = leaf[s]
               PROVE  LET a == Areas(pg)
                      IN  /\ FreeZone(pg) <= pg.dataZone
                          /\ \A i \in DOMAIN a : pg.dataZone <= a[i].from /\ a[i].to <= PageSize
                          /\ \A i, j \in DOMAIN a :
                                i # j => a[i].to <= a[j].from \/ a[j].to <= a[i].from
    BY DEF NoOverlap
  <2>1. Good(pg)
    BY DEF LeafInv
  <2> QED
    BY <2>1, AreasApart
<1> QED
  BY <1>1, LeafInvariant, PTL

\* vacuum's insertions never fail (the assertion in vacuum), whatever the sizes: every
\* insertion leaves a byte to spare, and a page's free space is what a vacuum finds.
THEOREM VacuumNeverFails == Spec => []VacuumAlwaysFits
<1>1. LeafInv => VacuumAlwaysFits
  BY GoodPages DEF LeafInv, VacuumAlwaysFits
<1> QED
  BY <1>1, LeafInvariant, PTL
=============================================================================
