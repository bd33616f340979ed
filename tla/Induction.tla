----------------------------- MODULE Induction -----------------------------
(***************************************************************************)
(* Induction over intervals of numbers, stated over sets and functions so  *)
(* that the proofs about the model's recursive functions can cite it, and  *)
(* sequences with one element put in or taken out.                         *)
(***************************************************************************)
EXTENDS Integers, Sequences, SequencesExt, TLAPS, WellFoundedInduction

\* A nonempty set of numbers has a least one.
LEMMA Least ==
    ASSUME NEW S, S \subseteq Nat, S # {}
    PROVE  \E m \in S : \A k \in S : m <= k
<1> DEFINE Less == OpToRel(<, Nat)
<1>1. IsWellFoundedOn(Less, Nat)
  BY NatLessThanWellFounded
<1>2. PICK m \in S : \A k \in S : ~ (<<k, m>> \in Less)
  <2> HIDE DEF Less
  <2> QED
    BY <1>1, WFMin
<1>3. \A k \in S : ~ (k < m)
  BY <1>2 DEF OpToRel
<1> QED
  BY <1>3

\* Induction: a set that has 0 and with n < N also n + 1 has every number up to N.
LEMMA UpTo ==
    ASSUME NEW N \in Nat, NEW S, 0 \in S,
           \A n \in 0 .. N - 1 : n \in S => n + 1 \in S
    PROVE  \A n \in 0 .. N : n \in S
<1> DEFINE Bad == {n \in 0 .. N : n \notin S}
<1> SUFFICES ASSUME Bad # {} PROVE FALSE
  OBVIOUS
<1>0. Bad \subseteq Nat
  OBVIOUS
<1>1. PICK m \in Bad : \A k \in Bad : m <= k
  <2> HIDE DEF Bad
  <2> QED
    BY <1>0, Least
<1>2. m # 0 /\ m \in Nat /\ m <= N /\ m \notin S
  BY <1>1
<1>3. m - 1 \in 0 .. N - 1 /\ m - 1 \notin Bad
  BY <1>1, <1>2
<1>4. m - 1 \in S
  BY <1>3
<1>5. (m - 1) + 1 \in S
  BY <1>3, <1>4
<1> QED
  BY <1>2, <1>5

\* Iteration: applying N functions one after the other to a start value is a function
\* of how many have been applied.
LEMMA Iteration ==
    ASSUME NEW D, NEW base \in D, NEW N \in Nat, NEW f \in [1 .. N -> [D -> D]]
    PROVE  \E h \in [0 .. N -> D] :
              h[0] = base /\ \A n \in 1 .. N : h[n] = f[n][h[n - 1]]
<1> DEFINE Good(m) == \E h \in [0 .. m -> D] :
                         h[0] = base /\ \A n \in 1 .. m : h[n] = f[n][h[n - 1]]
           S == {m \in 0 .. N : Good(m)}
<1>1. Good(0)
  <2> DEFINE h == [n \in 0 .. 0 |-> base]
  <2>1. h \in [0 .. 0 -> D] /\ h[0] = base
    OBVIOUS
  <2> HIDE DEF h
  <2>2. \A n \in 1 .. 0 : h[n] = f[n][h[n - 1]]
    OBVIOUS
  <2> QED
    BY <2>1, <2>2
<1>2. ASSUME NEW m \in 0 .. N - 1, Good(m) PROVE Good(m + 1)
  <2>1. PICK h \in [0 .. m -> D] :
              h[0] = base /\ \A n \in 1 .. m : h[n] = f[n][h[n - 1]]
    BY <1>2
  <2> DEFINE g == [n \in 0 .. m + 1 |-> IF n <= m THEN h[n] ELSE f[n][h[m]]]
  <2>2. f[m + 1][h[m]] \in D
    OBVIOUS
  <2>3. g \in [0 .. m + 1 -> D]
    BY <2>2
  <2>4. ASSUME NEW n \in 1 .. m + 1 PROVE g[n] = f[n][g[n - 1]]
    <3>1. CASE n \in 1 .. m
      <4>1. h[n] = f[n][h[n - 1]]
        BY <2>1, <3>1
      <4> QED
        BY <3>1, <4>1
    <3>2. CASE n = m + 1
      BY <3>2
    <3> QED
      BY <3>1, <3>2
  <2>5. g[0] = base /\ \A n \in 1 .. m + 1 : g[n] = f[n][g[n - 1]]
    BY <2>1, <2>4
  <2> HIDE DEF g
  <2> QED
    BY <2>3, <2>5
<1> HIDE DEF Good
<1>3. 0 \in S /\ \A n \in 0 .. N - 1 : n \in S => n + 1 \in S
  BY <1>1, <1>2
<1>4. \A n \in 0 .. N : n \in S
  <2> HIDE DEF S
  <2> QED
    BY <1>3, UpTo
<1>5. Good(N)
  BY <1>4
<1> QED
  BY <1>5 DEF Good

-----------------------------------------------------------------------------
(* One element put in or taken out                                         *)

\* InsertAt moves the elements behind the new one up by one.
LEMMA InsertAtElements ==
    ASSUME NEW T, NEW s \in Seq(T), NEW x \in T, NEW i \in 1 .. Len(s) + 1
    PROVE  /\ InsertAt(s, i, x) \in Seq(T)
           /\ Len(InsertAt(s, i, x)) = Len(s) + 1
           /\ InsertAt(s, i, x)[i] = x
           /\ \A k \in 1 .. Len(s) + 1 : /\ k < i => InsertAt(s, i, x)[k] = s[k]
                                         /\ k > i => InsertAt(s, i, x)[k] = s[k - 1]
<1> DEFINE a == SubSeq(s, 1, i - 1)
           b == SubSeq(s, i, Len(s))
<1>1. a \in Seq(T) /\ Len(a) = i - 1 /\ \A k \in 1 .. i - 1 : a[k] = s[k]
  OBVIOUS
<1>2. b \in Seq(T) /\ Len(b) = Len(s) + 1 - i /\ \A k \in 1 .. Len(s) + 1 - i : b[k] = s[i + k - 1]
  OBVIOUS
<1>3. InsertAt(s, i, x) = (a \o <<x>>) \o b
  BY DEF InsertAt
<1>4. i \in Nat /\ Len(s) \in Nat /\ i >= 1 /\ i <= Len(s) + 1
  OBVIOUS
<1> HIDE DEF a, b
<1> DEFINE c == a \o <<x>>
<1>5. c \in Seq(T) /\ Len(c) = i /\ \A k \in 1 .. i : c[k] = IF k < i THEN s[k] ELSE x
  BY <1>1, <1>4
<1> HIDE DEF c
<1>6. /\ c \o b \in Seq(T) /\ Len(c \o b) = Len(s) + 1
      /\ \A k \in 1 .. i : (c \o b)[k] = c[k]
      /\ \A k \in i + 1 .. Len(s) + 1 : (c \o b)[k] = b[k - i]
  BY <1>2, <1>4, <1>5
<1>7. ASSUME NEW k \in i + 1 .. Len(s) + 1 PROVE (c \o b)[k] = s[k - 1]
  <2>1. k - i \in 1 .. Len(s) + 1 - i /\ i + (k - i) - 1 = k - 1
    BY <1>4
  <2>2. b[k - i] = s[i + (k - i) - 1]
    BY <1>2, <2>1
  <2> QED
    BY <1>6, <2>1, <2>2
<1> QED
  BY <1>3, <1>4, <1>5, <1>6, <1>7, SMTT(30) DEF c

\* RemoveAt moves them down.
LEMMA RemoveAtElements ==
    ASSUME NEW T, NEW s \in Seq(T), NEW i \in 1 .. Len(s)
    PROVE  /\ RemoveAt(s, i) \in Seq(T)
           /\ Len(RemoveAt(s, i)) = Len(s) - 1
           /\ \A k \in 1 .. Len(s) - 1 : /\ k < i => RemoveAt(s, i)[k] = s[k]
                                         /\ k >= i => RemoveAt(s, i)[k] = s[k + 1]
<1> DEFINE a == SubSeq(s, 1, i - 1)
           b == SubSeq(s, i + 1, Len(s))
<1>1. a \in Seq(T) /\ Len(a) = i - 1 /\ \A k \in 1 .. i - 1 : a[k] = s[k]
  OBVIOUS
<1>2. b \in Seq(T) /\ Len(b) = Len(s) - i /\ \A k \in 1 .. Len(s) - i : b[k] = s[i + k]
  OBVIOUS
<1>3. RemoveAt(s, i) = a \o b
  BY DEF RemoveAt
<1>4. i \in Nat /\ Len(s) \in Nat /\ i >= 1 /\ i <= Len(s)
  OBVIOUS
<1> HIDE DEF a, b
<1>5. Len(a) \in Nat /\ Len(b) \in Nat /\ Len(a) + Len(b) = Len(s) - 1
  BY <1>1, <1>2, <1>4
<1>6. a \o b \in Seq(T) /\ Len(a \o b) = Len(s) - 1
  <2>1. a \in Seq(T) /\ b \in Seq(T)
    BY <1>1, <1>2
  <2>2. a \o b \in Seq(T) /\ Len(a \o b) = Len(a) + Len(b)
    BY <2>1
  <2> QED
    BY <1>5, <2>2
<1>7. ASSUME NEW k \in 1 .. Len(s) - 1
      PROVE  (k < i => (a \o b)[k] = s[k]) /\ (k >= i => (a \o b)[k] = s[k + 1])
  <2>1. CASE k < i
    <3>1. k \in 1 .. Len(a)
      BY <1>1, <1>4, <2>1
    <3>2. (a \o b)[k] = a[k]
      BY <1>1, <1>2, <3>1
    <3> QED
      BY <1>1, <1>4, <2>1, <3>1, <3>2
  <2>2. CASE k >= i
    <3>1. k - Len(a) \in 1 .. Len(s) - i /\ i + (k - Len(a)) = k + 1
      BY <1>1, <1>4, <2>2
    <3>2. b[k - Len(a)] = s[i + (k - Len(a))]
      BY <1>2, <3>1
    <3>3. k \in 1 .. Len(a) + Len(b) /\ ~(k <= Len(a))
      BY <1>1, <1>5, <2>2
    <3>4. (a \o b)[k] = b[k - Len(a)]
      BY <1>1, <1>2, <1>5, <3>3
    <3> QED
      BY <1>4, <2>2, <3>1, <3>2, <3>4
  <2> QED
    <3>1. k \in Int /\ i \in Int
      BY <1>4
    <3> QED
      BY <2>1, <2>2, <3>1
<1> QED
  BY <1>3, <1>6, <1>7

\* A sequence whose elements all lie in a set is a sequence over that set.
LEMMA SequenceOf ==
    ASSUME NEW T, NEW U, NEW s \in Seq(T), \A n \in DOMAIN s : s[n] \in U
    PROVE  s \in Seq(U)
<1>1. Len(s) \in Nat /\ DOMAIN s = 1 .. Len(s) /\ s = [n \in 1 .. Len(s) |-> s[n]]
  OBVIOUS
<1> QED
  BY <1>1
=============================================================================
