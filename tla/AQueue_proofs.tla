---------------------------- MODULE AQueue_proofs ----------------------------
(***************************************************************************)
(* What the operations of AQueue do to a sequence, for any items and keys. *)
(***************************************************************************)
EXTENDS AQueue, FiniteSetTheorems, SequenceTheorems, WellFoundedInduction, TLAPS

(* A set of natural numbers that is not empty has a least element.         *)
LEMMA LeastNatural ==
    ASSUME NEW T, T \subseteq Nat, T # {}
    PROVE  /\ Min(T) \in T
           /\ \A y \in T : Min(T) <= y
<1> DEFINE R == OpToRel(<, Nat)
<1>1. IsWellFoundedOn(R, Nat)
  BY NatLessThanWellFounded
<1>2. PICK x \in T : \A y \in T : ~ (<<y, x>> \in R)
  <2> HIDE DEF R
  <2> QED
    BY <1>1, WFMin, Zenon
<1>3. \A y \in T : ~ (y < x)
  <2> TAKE y \in T
  <2>1. <<y, x>> \notin R
    BY <1>2
  <2>2. <<y, x>> \in Nat \X Nat
    OBVIOUS
  <2> QED
    BY <2>1, <2>2, Zenon DEF OpToRel
<1>4. \A y \in T : x <= y
  BY <1>3
<1> QED
  BY <1>4 DEF Min

(* pushHead and popLast.                                                   *)
LEMMA PushHeadShape ==
    ASSUME NEW S, NEW q \in Seq(S), NEW x \in S
    PROVE  /\ PushHead(q, x) \in Seq(S)
           /\ Len(PushHead(q, x)) = Len(q) + 1
           /\ PushHead(q, x)[1] = x
           /\ \A i \in 1 .. Len(q) : PushHead(q, x)[i + 1] = q[i]
<1>1. <<x>> \in Seq(S) /\ Len(<<x>>) = 1 /\ <<x>>[1] = x
  OBVIOUS
<1> QED
  BY <1>1, ConcatProperties DEF PushHead

LEMMA FrontShape ==
    ASSUME NEW S, NEW q \in Seq(S), q # <<>>
    PROVE  /\ Front(q) \in Seq(S)
           /\ Len(q) \in Nat \ {0}
           /\ Len(Front(q)) = Len(q) - 1
           /\ \A i \in 1 .. Len(q) - 1 : Front(q)[i] = q[i]
           /\ Last(q) \in S
<1>1. Len(q) \in Nat \ {0}
  OBVIOUS
<1>2. \A i \in 1 .. Len(q) - 1 : q[i] \in S
  OBVIOUS
<1>3. 1 \in Int /\ Len(q) - 1 \in Int
  BY <1>1
<1>4. /\ SubSeq(q, 1, Len(q) - 1) \in Seq(S)
      /\ Len(SubSeq(q, 1, Len(q) - 1)) = IF 1 <= Len(q) - 1 THEN Len(q) - 1 - 1 + 1 ELSE 0
      /\ \A i \in 1 .. Len(q) - 1 - 1 + 1 : SubSeq(q, 1, Len(q) - 1)[i] = q[1 + i - 1]
  BY <1>2, <1>3, SubSeqProperties
<1>5. /\ Len(SubSeq(q, 1, Len(q) - 1)) = Len(q) - 1
      /\ \A i \in 1 .. Len(q) - 1 : SubSeq(q, 1, Len(q) - 1)[i] = q[i]
  <2>1. Len(q) - 1 - 1 + 1 = Len(q) - 1 /\ (1 <= Len(q) - 1 \/ Len(q) - 1 = 0)
    <3>1. \A n \in Nat \ {0} : n - 1 - 1 + 1 = n - 1 /\ (1 <= n - 1 \/ n - 1 = 0)
      OBVIOUS
    <3> QED
      BY <1>1, <3>1
  <2>2. \A i \in 1 .. Len(q) - 1 : 1 + i - 1 = i
    BY <1>1
  <2> HIDE <1>1
  <2> QED
    BY <1>4, <2>1, <2>2
<1>6. q[Len(q)] \in S
  BY <1>1
<1> QED
  BY <1>1, <1>4, <1>5, <1>6 DEF Front, Last

(* An item put at place p: the ones before it stay, the others move up.    *)
LEMMA InsertAtShape ==
    ASSUME NEW S, NEW q \in Seq(S), NEW x \in S, NEW p \in 1 .. Len(q) + 1
    PROVE  /\ InsertAt(q, p, x) \in Seq(S)
           /\ Len(InsertAt(q, p, x)) = Len(q) + 1
           /\ InsertAt(q, p, x)[p] = x
           /\ \A i \in 1 .. p - 1 : InsertAt(q, p, x)[i] = q[i]
           /\ \A i \in p .. Len(q) : InsertAt(q, p, x)[i + 1] = q[i]
<1> DEFINE a == SubSeq(q, 1, p - 1)
           b == SubSeq(q, p, Len(q))
<1>0. Len(q) \in Nat /\ p \in Nat \ {0} /\ p - 1 \in Int /\ p <= Len(q) + 1
  OBVIOUS
<1>1. a \in Seq(S) /\ Len(a) = p - 1 /\ \A i \in 1 .. p - 1 : a[i] = q[i]
  <2>1. \A i \in 1 .. p - 1 : q[i] \in S
    OBVIOUS
  <2>2. /\ a \in Seq(S)
        /\ Len(a) = IF 1 <= p - 1 THEN p - 1 - 1 + 1 ELSE 0
        /\ \A i \in 1 .. p - 1 - 1 + 1 : a[i] = q[1 + i - 1]
    BY <2>1, <1>0, SubSeqProperties
  <2> QED
    BY <2>2, <1>0
<1>2. /\ b \in Seq(S) /\ Len(b) = Len(q) - p + 1
      /\ \A i \in 1 .. Len(q) - p + 1 : b[i] = q[p + i - 1]
  <2>1. \A i \in p .. Len(q) : q[i] \in S
    OBVIOUS
  <2>2. /\ b \in Seq(S)
        /\ Len(b) = IF p <= Len(q) THEN Len(q) - p + 1 ELSE 0
        /\ \A i \in 1 .. Len(q) - p + 1 : b[i] = q[p + i - 1]
    BY <2>1, <1>0, SubSeqProperties
  <2> QED
    BY <2>2, <1>0
<1>3. <<x>> \in Seq(S) /\ Len(<<x>>) = 1 /\ <<x>>[1] = x
  OBVIOUS
<1> HIDE DEF a, b
<1> DEFINE c == a \o <<x>>
<1>4. /\ c \in Seq(S) /\ Len(c) = p /\ c[p] = x
      /\ \A i \in 1 .. p - 1 : c[i] = q[i]
  <2>1. /\ c \in Seq(S) /\ Len(c) = Len(a) + Len(<<x>>)
        /\ \A i \in 1 .. Len(a) + Len(<<x>>) :
              c[i] = IF i <= Len(a) THEN a[i] ELSE <<x>>[i - Len(a)]
    BY <1>1, <1>3, ConcatProperties
  <2> QED
    BY <2>1, <1>0, <1>1, <1>3
<1> HIDE DEF c
<1>5. /\ c \o b \in Seq(S) /\ Len(c \o b) = Len(q) + 1
      /\ \A i \in 1 .. Len(q) + 1 : (c \o b)[i] = IF i <= p THEN c[i] ELSE b[i - p]
  <2>1. /\ c \o b \in Seq(S) /\ Len(c \o b) = Len(c) + Len(b)
        /\ \A i \in 1 .. Len(c) + Len(b) :
              (c \o b)[i] = IF i <= Len(c) THEN c[i] ELSE b[i - Len(c)]
    BY <1>2, <1>4, ConcatProperties
  <2> QED
    BY <2>1, <1>0, <1>2, <1>4
<1>6. \A i \in p .. Len(q) : (c \o b)[i + 1] = q[i]
  BY <1>0, <1>2, <1>5
<1>7. InsertAt(q, p, x) = c \o b
  BY DEF InsertAt, a, b, c
<1> QED
  BY <1>0, <1>4, <1>5, <1>6, <1>7

(* The keys do not decrease from the head to the tail.                     *)
Ordered(q, key) ==
    \A i, j \in 1 .. Len(q) : i <= j => key[q[i]] <= key[q[j]]

(* insertSorted adds the item and keeps an ordered queue ordered.          *)
LEMMA InsertSortedShape ==
    ASSUME NEW S, NEW q \in Seq(S), NEW x \in S, NEW key \in [S -> Int]
    PROVE  /\ InsertSorted(q, x, key) \in Seq(S)
           /\ Len(InsertSorted(q, x, key)) = Len(q) + 1
           /\ Ordered(q, key) => Ordered(InsertSorted(q, x, key), key)
<1> DEFINE places == {i \in 1 .. Len(q) : key[x] <= key[q[i]]} \cup {Len(q) + 1}
           p == Min(places)
           s == InsertAt(q, p, x)
<1>0. Len(q) \in Nat /\ \A i \in 1 .. Len(q) : q[i] \in S
  OBVIOUS
<1>1. places \subseteq Nat /\ places # {}
  BY <1>0
<1>2. p \in places /\ \A y \in places : p <= y
  <2> HIDE DEF places
  <2> QED
    BY <1>1, LeastNatural
<1>3. p \in 1 .. Len(q) + 1
  BY <1>0, <1>2
<1>4. /\ s \in Seq(S) /\ Len(s) = Len(q) + 1 /\ s[p] = x
      /\ \A i \in 1 .. p - 1 : s[i] = q[i]
      /\ \A i \in p .. Len(q) : s[i + 1] = q[i]
  <2> HIDE DEF p
  <2> QED
    BY <1>3, InsertAtShape
<1>5. ASSUME Ordered(q, key) PROVE Ordered(s, key)
  <2>1. \A i \in 1 .. p - 1 : key[q[i]] < key[x]
    <3> SUFFICES ASSUME NEW i \in 1 .. p - 1 PROVE key[q[i]] < key[x]
      OBVIOUS
    <3>1. i \in 1 .. Len(q) /\ ~ (p <= i)
      BY <1>0, <1>3
    <3>2. ~ (key[x] <= key[q[i]])
      BY <1>2, <3>1
    <3>3. q[i] \in S
      BY <3>1
    <3> QED
      BY <3>2, <3>3
  <2>2. \A i \in p .. Len(q) : key[x] <= key[q[i]]
    BY <1>0, <1>2, <1>3, <1>5 DEF Ordered
  <2>3. \A i \in p + 1 .. Len(q) + 1 : s[i] = q[i - 1]
    <3> SUFFICES ASSUME NEW i \in p + 1 .. Len(q) + 1 PROVE s[i] = q[i - 1]
      OBVIOUS
    <3>1. i - 1 \in p .. Len(q) /\ (i - 1) + 1 = i
      BY <1>0, <1>3
    <3> HIDE DEF s, p
    <3> QED
      BY <1>4, <3>1
  <2> HIDE DEF s, p
  <2>4. ASSUME NEW i \in 1 .. Len(q) + 1, NEW j \in 1 .. Len(q) + 1, i <= j
        PROVE  key[s[i]] <= key[s[j]]
    <3>1. CASE j < p
      <4>1. i \in 1 .. p - 1 /\ j \in 1 .. p - 1 /\ i \in 1 .. Len(q) /\ j \in 1 .. Len(q)
        BY <1>0, <1>3, <2>4, <3>1
      <4>2. s[i] = q[i] /\ s[j] = q[j]
        BY <1>4, <4>1
      <4> QED
        BY <1>5, <2>4, <4>1, <4>2 DEF Ordered
    <3>2. CASE j = p
      <4>1. s[j] = x /\ key[x] \in Int
        BY <1>0, <1>4, <3>2
      <4>2. CASE i = p
        BY <3>2, <4>1, <4>2
      <4>3. CASE i # p
        <5>1. i \in 1 .. p - 1 /\ i \in 1 .. Len(q)
          BY <1>0, <1>3, <2>4, <3>2, <4>3
        <5>2. s[i] = q[i] /\ key[q[i]] < key[x] /\ q[i] \in S
          BY <1>4, <2>1, <5>1
        <5>3. key[q[i]] \in Int
          BY <5>2
        <5> QED
          BY <4>1, <5>2, <5>3
      <4> QED
        BY <4>2, <4>3
    <3>3. CASE j > p /\ i < p
      <4>1. /\ i \in 1 .. p - 1 /\ j \in p + 1 .. Len(q) + 1 /\ i <= j - 1
            /\ i \in 1 .. Len(q) /\ j - 1 \in 1 .. Len(q)
        BY <1>0, <1>3, <3>3
      <4>2. s[i] = q[i] /\ s[j] = q[j - 1]
        BY <1>4, <2>3, <4>1
      <4> QED
        BY <1>5, <4>1, <4>2 DEF Ordered
    <3>4. CASE j > p /\ i = p
      <4>1. j \in p + 1 .. Len(q) + 1 /\ j - 1 \in p .. Len(q)
        BY <1>0, <1>3, <3>4
      <4>2. s[i] = x /\ s[j] = q[j - 1]
        BY <1>4, <2>3, <3>4, <4>1
      <4> QED
        BY <2>2, <4>1, <4>2
    <3>5. CASE j > p /\ i > p
      <4>1. /\ i \in p + 1 .. Len(q) + 1 /\ j \in p + 1 .. Len(q) + 1
            /\ i - 1 <= j - 1
            /\ i - 1 \in 1 .. Len(q) /\ j - 1 \in 1 .. Len(q)
        BY <1>0, <1>3, <2>4, <3>5
      <4>2. s[i] = q[i - 1] /\ s[j] = q[j - 1]
        BY <2>3, <4>1
      <4> QED
        BY <1>5, <4>1, <4>2 DEF Ordered
    <3> QED
      BY <1>3, <3>1, <3>2, <3>3, <3>4, <3>5
  <2> QED
    BY <1>4, <2>4 DEF Ordered
<1>6. InsertSorted(q, x, key) = s
  BY DEF InsertSorted
<1> QED
  BY <1>4, <1>5, <1>6

(* sort: every place is taken once, so nothing is lost or duplicated.      *)
LEMMA SortPlacePermutes ==
    ASSUME NEW S, NEW q \in Seq(S), NEW key \in [S -> Int]
    PROVE  /\ SortPlace(q, key) \in Bijection(1 .. Len(q), 1 .. Len(q))
           /\ \A i, j \in 1 .. Len(q) :
                 SortPlace(q, key)[i] <= SortPlace(q, key)[j]
                     => key[q[i]] <= key[q[j]]
<1> DEFINE D == 1 .. Len(q)
           Before(i, j) == \/ key[q[i]] < key[q[j]]
                           \/ key[q[i]] = key[q[j]] /\ i <= j
           Upto(j) == {i \in D : Before(i, j)}
           f == SortPlace(q, key)
<1>1. \A i \in D : i \in Int /\ key[q[i]] \in Int
  OBVIOUS
<1>2. IsFiniteSet(D) /\ Cardinality(D) = Len(q) /\ Len(q) \in Nat
  <2>1. \A n \in Nat : 1 \in Int /\ n \in Int /\ (IF 1 > n THEN 0 ELSE n - 1 + 1) = n
    OBVIOUS
  <2>2. Len(q) \in Nat
    OBVIOUS
  <2> QED
    BY <2>1, <2>2, FS_Interval
<1>3. \A j \in D : f[j] = Cardinality(Upto(j))
  BY DEF SortPlace
<1>4. ASSUME NEW j \in D
      PROVE  /\ IsFiniteSet(Upto(j)) /\ Cardinality(Upto(j)) \in D
  <2>1. Upto(j) \subseteq D /\ j \in Upto(j)
    BY <1>1
  <2> HIDE DEF Upto
  <2>2. IsFiniteSet(Upto(j)) /\ Cardinality(Upto(j)) <= Len(q)
        /\ Cardinality(Upto(j)) \in Nat /\ Cardinality(Upto(j)) # 0
    BY <1>2, <2>1, FS_Subset, FS_CardinalityType, FS_EmptySet
  <2> QED
    BY <1>2, <2>2
<1>5. ASSUME NEW i \in D, NEW j \in D, i # j, Before(i, j)
      PROVE  Cardinality(Upto(i)) < Cardinality(Upto(j))
  <2>1. Upto(i) \subseteq Upto(j) /\ j \in Upto(j) /\ j \notin Upto(i)
    BY <1>1, <1>5
  <2> HIDE DEF Upto
  <2>2. /\ Cardinality(Upto(i)) <= Cardinality(Upto(j))
        /\ Cardinality(Upto(i)) # Cardinality(Upto(j))
    BY <1>4, <2>1, FS_Subset
  <2>3. Cardinality(Upto(i)) \in Int /\ Cardinality(Upto(j)) \in Int
    BY <1>2, <1>4
  <2> QED
    BY <2>2, <2>3
<1>6. \A i, j \in D : Before(i, j) \/ Before(j, i)
  BY <1>1
<1> HIDE DEF Upto
<1>7. f \in [D -> D]
  <2>1. f = [j \in D |-> f[j]]
    BY DEF SortPlace
  <2> HIDE DEF f
  <2> QED
    BY <1>3, <1>4, <2>1
<1>8. ASSUME NEW i \in D, NEW j \in D, f[i] = f[j] PROVE i = j
  <2> HIDE DEF Before, f
  <2>1. Cardinality(Upto(i)) = Cardinality(Upto(j))
    BY <1>3, <1>8
  <2>2. Cardinality(Upto(i)) \in Int
    BY <1>2, <1>4
  <2> QED
    BY <1>5, <1>6, <2>1, <2>2, SMTT(30)
<1>9. f \in Bijection(D, D)
  <2>1. f \in Injection(D, D)
    BY <1>7, <1>8 DEF Injection, IsInjective
  <2> HIDE DEF f, D
  <2>2. f \in Surjection(D, D)
    BY <1>2, <2>1, FS_Injection
  <2> QED
    BY <2>1, <2>2 DEF Bijection
<1>10. ASSUME NEW i \in D, NEW j \in D, f[i] <= f[j] PROVE key[q[i]] <= key[q[j]]
  <2>1. CASE i = j
    BY <1>1, <2>1
  <2>2. CASE i # j
    <3>1. ~ (Cardinality(Upto(j)) < Cardinality(Upto(i)))
      <4> HIDE DEF f
      <4>1. Cardinality(Upto(i)) \in Int /\ Cardinality(Upto(j)) \in Int
        BY <1>2, <1>4
      <4> QED
        BY <1>3, <1>10, <4>1
    <3>2. ~ Before(j, i)
      <4> HIDE DEF Before
      <4> QED
        BY <1>5, <2>2, <3>1
    <3> QED
      BY <1>1, <3>2
  <2> QED
    BY <2>1, <2>2
<1> QED
  BY <1>9, <1>10

LEMMA SortQueueShape ==
    ASSUME NEW S, NEW q \in Seq(S), NEW key \in [S -> Int]
    PROVE  /\ SortQueue(q, key) \in Seq(S)
           /\ Len(SortQueue(q, key)) = Len(q)
           /\ Ordered(SortQueue(q, key), key)
<1> DEFINE D == 1 .. Len(q)
           f == SortPlace(q, key)
           s == SortQueue(q, key)
           from(k) == CHOOSE j \in D : f[j] = k
<1>1. /\ f \in Surjection(D, D)
      /\ \A i, j \in D : f[i] <= f[j] => key[q[i]] <= key[q[j]]
  BY SortPlacePermutes DEF Bijection
<1>2. s = [k \in D |-> q[from(k)]]
  BY DEF SortQueue
<1>0. Len(q) \in Nat /\ \A i \in D : i \in Int /\ q[i] \in S
  OBVIOUS
<1> HIDE DEF f, s
<1>3. ASSUME NEW k \in D PROVE from(k) \in D /\ f[from(k)] = k
  <2>1. \E j \in D : f[j] = k
    BY <1>1 DEF Surjection
  <2> QED
    BY <2>1
<1> HIDE DEF from
<1>4. s \in Seq(S) /\ Len(s) = Len(q)
  <2>1. s \in [1 .. Len(q) -> S]
    BY <1>0, <1>2, <1>3
  <2> QED
    BY <1>0, <2>1, SMTT(30)
<1>5. ASSUME NEW k \in D, NEW l \in D, k <= l PROVE key[s[k]] <= key[s[l]]
  <2>1. s[k] = q[from(k)] /\ s[l] = q[from(l)]
    BY <1>2
  <2> QED
    BY <1>1, <1>3, <1>5, <2>1
<1> QED
  BY <1>4, <1>5 DEF Ordered, s

(* remove takes one item out; the others move up.                          *)
LEMMA RemoveItemPlaces ==
    ASSUME NEW S, NEW q \in Seq(S), NEW x \in ToSet(q)
    PROVE  /\ RemoveItem(q, x) \in Seq(S)
           /\ Len(q) \in Nat
           /\ Len(RemoveItem(q, x)) = Len(q) - 1
           /\ \E p \in 1 .. Len(q) :
                 /\ q[p] = x
                 /\ \A i \in 1 .. Len(q) - 1 :
                       RemoveItem(q, x)[i] = IF i < p THEN q[i] ELSE q[i + 1]
<1> DEFINE places == {i \in 1 .. Len(q) : q[i] = x}
           p == Min(places)
           a == SubSeq(q, 1, p - 1)
           b == SubSeq(q, p + 1, Len(q))
           s == RemoveItem(q, x)
<1>0. Len(q) \in Nat /\ \A i \in 1 .. Len(q) : q[i] \in S
  OBVIOUS
<1>1. places \subseteq Nat /\ places # {}
  BY <1>0 DEF ToSet
<1>2. p \in 1 .. Len(q) /\ q[p] = x
  <2>1. p \in places
    <3> HIDE DEF places
    <3> QED
      BY <1>1, LeastNatural
  <2> QED
    BY <2>1
<1>3. s = a \o b
  <2>1. \E i \in 1 .. Len(q) : q[i] = x
    BY <1>1
  <2> QED
    BY <1>1, <2>1 DEF RemoveItem, RemoveFirst, RemoveAt, SelectInSeq
<1> HIDE DEF p, s
<1>4. a \in Seq(S) /\ Len(a) = p - 1 /\ \A i \in 1 .. p - 1 : a[i] = q[i]
  <2>1. \A i \in 1 .. p - 1 : q[i] \in S
    BY <1>0, <1>2
  <2>2. 1 \in Int /\ p - 1 \in Int /\ p - 1 >= 0
    BY <1>2
  <2>3. /\ a \in Seq(S)
        /\ Len(a) = IF 1 <= p - 1 THEN p - 1 - 1 + 1 ELSE 0
        /\ \A i \in 1 .. p - 1 - 1 + 1 : a[i] = q[1 + i - 1]
    BY <2>1, <2>2, SubSeqProperties
  <2> QED
    BY <2>2, <2>3
<1>5. /\ b \in Seq(S) /\ Len(b) = Len(q) - p
      /\ \A i \in 1 .. Len(q) - p : b[i] = q[p + i]
  <2>1. \A i \in p + 1 .. Len(q) : q[i] \in S
    BY <1>0, <1>2
  <2>2. p + 1 \in Int /\ Len(q) \in Int /\ p <= Len(q)
    BY <1>0, <1>2
  <2>3. /\ b \in Seq(S)
        /\ Len(b) = IF p + 1 <= Len(q) THEN Len(q) - (p + 1) + 1 ELSE 0
        /\ \A i \in 1 .. Len(q) - (p + 1) + 1 : b[i] = q[p + 1 + i - 1]
    BY <2>1, <2>2, SubSeqProperties
  <2>4. \A m, n \in Int : n - (m + 1) + 1 = n - m
    OBVIOUS
  <2>5. \A i \in 1 .. Len(q) - p : p + 1 + i - 1 = p + i
    BY <1>0, <1>2
  <2> QED
    BY <1>2, <2>2, <2>3, <2>4, <2>5
<1> HIDE DEF a, b
<1>6. /\ s \in Seq(S) /\ Len(s) = Len(q) - 1
      /\ \A i \in 1 .. Len(q) - 1 : s[i] = IF i < p THEN q[i] ELSE q[i + 1]
  <2>1. /\ s \in Seq(S) /\ Len(s) = Len(a) + Len(b)
        /\ \A i \in 1 .. Len(a) + Len(b) :
              s[i] = IF i <= Len(a) THEN a[i] ELSE b[i - Len(a)]
    BY <1>3, <1>4, <1>5, ConcatProperties
  <2>2. Len(a) + Len(b) = Len(q) - 1
    BY <1>0, <1>2, <1>4, <1>5
  <2>3. ASSUME NEW i \in 1 .. Len(q) - 1
        PROVE  s[i] = IF i < p THEN q[i] ELSE q[i + 1]
    <3>1. CASE i < p
      <4>1. i \in 1 .. p - 1 /\ i <= Len(a)
        BY <1>2, <1>4, <2>3, <3>1
      <4> QED
        BY <1>4, <2>1, <2>2, <2>3, <3>1, <4>1
    <3>2. CASE ~ (i < p)
      <4>1. ~ (i <= Len(a)) /\ i - Len(a) \in 1 .. Len(q) - p
            /\ p + (i - Len(a)) = i + 1
        BY <1>0, <1>2, <1>4, <2>3, <3>2
      <4>2. s[i] = b[i - Len(a)]
        BY <2>1, <2>2, <2>3, <4>1
      <4> QED
        BY <1>5, <3>2, <4>1, <4>2
    <3> QED
      BY <3>1, <3>2
  <2> QED
    BY <2>1, <2>2, <2>3
<1> QED
  BY <1>0, <1>2, <1>6 DEF s

(* The order of the others is left.                                        *)
LEMMA RemoveItemShape ==
    ASSUME NEW S, NEW q \in Seq(S), NEW x \in ToSet(q), NEW key \in [S -> Int]
    PROVE  /\ RemoveItem(q, x) \in Seq(S)
           /\ Len(q) \in Nat \ {0}
           /\ Len(RemoveItem(q, x)) = Len(q) - 1
           /\ Ordered(q, key) => Ordered(RemoveItem(q, x), key)
<1> DEFINE s == RemoveItem(q, x)
<1>0. s \in Seq(S) /\ Len(q) \in Nat /\ Len(s) = Len(q) - 1
  BY RemoveItemPlaces
<1>1. \E p \in 1 .. Len(q) : \A i \in 1 .. Len(q) - 1 : s[i] = IF i < p THEN q[i] ELSE q[i + 1]
  BY RemoveItemPlaces
<1> HIDE DEF s
<1>2. PICK p \in 1 .. Len(q) : \A i \in 1 .. Len(q) - 1 : s[i] = IF i < p THEN q[i] ELSE q[i + 1]
  BY <1>1
<1>3. \A i \in 1 .. Len(q) - 1 : s[i] = IF i < p THEN q[i] ELSE q[i + 1]
  BY <1>2
<1>4. ASSUME Ordered(q, key) PROVE Ordered(s, key)
  <2>1. ASSUME NEW i \in 1 .. Len(q) - 1, NEW j \in 1 .. Len(q) - 1, i <= j
        PROVE  key[s[i]] <= key[s[j]]
    <3> DEFINE m == IF i < p THEN i ELSE i + 1
               n == IF j < p THEN j ELSE j + 1
    <3>1. m \in 1 .. Len(q) /\ n \in 1 .. Len(q) /\ m <= n
      BY <1>0, <2>1, SMTT(30)
    <3>2. s[i] = q[m] /\ s[j] = q[n]
      BY <1>3
    <3> HIDE DEF m, n
    <3> QED
      BY <1>4, <3>1, <3>2 DEF Ordered
  <2> QED
    BY <1>0, <2>1 DEF Ordered
<1>5. Len(q) # 0
  BY <1>2
<1> QED
  BY <1>0, <1>4, <1>5 DEF s
-----------------------------------------------------------------------------
(* Which items are in a queue, and those of T at most once.                *)
Single(q, T) == \A i, j \in 1 .. Len(q) : q[i] = q[j] /\ q[i] \in T => i = j

LEMMA InToSet ==
    ASSUME NEW S, NEW q \in Seq(S), NEW z
    PROVE  z \in ToSet(q) <=> \E i \in 1 .. Len(q) : q[i] = z
  BY DEF ToSet

LEMMA IsSequence == ASSUME NEW S, NEW n \in Nat, NEW f \in [1 .. n -> S] PROVE f \in Seq(S)
  OBVIOUS

(* A queue made of items from different places of another.                 *)
LEMMA Picked ==
    ASSUME NEW S, NEW q \in Seq(S), NEW s \in Seq(S), NEW f, NEW T,
           \A i \in 1 .. Len(s) : f[i] \in 1 .. Len(q) /\ s[i] = q[f[i]],
           \A i, j \in 1 .. Len(s) : f[i] = f[j] => i = j
    PROVE  /\ ToSet(s) \subseteq ToSet(q)
           /\ Single(q, T) => Single(s, T)
<1>1. ASSUME NEW z \in ToSet(s) PROVE z \in ToSet(q)
  <2>1. PICK i \in 1 .. Len(s) : s[i] = z
    BY InToSet
  <2> QED
    BY <2>1, InToSet
<1>2. ASSUME Single(q, T) PROVE Single(s, T)
  BY <1>2, SMTT(30) DEF Single
<1> QED
  BY <1>1, <1>2

LEMMA InsertAtItems ==
    ASSUME NEW S, NEW q \in Seq(S), NEW x \in S, NEW p \in 1 .. Len(q) + 1, NEW T
    PROVE  /\ ToSet(InsertAt(q, p, x)) = ToSet(q) \cup {x}
           /\ Single(q, T) /\ x \notin ToSet(q) => Single(InsertAt(q, p, x), T)
<1> DEFINE s == InsertAt(q, p, x)
<1>1. /\ s \in Seq(S) /\ Len(s) = Len(q) + 1 /\ s[p] = x
      /\ \A i \in 1 .. p - 1 : s[i] = q[i]
      /\ \A i \in p .. Len(q) : s[i + 1] = q[i]
      /\ Len(q) \in Nat
  BY InsertAtShape
<1> HIDE DEF s
<1>2. ASSUME NEW i \in 1 .. Len(s), i # p
      PROVE  /\ IF i < p THEN i \in 1 .. Len(q) /\ s[i] = q[i]
                ELSE i - 1 \in 1 .. Len(q) /\ s[i] = q[i - 1]
  <2>1. CASE i < p
    BY <1>1, <2>1
  <2>2. CASE ~(i < p)
    <3>1. i - 1 \in p .. Len(q) /\ (i - 1) + 1 = i
      BY <1>1, <1>2, <2>2
    <3>2. s[(i - 1) + 1] = q[i - 1]
      BY <1>1, <3>1
    <3> QED
      BY <2>2, <3>1, <3>2
  <2> QED
    BY <2>1, <2>2
<1>3. ASSUME NEW z \in ToSet(s) PROVE z \in ToSet(q) \cup {x}
  <2>1. PICK i \in 1 .. Len(s) : s[i] = z
    BY <1>1, InToSet
  <2> QED
    BY <1>1, <1>2, <2>1, InToSet
<1>4. ASSUME NEW z \in ToSet(q) PROVE z \in ToSet(s)
  <2>1. PICK i \in 1 .. Len(q) : q[i] = z
    BY InToSet
  <2>2. CASE i < p
    <3>1. i \in 1 .. Len(s) /\ s[i] = z
      BY <1>1, <2>1, <2>2
    <3> QED
      BY <1>1, <3>1, InToSet
  <2>3. CASE ~(i < p)
    <3>1. i + 1 \in 1 .. Len(s) /\ s[i + 1] = z
      BY <1>1, <2>1, <2>3
    <3> QED
      BY <1>1, <3>1, InToSet
  <2> QED
    BY <2>2, <2>3
<1>5. x \in ToSet(s)
  <2>1. p \in 1 .. Len(s)
    BY <1>1
  <2> QED
    BY <1>1, <2>1, InToSet
<1>6. ASSUME Single(q, T), x \notin ToSet(q) PROVE Single(s, T)
  <2>1. SUFFICES ASSUME NEW i \in 1 .. Len(s), NEW j \in 1 .. Len(s), s[i] = s[j], s[i] \in T
                 PROVE  i = j
    BY DEF Single
  <2>2. \A k \in 1 .. Len(q) : q[k] # x
    BY <1>6, InToSet
  <2>3. CASE i = p \/ j = p
    BY <1>1, <1>2, <2>1, <2>2, <2>3
  <2>4. CASE i # p /\ j # p
    <3> DEFINE m == IF i < p THEN i ELSE i - 1
               n == IF j < p THEN j ELSE j - 1
    <3>1. m \in 1 .. Len(q) /\ n \in 1 .. Len(q) /\ s[i] = q[m] /\ s[j] = q[n]
      BY <1>2, <2>4
    <3>2. m = n
      BY <1>6, <2>1, <3>1 DEF Single
    <3> QED
      BY <1>1, <2>4, <3>2
  <2> QED
    BY <2>3, <2>4
<1> QED
  BY <1>3, <1>4, <1>5, <1>6 DEF s

LEMMA InsertSortedItems ==
    ASSUME NEW S, NEW q \in Seq(S), NEW x \in S, NEW key \in [S -> Int], NEW T
    PROVE  /\ ToSet(InsertSorted(q, x, key)) = ToSet(q) \cup {x}
           /\ Single(q, T) /\ x \notin ToSet(q) => Single(InsertSorted(q, x, key), T)
<1> DEFINE places == {i \in 1 .. Len(q) : key[x] <= key[q[i]]} \cup {Len(q) + 1}
<1>1. places \subseteq 1 .. Len(q) + 1 /\ Len(q) + 1 \in places /\ 1 .. Len(q) + 1 \subseteq Nat
  OBVIOUS
<1>2. Min(places) \in places
  <2> HIDE DEF places
  <2>1. places \subseteq Nat /\ places # {}
    BY <1>1
  <2> QED
    BY <2>1, LeastNatural
<1>3. InsertSorted(q, x, key) = InsertAt(q, Min(places), x)
  BY DEF InsertSorted
<1> DEFINE p == Min(places)
<1>4. p \in 1 .. Len(q) + 1
  BY <1>1, <1>2
<1> HIDE DEF p
<1>5. /\ ToSet(InsertAt(q, p, x)) = ToSet(q) \cup {x}
      /\ Single(q, T) /\ x \notin ToSet(q) => Single(InsertAt(q, p, x), T)
  BY <1>4, InsertAtItems
<1> QED
  BY <1>3, <1>5 DEF p

LEMMA PushHeadItems ==
    ASSUME NEW S, NEW q \in Seq(S), NEW x \in S, NEW T
    PROVE  /\ ToSet(PushHead(q, x)) = ToSet(q) \cup {x}
           /\ Single(q, T) /\ x \notin ToSet(q) => Single(PushHead(q, x), T)
<1> DEFINE s == PushHead(q, x)
<1>1. /\ s \in Seq(S) /\ Len(s) = Len(q) + 1 /\ s[1] = x
      /\ \A i \in 1 .. Len(q) : s[i + 1] = q[i]
      /\ Len(q) \in Nat
  <2>1. Len(q) \in Nat
    OBVIOUS
  <2> QED
    BY <2>1, PushHeadShape
<1> HIDE DEF s
<1>2. ASSUME NEW i \in 1 .. Len(s), i # 1 PROVE i - 1 \in 1 .. Len(q) /\ s[i] = q[i - 1]
  <2>1. i - 1 \in 1 .. Len(q) /\ (i - 1) + 1 = i
    BY <1>1, <1>2
  <2> QED
    BY <1>1, <2>1
<1>3. ASSUME NEW z \in ToSet(s) PROVE z \in ToSet(q) \cup {x}
  <2>1. PICK i \in 1 .. Len(s) : s[i] = z
    BY <1>1, InToSet
  <2> QED
    BY <1>1, <1>2, <2>1, InToSet
<1>4. ASSUME NEW z \in ToSet(q) PROVE z \in ToSet(s)
  <2>1. PICK i \in 1 .. Len(q) : q[i] = z
    BY InToSet
  <2>2. i + 1 \in 1 .. Len(s) /\ s[i + 1] = z
    BY <1>1, <2>1
  <2> QED
    BY <1>1, <2>2, InToSet
<1>5. x \in ToSet(s)
  <2>1. 1 \in 1 .. Len(s)
    BY <1>1
  <2> QED
    BY <1>1, <2>1, InToSet
<1>6. ASSUME Single(q, T), x \notin ToSet(q) PROVE Single(s, T)
  <2>1. SUFFICES ASSUME NEW i \in 1 .. Len(s), NEW j \in 1 .. Len(s), s[i] = s[j], s[i] \in T
                 PROVE  i = j
    BY DEF Single
  <2>2. \A k \in 1 .. Len(q) : q[k] # x
    BY <1>6, InToSet
  <2>3. CASE i = 1 \/ j = 1
    BY <1>1, <1>2, <2>1, <2>2, <2>3
  <2>4. CASE i # 1 /\ j # 1
    <3>1. i - 1 = j - 1
      BY <1>2, <1>6, <2>1, <2>4 DEF Single
    <3> QED
      BY <1>1, <3>1
  <2> QED
    BY <2>3, <2>4
<1> QED
  BY <1>3, <1>4, <1>5, <1>6 DEF s

LEMMA FrontItems ==
    ASSUME NEW S, NEW q \in Seq(S), q # <<>>, NEW T
    PROVE  /\ ToSet(q) = ToSet(Front(q)) \cup {Last(q)}
           /\ Single(q, T) => Single(Front(q), T) /\ (Last(q) \in T => Last(q) \notin ToSet(Front(q)))
<1>1. /\ Front(q) \in Seq(S) /\ Len(q) \in Nat \ {0} /\ Len(Front(q)) = Len(q) - 1
      /\ \A i \in 1 .. Len(q) - 1 : Front(q)[i] = q[i]
      /\ Last(q) = q[Len(q)]
  BY FrontShape DEF Last
<1>2. ASSUME NEW z \in ToSet(q) PROVE z \in ToSet(Front(q)) \cup {Last(q)}
  <2>1. PICK i \in 1 .. Len(q) : q[i] = z
    BY InToSet
  <2>2. i \in 1 .. Len(q) - 1 \/ i = Len(q)
    BY <1>1
  <2>3. CASE i \in 1 .. Len(q) - 1
    BY <1>1, <2>1, <2>3, InToSet
  <2> QED
    BY <1>1, <2>1, <2>2, <2>3
<1>3. \A i \in 1 .. Len(q) - 1 : i \in 1 .. Len(q) /\ i # Len(q)
  BY <1>1
<1>4. Len(q) \in 1 .. Len(q)
  BY <1>1
<1>5. ToSet(Front(q)) \cup {Last(q)} \subseteq ToSet(q)
  <2>1. Last(q) \in ToSet(q)
    BY <1>1, <1>4, InToSet
  <2>2. ASSUME NEW z \in ToSet(Front(q)) PROVE z \in ToSet(q)
    <3>1. PICK i \in 1 .. Len(q) - 1 : Front(q)[i] = z
      BY <1>1, InToSet
    <3>2. q[i] = z /\ i \in 1 .. Len(q)
      BY <1>1, <1>3, <3>1
    <3> QED
      BY <3>2, InToSet
  <2> QED
    BY <2>1, <2>2
<1>6. ASSUME Single(q, T) PROVE Single(Front(q), T)
  BY <1>1, <1>3, <1>6 DEF Single
<1>7. ASSUME Single(q, T), Last(q) \in T, Last(q) \in ToSet(Front(q)) PROVE FALSE
  <2>1. PICK i \in 1 .. Len(q) - 1 : Front(q)[i] = Last(q)
    BY <1>1, <1>7, InToSet
  <2>2. q[i] = q[Len(q)]
    BY <1>1, <2>1
  <2> QED
    BY <1>1, <1>3, <1>4, <1>7, <2>2 DEF Single
<1> QED
  BY <1>2, <1>5, <1>6, <1>7

LEMMA SortQueueItems ==
    ASSUME NEW S, NEW q \in Seq(S), NEW key \in [S -> Int], NEW T
    PROVE  /\ ToSet(SortQueue(q, key)) = ToSet(q)
           /\ Single(q, T) => Single(SortQueue(q, key), T)
<1> DEFINE D == 1 .. Len(q)
           f == SortPlace(q, key)
           s == SortQueue(q, key)
           from == [k \in D |-> CHOOSE j \in D : f[j] = k]
<1>1. f \in Surjection(D, D) /\ f \in Injection(D, D) /\ f \in [D -> D]
  BY SortPlacePermutes DEF Bijection, Injection
<1>2. s = [k \in D |-> q[CHOOSE j \in D : f[j] = k]]
  BY DEF SortQueue
<1>3. s \in Seq(S) /\ Len(s) = Len(q)
  BY SortQueueShape
<1> HIDE DEF f, s
<1>4. ASSUME NEW k \in D PROVE from[k] \in D /\ f[from[k]] = k /\ s[k] = q[from[k]]
  <2>1. \E j \in D : f[j] = k
    BY <1>1 DEF Surjection
  <2>2. s[k] = q[from[k]]
    BY <1>2
  <2> QED
    BY <2>1, <2>2
<1> HIDE DEF from
<1>5. \A i, j \in D : from[i] = from[j] => i = j
  BY <1>4
<1>6. ToSet(s) \subseteq ToSet(q) /\ (Single(q, T) => Single(s, T))
  <2>1. \A i \in 1 .. Len(s) : from[i] \in 1 .. Len(q) /\ s[i] = q[from[i]]
    BY <1>3, <1>4
  <2>2. \A i, j \in 1 .. Len(s) : from[i] = from[j] => i = j
    BY <1>3, <1>5
  <2> QED
    BY <1>3, <2>1, <2>2, Picked
<1>7. ASSUME NEW z \in ToSet(q) PROVE z \in ToSet(s)
  <2>1. PICK j \in D : q[j] = z
    BY InToSet
  <2>2. f[j] \in D /\ from[f[j]] \in D /\ f[from[f[j]]] = f[j] /\ s[f[j]] = q[from[f[j]]]
    BY <1>1, <1>4
  <2>3. from[f[j]] = j
    BY <1>1, <2>2 DEF Injection, IsInjective
  <2> QED
    BY <1>3, <2>1, <2>2, <2>3, InToSet
<1> QED
  BY <1>6, <1>7 DEF s

LEMMA RemoveItemItems ==
    ASSUME NEW S, NEW q \in Seq(S), NEW x \in ToSet(q), NEW T
    PROVE  /\ ToSet(RemoveItem(q, x)) \subseteq ToSet(q)
           /\ ToSet(q) \subseteq ToSet(RemoveItem(q, x)) \cup {x}
           /\ Single(q, T) => Single(RemoveItem(q, x), T)
<1> DEFINE s == RemoveItem(q, x)
<1>0. s \in Seq(S) /\ Len(q) \in Nat /\ Len(s) = Len(q) - 1
  BY RemoveItemPlaces
<1>1. \E p \in 1 .. Len(q) :
         q[p] = x /\ \A i \in 1 .. Len(q) - 1 : s[i] = IF i < p THEN q[i] ELSE q[i + 1]
  BY RemoveItemPlaces
<1> HIDE DEF s
<1>2. PICK p \in 1 .. Len(q) :
         q[p] = x /\ \A i \in 1 .. Len(q) - 1 : s[i] = IF i < p THEN q[i] ELSE q[i + 1]
  BY <1>1
<1> DEFINE f == [i \in 1 .. Len(s) |-> IF i < p THEN i ELSE i + 1]
<1>3. \A i \in 1 .. Len(s) : f[i] \in 1 .. Len(q) /\ s[i] = q[f[i]]
  BY <1>0, <1>2
<1>4. \A i, j \in 1 .. Len(s) : f[i] = f[j] => i = j
  BY <1>0
<1>5. ToSet(s) \subseteq ToSet(q) /\ (Single(q, T) => Single(s, T))
  <2> HIDE DEF f
  <2> QED
    BY <1>0, <1>3, <1>4, Picked
<1>6. ASSUME NEW z \in ToSet(q), z # x PROVE z \in ToSet(s)
  <2>1. PICK i \in 1 .. Len(q) : q[i] = z
    BY InToSet
  <2>2. CASE i < p
    <3>1. i \in 1 .. Len(s) /\ s[i] = z
      BY <1>0, <1>2, <2>1, <2>2
    <3> QED
      BY <1>0, <3>1, InToSet
  <2>3. CASE ~(i < p)
    <3>1. i - 1 \in 1 .. Len(q) - 1 /\ ~(i - 1 < p) /\ (i - 1) + 1 = i
      BY <1>0, <1>2, <1>6, <2>1, <2>3
    <3>2. s[i - 1] = z
      BY <1>2, <2>1, <3>1
    <3> QED
      BY <1>0, <3>1, <3>2, InToSet
  <2> QED
    BY <2>2, <2>3
<1> QED
  BY <1>5, <1>6 DEF s
-----------------------------------------------------------------------------
(* Sequences that lose an element, and ascending ones.                     *)
Without(q, k) == [i \in 1 .. Len(q) - 1 |-> q[IF i < k THEN i ELSE i + 1]]

InOrder(r, q, k) ==
    \A i, j \in 1 .. Len(r) : \E a, b \in (1 .. Len(q)) \ {k} :
        r[i] = q[a] /\ r[j] = q[b] /\ (i < j => a < b) /\ (i # j => a # b)

LEMMA WithoutShape ==
    ASSUME NEW S, NEW q \in Seq(S), NEW k \in 1 .. Len(q)
    PROVE  /\ Without(q, k) \in Seq(S) /\ Len(Without(q, k)) = Len(q) - 1
           /\ InOrder(Without(q, k), q, k)
           /\ \A a \in (1 .. Len(q)) \ {k} : \E j \in 1 .. Len(Without(q, k)) : Without(q, k)[j] = q[a]
<1> DEFINE At(j) == IF j < k THEN j ELSE j + 1
<1>1. /\ Len(q) \in Nat /\ Len(q) - 1 \in Nat /\ k \in Nat /\ \A a \in 1 .. Len(q) : q[a] \in S
      /\ DOMAIN Without(q, k) = 1 .. Len(q) - 1
      /\ \A j \in 1 .. Len(q) - 1 : Without(q, k)[j] = q[At(j)]
  BY DEF Without
<1>2. \A j \in 1 .. Len(q) - 1 : At(j) \in (1 .. Len(q)) \ {k} BY <1>1
<1>3. \A i, j \in 1 .. Len(q) - 1 : (i < j => At(i) < At(j)) /\ (i # j => At(i) # At(j))
  BY <1>1
<1>4. Without(q, k) \in Seq(S) /\ Len(Without(q, k)) = Len(q) - 1
  <2>1. Without(q, k) \in [1 .. Len(q) - 1 -> S] BY <1>1, <1>2 DEF Without
  <2> QED BY <1>1, <2>1
<1>5. ASSUME NEW a \in (1 .. Len(q)) \ {k} PROVE \E j \in 1 .. Len(q) - 1 : Without(q, k)[j] = q[a]
  <2>1. CASE a < k
    <3>1. a \in 1 .. Len(q) - 1 /\ At(a) = a BY <1>1, <2>1
    <3> QED BY <1>1, <3>1
  <2>2. CASE ~(a < k)
    <3>1. a - 1 \in 1 .. Len(q) - 1 /\ ~(a - 1 < k) /\ (a - 1) + 1 = a BY <1>1, <1>5, <2>2
    <3>2. At(a - 1) = a BY <3>1
    <3> HIDE DEF At
    <3> QED BY <1>1, <3>1, <3>2
  <2> QED BY <2>1, <2>2
<1> HIDE DEF At
<1>6. InOrder(Without(q, k), q, k)
  <2> SUFFICES ASSUME NEW i \in 1 .. Len(Without(q, k)), NEW j \in 1 .. Len(Without(q, k))
               PROVE  \E a, b \in (1 .. Len(q)) \ {k} :
                          Without(q, k)[i] = q[a] /\ Without(q, k)[j] = q[b]
                          /\ (i < j => a < b) /\ (i # j => a # b)
    BY Zenon DEF InOrder
  <2>1. i \in 1 .. Len(q) - 1 /\ j \in 1 .. Len(q) - 1
    BY <1>4
  <2>2. At(i) \in (1 .. Len(q)) \ {k} /\ At(j) \in (1 .. Len(q)) \ {k}
    BY <1>2, <2>1
  <2>3. Without(q, k)[i] = q[At(i)] /\ Without(q, k)[j] = q[At(j)]
        /\ (i < j => At(i) < At(j)) /\ (i # j => At(i) # At(j))
    BY <1>1, <1>3, <2>1
  <2> QED BY <2>2, <2>3
<1> QED BY <1>4, <1>5, <1>6

Ascending(q) == \A i, j \in 1 .. Len(q) : i < j => q[i] < q[j]

(* A number that goes in front of the greater ones.                        *)
Entered(q, p) ==
    LET n == Len(q)
        k == Min({i \in 1 .. n : p < q[i]} \cup {n + 1})
    IN  [i \in 1 .. n + 1 |-> IF i < k THEN q[i] ELSE IF i = k THEN p ELSE q[i - 1]]

LEMMA EnteredShape ==
    ASSUME NEW S, S \subseteq Int, NEW q \in Seq(S), NEW p \in S, Ascending(q), p \notin ToSet(q)
    PROVE  /\ Entered(q, p) \in Seq(S)
           /\ Ascending(Entered(q, p))
           /\ ToSet(Entered(q, p)) = ToSet(q) \cup {p}
<1> DEFINE n == Len(q)
           T == {i \in 1 .. n : p < q[i]} \cup {n + 1}
           k == Min(T)
           r == [i \in 1 .. n + 1 |-> IF i < k THEN q[i]
                                      ELSE IF i = k THEN p ELSE q[i - 1]]
<1>1. n \in Nat /\ p \in Int /\ \A i \in 1 .. n : q[i] \in S /\ q[i] \in Int /\ q[i] # p
  <2>1. n \in Nat /\ \A i \in 1 .. n : q[i] \in S
    OBVIOUS
  <2>2. \A i \in 1 .. n : q[i] # p
    BY InToSet
  <2> QED
    BY <2>1, <2>2
<1>2. T \subseteq Nat /\ T # {} /\ T \subseteq 1 .. n + 1
  BY <1>1
<1>3. k \in T /\ \A y \in T : k <= y
  <2> HIDE DEF T
  <2> QED
    BY <1>2, LeastNatural
<1>4. k \in 1 .. n + 1
  BY <1>2, <1>3
<1>5. \A i \in 1 .. n : i < k => q[i] < p
  BY <1>1, <1>3, <1>4
<1>6. \A i \in 1 .. n : i >= k => p < q[i]
  <2>1. TAKE i \in 1 .. n
  <2>2. HAVE i >= k
  <2>3. k \in 1 .. n /\ p < q[k]
    BY <1>1, <1>3, <1>4, <2>2
  <2>4. k = i \/ q[k] < q[i]
    BY <1>1, <2>2, <2>3 DEF Ascending
  <2> QED
    BY <1>1, <2>3, <2>4
<1>7. Entered(q, p) = r
  BY DEF Entered
<1> HIDE DEF k, T
<1>8. r \in Seq(S) /\ Len(r) = n + 1
  <2>1. r \in [1 .. n + 1 -> S]
    BY <1>1, <1>4
  <2> QED
    BY <1>1, <2>1
<1>9. Ascending(r)
  <2>1. ASSUME NEW i \in 1 .. n + 1, NEW j \in 1 .. n + 1, i < j PROVE r[i] < r[j]
    <3>1. CASE j < k
      BY <1>1, <1>4, <2>1, <3>1 DEF Ascending
    <3>2. CASE j = k
      BY <1>1, <1>4, <1>5, <2>1, <3>2
    <3>3. CASE j > k /\ i < k
      <4>1. r[i] = q[i] /\ r[j] = q[j - 1] /\ i \in 1 .. n /\ j - 1 \in 1 .. n /\ j - 1 >= k
        BY <1>1, <1>4, <2>1, <3>3
      <4> QED
        BY <1>1, <1>5, <1>6, <3>3, <4>1
    <3>4. CASE j > k /\ i = k
      <4>1. r[i] = p /\ r[j] = q[j - 1] /\ j - 1 \in 1 .. n /\ j - 1 >= k
        BY <1>1, <1>4, <2>1, <3>4
      <4> QED
        BY <1>6, <4>1
    <3>5. CASE i > k
      <4>1. r[i] = q[i - 1] /\ r[j] = q[j - 1] /\ j - 1 \in 1 .. n /\ i - 1 \in 1 .. n /\ i - 1 < j - 1
        BY <1>1, <1>4, <2>1, <3>5
      <4> QED
        BY <4>1 DEF Ascending
    <3> QED
      BY <1>1, <1>4, <2>1, <3>1, <3>2, <3>3, <3>4, <3>5
  <2> HIDE DEF r
  <2> QED
    BY <1>8, <2>1 DEF Ascending
<1>10. ToSet(r) = ToSet(q) \cup {p}
  <2>1. ASSUME NEW i \in 1 .. n + 1 PROVE r[i] \in ToSet(q) \cup {p}
    BY <1>1, <1>4 DEF ToSet
  <2>2. ASSUME NEW i \in 1 .. n PROVE \E j \in 1 .. n + 1 : r[j] = q[i]
    <3>1. CASE i < k
      <4>1. i \in 1 .. n + 1 /\ r[i] = q[i]
        BY <1>1, <3>1
      <4> QED
        BY <4>1
    <3>2. CASE i >= k
      <4>1. i + 1 \in 1 .. n + 1 /\ r[i + 1] = q[i]
        BY <1>1, <1>4, <3>2
      <4> QED
        BY <4>1
    <3> QED
      BY <1>4, <3>1, <3>2
  <2>3. r[k] = p
    BY <1>4
  <2> HIDE DEF r
  <2> QED
    <3>1. \A z : z \in ToSet(r) <=> \E i \in 1 .. n + 1 : r[i] = z
      BY <1>8, InToSet
    <3>2. \A z : z \in ToSet(q) <=> \E i \in 1 .. n : q[i] = z
      BY InToSet
    <3> QED
      BY <1>4, <2>1, <2>2, <2>3, <3>1, <3>2
<1> QED
  BY <1>7, <1>8, <1>9, <1>10

LEMMA EnteredItems ==
    ASSUME NEW S, S \subseteq Int, NEW q \in Seq(S), NEW p \in S, Ascending(q), p \notin ToSet(q)
    PROVE  \A z : z \in ToSet(Entered(q, p)) <=> z \in ToSet(q) \/ z = p
<1>1. ToSet(Entered(q, p)) = ToSet(q) \cup {p}
  BY EnteredShape, ZenonT(30)
<1> QED
  BY <1>1

LEMMA WithoutAscending ==
    ASSUME NEW S, S \subseteq Int, NEW q \in Seq(S), NEW k \in 1 .. Len(q), Ascending(q)
    PROVE  Ascending(Without(q, k)) /\ ToSet(Without(q, k)) = ToSet(q) \ {q[k]}
<1> DEFINE w == Without(q, k)
<1>1. /\ w \in Seq(S) /\ Len(w) = Len(q) - 1 /\ InOrder(w, q, k)
      /\ \A a \in (1 .. Len(q)) \ {k} : \E j \in 1 .. Len(w) : w[j] = q[a]
  BY WithoutShape
<1> HIDE DEF w
<1>2. Len(q) \in Nat /\ \A a \in 1 .. Len(q) : q[a] \in Int
  <2>1. Len(q) \in Nat /\ \A a \in 1 .. Len(q) : q[a] \in S OBVIOUS
  <2> QED BY <2>1
<1>3. Ascending(w)
  <2>1. ASSUME NEW i \in 1 .. Len(w), NEW j \in 1 .. Len(w), i < j PROVE w[i] < w[j]
    <3>1. PICK a \in (1 .. Len(q)) \ {k}, b \in (1 .. Len(q)) \ {k} :
             w[i] = q[a] /\ w[j] = q[b] /\ (i < j => a < b)
      BY <1>1 DEF InOrder
    <3> QED BY <2>1, <3>1 DEF Ascending
  <2> QED BY <2>1 DEF Ascending
<1>4. \A a \in (1 .. Len(q)) \ {k} : q[a] # q[k] BY <1>2 DEF Ascending
<1>5. ASSUME NEW z PROVE z \in ToSet(w) <=> z \in ToSet(q) \ {q[k]}
  <2>1. z \in ToSet(w) <=> \E i \in 1 .. Len(w) : w[i] = z BY <1>1, InToSet
  <2>2. z \in ToSet(q) <=> \E i \in 1 .. Len(q) : q[i] = z BY InToSet
  <2>3. ASSUME z \in ToSet(w) PROVE z \in ToSet(q) \ {q[k]}
    <3>1. PICK i \in 1 .. Len(w) : w[i] = z BY <2>1, <2>3
    <3>2. PICK a \in (1 .. Len(q)) \ {k} : w[i] = q[a] BY <1>1 DEF InOrder
    <3> QED BY <1>4, <2>2, <3>1, <3>2
  <2>4. ASSUME z \in ToSet(q) \ {q[k]} PROVE z \in ToSet(w) BY <1>1, <2>1, <2>2, <2>4
  <2> QED BY <2>3, <2>4
<1> QED BY <1>3, <1>5 DEF w
=============================================================================
