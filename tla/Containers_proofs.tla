------------------------- MODULE Containers_proofs -------------------------
(***************************************************************************)
(* What the storage of event sources, the heap and the slice allocator     *)
(* keep true, for all values of their constants.                           *)
(***************************************************************************)
EXTENDS Containers, AQueue_proofs

(* ArrayStorage.                                                           *)
(* The lists l hold the sources S, each in the list of at[s], in one place. *)
ListsTyped(l) ==
    /\ l \in [prioIndex : Seq(Priorities), datas : [Priorities -> Seq(EventSources)],
              count : [Priorities -> Nat]]
    /\ \A p \in Priorities : l.count[p] <= Len(l.datas[p])

InOwnList(l, p, S, at) ==
    \A i, j \in 1 .. l.count[p] : /\ l.datas[p][i] \in S /\ at[l.datas[p][i]] = p
                                  /\ i # j => l.datas[p][i] # l.datas[p][j]

ListsHold(l, S, at) ==
    /\ ListsTyped(l)
    /\ Ascending(l.prioIndex)
    /\ \A p \in Priorities : l.count[p] > 0 <=> p \in ToSet(l.prioIndex)
    /\ \A p \in Priorities : InOwnList(l, p, S, at)
    /\ \A s \in S : \E i \in 1 .. l.count[at[s]] : l.datas[at[s]][i] = s

LEMMA IndexAdded ==
    ASSUME NEW q \in Seq(Priorities), NEW p \in Priorities, Ascending(q)
    PROVE  /\ Storage!AddIndex(q, p) \in Seq(Priorities)
           /\ Ascending(Storage!AddIndex(q, p))
           /\ ToSet(Storage!AddIndex(q, p)) = ToSet(q) \cup {p}
<1>0. \A r : Storage!ToSet(r) = ToSet(r)
  BY DEF Storage!ToSet, ToSet
<1>1. CASE p \in ToSet(q)
  <2>1. Storage!AddIndex(q, p) = q BY <1>0, <1>1 DEF Storage!AddIndex
  <2> QED BY <1>1, <2>1
<1>2. CASE p \notin ToSet(q)
  <2>1. Storage!AddIndex(q, p) = Entered(q, p)
    BY <1>0, <1>2 DEF Storage!AddIndex, Entered, Storage!Min, Min
  <2>0. Priorities \subseteq Int BY PrioritiesAssumption
  <2>2. Entered(q, p) \in Seq(Priorities)
    BY <1>2, <2>0, EnteredShape
  <2>3. Ascending(Entered(q, p))
    BY <1>2, <2>0, EnteredShape
  <2>4. ToSet(Entered(q, p)) = ToSet(q) \cup {p}
    <3>1. \A z : z \in ToSet(Entered(q, p)) <=> z \in ToSet(q) \/ z = p
      BY <1>2, <2>0, EnteredItems
    <3> QED
      BY <3>1
  <2> QED
    BY <2>1, <2>2, <2>3, <2>4
<1> QED
  BY <1>1, <1>2

LEMMA IndexRemoved ==
    ASSUME NEW q \in Seq(Priorities), NEW p \in ToSet(q), Ascending(q)
    PROVE  /\ Storage!RemoveIndex(q, p) \in Seq(Priorities)
           /\ Ascending(Storage!RemoveIndex(q, p))
           /\ ToSet(Storage!RemoveIndex(q, p)) = ToSet(q) \ {p}
<1> DEFINE k == CHOOSE i \in 1 .. Len(q) : q[i] = p
<1>1. k \in 1 .. Len(q) /\ q[k] = p
  <2>1. \E i \in 1 .. Len(q) : q[i] = p
    BY InToSet
  <2> QED
    BY <2>1
<1>2. Storage!RemoveIndex(q, p) = Without(q, k)
  BY DEF Storage!RemoveIndex, Without
<1> HIDE DEF k
<1>3. Without(q, k) \in Seq(Priorities)
  BY <1>1, WithoutShape
<1>4. Ascending(Without(q, k)) /\ ToSet(Without(q, k)) = ToSet(q) \ {q[k]}
  BY <1>1, WithoutAscending, PrioritiesAssumption, Zenon
<1> QED
  BY <1>1, <1>2, <1>3, <1>4

LEMMA ListsRecord ==
    ASSUME NEW A, NEW B, NEW C, NEW a \in A, NEW b \in B, NEW c \in C,
           NEW l \in [prioIndex : A, datas : B, count : C]
    PROVE  [l EXCEPT !.datas = b, !.count = c, !.prioIndex = a]
               \in [prioIndex : A, datas : B, count : C]
  OBVIOUS

(* A source that no list holds goes to the list of priority p.             *)
LEMMA ListAdded ==
    ASSUME NEW l, NEW S \in SUBSET EventSources, NEW at \in [EventSources -> Priorities],
           ListsHold(l, S, at), NEW s \in EventSources \ S, NEW p \in Priorities,
           NEW bt \in [EventSources -> Priorities], bt[s] = p, \A x \in S : bt[x] = at[x]
    PROVE  ListsHold(Storage!AddToSourceList(l, s, p), S \cup {s}, bt)
<1> DEFINE n == l.count[p] + 1
           old == l.datas[p]
           d == IF n <= Len(old) THEN [old EXCEPT ![n] = s] ELSE Append(old, s)
           m == Storage!AddToSourceList(l, s, p)
<1>1. /\ l.prioIndex \in Seq(Priorities) /\ Ascending(l.prioIndex)
      /\ l.datas \in [Priorities -> Seq(EventSources)] /\ l.count \in [Priorities -> Nat]
      /\ at[s] \in Priorities
  BY DEF ListsHold, ListsTyped
<1>2. /\ l.count[p] \in Nat /\ n \in Nat \ {0} /\ old \in Seq(EventSources) /\ Len(old) \in Nat
      /\ l.count[p] <= Len(old)
  BY DEF ListsHold, ListsTyped
<1>3. /\ d \in Seq(EventSources) /\ Len(d) >= n /\ d[n] = s
      /\ \A i \in 1 .. l.count[p] : d[i] = old[i]
  <2>1. CASE n <= Len(old)
    BY <1>2, <2>1
  <2>2. CASE ~(n <= Len(old))
    <3>1. n = Len(old) + 1
      BY <1>2, <2>2
    <3>2. d = Append(old, s)
      BY <2>2
    <3>3. /\ Append(old, s) \in Seq(EventSources) /\ Len(Append(old, s)) = Len(old) + 1
          /\ Append(old, s)[Len(old) + 1] = s
          /\ \A i \in 1 .. Len(old) : Append(old, s)[i] = old[i]
      BY <1>2, AppendProperties
    <3>4. l.count[p] = Len(old)
      BY <1>2, <3>1
    <3> HIDE DEF d, n
    <3> QED
      BY <1>2, <3>1, <3>2, <3>3, <3>4
  <2> QED
    BY <2>1, <2>2
<1>4. /\ m.datas = [l.datas EXCEPT ![p] = d]
      /\ m.count = [l.count EXCEPT ![p] = n]
      /\ m.prioIndex = Storage!AddIndex(l.prioIndex, p)
  BY DEF Storage!AddToSourceList, ListsHold, ListsTyped
<1>11. m = [l EXCEPT !.datas = m.datas, !.count = m.count, !.prioIndex = m.prioIndex]
  BY DEF Storage!AddToSourceList, ListsHold, ListsTyped
<1> HIDE DEF d, m
<1>5. /\ m.prioIndex \in Seq(Priorities)
      /\ Ascending(m.prioIndex)
      /\ ToSet(m.prioIndex) = ToSet(l.prioIndex) \cup {p}
  <2>1. /\ Storage!AddIndex(l.prioIndex, p) \in Seq(Priorities)
        /\ Ascending(Storage!AddIndex(l.prioIndex, p))
        /\ ToSet(Storage!AddIndex(l.prioIndex, p)) = ToSet(l.prioIndex) \cup {p}
    BY <1>1, IndexAdded, Zenon
  <2> QED
    BY <1>4, <2>1
<1>6. /\ m.datas \in [Priorities -> Seq(EventSources)] /\ m.count \in [Priorities -> Nat]
      /\ m.datas[p] = d /\ m.count[p] = n
      /\ \A q \in Priorities \ {p} : m.datas[q] = l.datas[q] /\ m.count[q] = l.count[q]
  <2> HIDE DEF n
  <2>1. m.datas \in [Priorities -> Seq(EventSources)] /\ m.count \in [Priorities -> Nat]
    BY <1>1, <1>2, <1>3, <1>4
  <2>2. m.datas[p] = d /\ \A q \in Priorities \ {p} : m.datas[q] = l.datas[q]
    BY <1>1, <1>4
  <2>3. m.count[p] = n /\ \A q \in Priorities \ {p} : m.count[q] = l.count[q]
    BY <1>1, <1>4
  <2> QED
    BY <2>1, <2>2, <2>3
<1>7. ListsTyped(m)
  <2>1. m \in [prioIndex : Seq(Priorities), datas : [Priorities -> Seq(EventSources)],
               count : [Priorities -> Nat]]
    BY <1>11, <1>5, <1>6, ListsRecord DEF ListsHold, ListsTyped
  <2>2. \A q \in Priorities : m.count[q] <= Len(m.datas[q])
    <3>1. m.count[p] <= Len(m.datas[p])
      BY <1>3, <1>6
    <3>2. \A q \in Priorities \ {p} : m.count[q] <= Len(m.datas[q])
      BY <1>6 DEF ListsHold, ListsTyped
    <3> QED
      BY <3>1, <3>2
  <2> QED
    BY <2>1, <2>2 DEF ListsTyped
<1>8. \A q \in Priorities : m.count[q] > 0 <=> q \in ToSet(m.prioIndex)
  <2>1. ASSUME NEW q \in Priorities \ {p}
        PROVE  m.count[q] > 0 <=> q \in ToSet(m.prioIndex)
    BY <1>5, <1>6 DEF ListsHold
  <2>2. m.count[p] > 0 /\ p \in ToSet(m.prioIndex)
    BY <1>2, <1>5, <1>6
  <2> QED
    BY <2>1, <2>2
<1>9. ASSUME NEW q \in Priorities PROVE InOwnList(m, q, S \cup {s}, bt)
  <2>1. CASE q # p
    <3>1. InOwnList(l, q, S, at)
      BY DEF ListsHold
    <3>2. m.datas[q] = l.datas[q] /\ m.count[q] = l.count[q]
      BY <1>6, <2>1
    <3> QED
      BY <3>1, <3>2 DEF InOwnList
  <2>2. CASE q = p
    <3>1. \A i \in 1 .. n : i = n \/ i \in 1 .. l.count[p]
      BY <1>2
    <3>2. \A i \in 1 .. l.count[p] : old[i] \in S /\ old[i] # s /\ bt[old[i]] = p
      BY DEF ListsHold, InOwnList
    <3>3. \A i, j \in 1 .. l.count[p] : i # j => old[i] # old[j]
      BY DEF ListsHold, InOwnList
    <3>4. m.datas[q] = d /\ m.count[q] = n
      BY <1>6, <2>2
    <3> HIDE DEF n, old
    <3>5. \A i \in 1 .. n : d[i] \in S \cup {s} /\ bt[d[i]] = q
      BY <1>3, <2>2, <3>1, <3>2
    <3>6. \A i, j \in 1 .. n : i # j => d[i] # d[j]
      BY <1>3, <3>1, <3>2, <3>3
    <3> QED
      BY <3>4, <3>5, <3>6 DEF InOwnList
  <2> QED
    BY <2>1, <2>2
<1>10. ASSUME NEW x \in S \cup {s} PROVE \E i \in 1 .. m.count[bt[x]] : m.datas[bt[x]][i] = x
  <2>1. CASE x = s
    <3>1. bt[x] = p /\ n \in 1 .. n
      BY <1>2, <2>1
    <3> HIDE DEF n
    <3> QED
      BY <1>3, <1>6, <2>1, <3>1
  <2>2. CASE x \in S
    <3>1. at[x] \in Priorities /\ bt[x] = at[x]
      BY <2>2
    <3>2. PICK i \in 1 .. l.count[at[x]] : l.datas[at[x]][i] = x
      BY <2>2 DEF ListsHold
    <3>3. CASE at[x] # p
      <4>1. m.count[at[x]] = l.count[at[x]] /\ m.datas[at[x]] = l.datas[at[x]]
        BY <1>6, <3>1, <3>3
      <4> QED
        BY <3>1, <3>2, <4>1
    <3>4. CASE at[x] = p
      <4>1. i \in 1 .. n /\ d[i] = x
        BY <1>2, <1>3, <3>2, <3>4
      <4> QED
        BY <1>6, <3>1, <3>4, <4>1
    <3> QED
      BY <3>3, <3>4
  <2> QED
    BY <2>1, <2>2
<1> QED
  BY <1>5, <1>7, <1>8, <1>9, <1>10 DEF ListsHold, m

(* A source leaves its list.                                               *)
LEMMA ListRemoved ==
    ASSUME NEW l, NEW S \in SUBSET EventSources, NEW at \in [EventSources -> Priorities],
           ListsHold(l, S, at), NEW s \in S
    PROVE  ListsHold(Storage!RemoveFromSourceList(l, s, at[s]), S \ {s}, at)
<1> DEFINE p == at[s]
           n == l.count[p]
           old == l.datas[p]
           k == CHOOSE i \in 1 .. n : old[i] = s /\ \A j \in 1 .. i - 1 : old[j] # s
           d == Storage!MovedDown(old, k, n)
           m == Storage!RemoveFromSourceList(l, s, p)
<1>1. /\ l.prioIndex \in Seq(Priorities) /\ Ascending(l.prioIndex)
      /\ l.datas \in [Priorities -> Seq(EventSources)] /\ l.count \in [Priorities -> Nat]
      /\ at[s] \in Priorities
  BY DEF ListsHold, ListsTyped
<1>2. /\ n \in Nat /\ old \in Seq(EventSources) /\ Len(old) \in Nat /\ n <= Len(old)
      /\ \A i \in 1 .. Len(old) : old[i] \in EventSources
  BY <1>1 DEF ListsHold, ListsTyped
<1>3. /\ \A i \in 1 .. n : old[i] \in S /\ at[old[i]] = p
      /\ \A i, j \in 1 .. n : i # j => old[i] # old[j]
  <2>1. InOwnList(l, p, S, at) BY <1>1 DEF ListsHold
  <2> QED BY <2>1 DEF InOwnList
<1>4. k \in 1 .. n /\ old[k] = s
  <2>1. PICK i \in 1 .. n : old[i] = s
    BY DEF ListsHold
  <2>2. \A j \in 1 .. i - 1 : old[j] # s
    BY <1>2, <1>3, <2>1
  <2> QED
    BY <2>1, <2>2
<1>5. /\ m.datas = [l.datas EXCEPT ![p] = d]
      /\ m.count = [l.count EXCEPT ![p] = n - 1]
      /\ m.prioIndex = IF n = 1 THEN Storage!RemoveIndex(l.prioIndex, p) ELSE l.prioIndex
      /\ m = [l EXCEPT !.datas = m.datas, !.count = m.count, !.prioIndex = m.prioIndex]
  BY DEF Storage!RemoveFromSourceList, ListsHold, ListsTyped
<1> HIDE DEF k
<1>6. d \in Seq(EventSources) /\ Len(d) = Len(old)
  <2>1. d \in [1 .. Len(old) -> EventSources]
    BY <1>2, <1>4 DEF Storage!MovedDown
  <2> QED
    BY <1>2, <2>1
<1>7. \A i \in 1 .. n - 1 : d[i] = old[IF i < k THEN i ELSE i + 1]
  BY <1>2, <1>4 DEF Storage!MovedDown
<1> HIDE DEF d, m
<1>8. p \in ToSet(l.prioIndex)
  BY <1>1, <1>2, <1>4 DEF ListsHold
<1>9. /\ m.prioIndex \in Seq(Priorities)
      /\ Ascending(m.prioIndex)
      /\ ToSet(m.prioIndex) = IF n = 1 THEN ToSet(l.prioIndex) \ {p} ELSE ToSet(l.prioIndex)
  <2>1. l.prioIndex \in Seq(Priorities) /\ Ascending(l.prioIndex)
    BY DEF ListsHold, ListsTyped
  <2>2. CASE n = 1
    BY <1>5, <1>8, <2>1, <2>2, IndexRemoved
  <2>3. CASE n # 1
    BY <1>5, <2>1, <2>3
  <2> QED
    BY <2>2, <2>3
<1>10. /\ m.datas \in [Priorities -> Seq(EventSources)] /\ m.count \in [Priorities -> Nat]
       /\ m.datas[p] = d /\ m.count[p] = n - 1
       /\ \A q \in Priorities \ {p} : m.datas[q] = l.datas[q] /\ m.count[q] = l.count[q]
  <2>1. n - 1 \in Nat
    BY <1>2, <1>4
  <2> HIDE DEF n
  <2> QED
    BY <1>1, <1>5, <1>6, <2>1
<1>11. ListsTyped(m)
  <2>1. m \in [prioIndex : Seq(Priorities), datas : [Priorities -> Seq(EventSources)],
               count : [Priorities -> Nat]]
    BY <1>5, <1>9, <1>10, ListsRecord DEF ListsHold, ListsTyped
  <2>2. m.count[p] <= Len(m.datas[p])
    BY <1>2, <1>6, <1>10
  <2>3. \A q \in Priorities \ {p} : m.count[q] <= Len(m.datas[q])
    BY <1>10 DEF ListsHold, ListsTyped
  <2> QED
    BY <2>1, <2>2, <2>3 DEF ListsTyped
<1>12. \A q \in Priorities : m.count[q] > 0 <=> q \in ToSet(m.prioIndex)
  <2>1. ASSUME NEW q \in Priorities \ {p}
        PROVE  m.count[q] > 0 <=> q \in ToSet(m.prioIndex)
    BY <1>9, <1>10 DEF ListsHold
  <2>2. m.count[p] > 0 <=> p \in ToSet(m.prioIndex)
    BY <1>2, <1>4, <1>8, <1>9, <1>10
  <2> QED
    BY <2>1, <2>2
<1>13. ASSUME NEW i \in 1 .. n - 1
       PROVE  (IF i < k THEN i ELSE i + 1) \in 1 .. n /\ (IF i < k THEN i ELSE i + 1) # k
  BY <1>2, <1>4
<1>14. ASSUME NEW q \in Priorities PROVE InOwnList(m, q, S \ {s}, at)
  <2>1. CASE q # p
    <3>1. InOwnList(l, q, S, at)
      BY DEF ListsHold
    <3>2. m.datas[q] = l.datas[q] /\ m.count[q] = l.count[q]
      BY <1>10, <2>1
    <3> QED
      BY <2>1, <3>1, <3>2 DEF InOwnList
  <2>2. CASE q = p
    <3>1. ASSUME NEW i \in 1 .. n - 1, NEW j \in 1 .. n - 1
          PROVE  d[i] \in S \ {s} /\ at[d[i]] = p /\ (i # j => d[i] # d[j])
      <4> DEFINE a == IF i < k THEN i ELSE i + 1
                 b == IF j < k THEN j ELSE j + 1
      <4>1. a \in 1 .. n /\ b \in 1 .. n /\ (i # j => a # b) /\ a # k
        BY <1>2, <1>4, <1>13
      <4>2. d[i] = old[a] /\ d[j] = old[b]
        BY <1>7
      <4> HIDE DEF a, b
      <4> QED
        BY <1>3, <1>4, <4>1, <4>2
    <3> QED
      BY <1>10, <2>2, <3>1 DEF InOwnList
  <2> QED
    BY <2>1, <2>2
<1>15. ASSUME NEW x \in S \ {s} PROVE \E i \in 1 .. m.count[at[x]] : m.datas[at[x]][i] = x
  <2>1. at[x] \in Priorities
    OBVIOUS
  <2>2. PICK i \in 1 .. l.count[at[x]] : l.datas[at[x]][i] = x
    BY DEF ListsHold
  <2>3. CASE at[x] # p
    BY <1>10, <2>1, <2>2, <2>3
  <2>4. CASE at[x] = p
    <3> DEFINE j == IF i < k THEN i ELSE i - 1
    <3>1. i \in 1 .. n /\ i # k /\ old[i] = x
      BY <1>4, <2>2, <2>4
    <3>2. j \in 1 .. n - 1 /\ (IF j < k THEN j ELSE j + 1) = i
      BY <1>2, <1>4, <3>1
    <3> HIDE DEF j
    <3>3. d[j] = x
      BY <1>7, <3>1, <3>2
    <3> QED
      BY <1>10, <2>4, <3>2, <3>3
  <2> QED
    BY <2>3, <2>4
<1> QED
  BY <1>9, <1>11, <1>12, <1>14, <1>15 DEF ListsHold, m

LEMMA ListsAgree ==
    ASSUME NEW l, NEW S, NEW at, NEW bt, ListsHold(l, S, at), \A x \in S : bt[x] = at[x]
    PROVE  ListsHold(l, S, bt)
<1>1. \A p \in Priorities : InOwnList(l, p, S, bt) BY DEF ListsHold, InOwnList
<1>2. \A s \in S : \E i \in 1 .. l.count[bt[s]] : l.datas[bt[s]][i] = s BY DEF ListsHold
<1> QED BY <1>1, <1>2 DEF ListsHold
-----------------------------------------------------------------------------
(* The sources that the storage still has: while removeAll() is under way, *)
(* those that it has not removed.  A source is in the list of the priority *)
(* that it has or that setPriority() is giving it.                         *)
Left == IF removing = {} THEN Storage!Stored ELSE removing

Prio == [s \in EventSources |-> IF newPriority[s] = NULL THEN priority[s] ELSE newPriority[s]]

StorageShape ==
    /\ nextId \in 1 .. MaxSource + 1
    /\ DOMAIN sourcesHash \subseteq 1 .. MaxSource
    /\ sourcesHash \in [DOMAIN sourcesHash -> EventSources]
    /\ removing \subseteq Storage!Stored
    /\ sourcesArray \in Seq(EventSources)
    /\ memPos \in [EventSources -> Nat]
    /\ id \in [EventSources -> Nat]
    /\ priority \in [EventSources -> Priorities]
    /\ newPriority \in [EventSources -> Priorities \cup {NULL}]
    /\ refs \in [EventSources -> Int]

HashHolds == \A i \in DOMAIN sourcesHash : id[sourcesHash[i]] = i

ArrayHolds ==
    /\ \A i \in 1 .. Len(sourcesArray) : sourcesArray[i] \in Left /\ memPos[sourcesArray[i]] = i
    /\ \A s \in Left : \E i \in 1 .. Len(sourcesArray) : sourcesArray[i] = s

PriorityPending ==
    \A s \in EventSources : newPriority[s] # NULL => s \in Left /\ newPriority[s] # priority[s]

RefsHeld == \A s \in EventSources : refs[s] = IF s \in Left THEN Storage!Places(s) ELSE 0

Held == /\ StorageShape /\ HashHolds /\ ArrayHolds
        /\ ListsHold(lists, Left, Prio) /\ PriorityPending /\ RefsHeld

StorageInv == ~aborted => Held

LEMMA ToSetOf == \A r : Storage!ToSet(r) = ToSet(r)
  BY DEF Storage!ToSet, ToSet

LEMMA PlacesNumber == \A s : Storage!Places(s) \in Nat \ {0}
  BY DEF Storage!Places

LEMMA HashStores ==
    ASSUME StorageShape
    PROVE  /\ Storage!Stored \subseteq EventSources
           /\ \A s : s \in Storage!Stored <=> \E i \in DOMAIN sourcesHash : sourcesHash[i] = s
           /\ Left \subseteq EventSources
  BY DEF StorageShape, Storage!Stored, Left

LEMMA PrioTyped ==
    ASSUME StorageShape
    PROVE  Prio \in [EventSources -> Priorities]
           /\ \A s \in EventSources : Prio[s] = IF newPriority[s] = NULL THEN priority[s] ELSE newPriority[s]
  BY DEF StorageShape, Prio

LEMMA RemovedAt ==
    ASSUME NEW S, NEW q \in Seq(S), NEW k \in 1 .. Len(q)
    PROVE  Storage!RemoveAt(q, k) = Without(q, k)
<1> DEFINE a == SubSeq(q, 1, k - 1)
           b == SubSeq(q, k + 1, Len(q))
<1>1. Len(q) \in Nat /\ k \in Nat /\ Len(q) - 1 \in Nat
  OBVIOUS
<1>2. /\ a \in Seq(S) /\ Len(a) = k - 1 /\ \A i \in 1 .. k - 1 : a[i] = q[i]
  BY <1>1
<1>3. /\ b \in Seq(S) /\ Len(b) = Len(q) - k /\ \A i \in 1 .. Len(q) - k : b[i] = q[k + i]
  BY <1>1
<1> HIDE DEF a, b
<1> DEFINE r == a \o b
<1>4. /\ r \in Seq(S) /\ Len(r) = Len(q) - 1
      /\ \A i \in 1 .. Len(q) - 1 : r[i] = IF i <= k - 1 THEN a[i] ELSE b[i - (k - 1)]
  BY <1>1, <1>2, <1>3
<1> HIDE DEF r
<1>5. ASSUME NEW i \in 1 .. Len(q) - 1 PROVE r[i] = q[IF i < k THEN i ELSE i + 1]
  <2>1. CASE i < k
    BY <1>1, <1>2, <1>4, <2>1
  <2>2. CASE ~(i < k)
    <3>1. i - (k - 1) \in 1 .. Len(q) - k /\ k + (i - (k - 1)) = i + 1
      BY <1>1, <2>2
    <3> QED
      BY <1>1, <1>3, <1>4, <2>2, <3>1
  <2> QED
    BY <2>1, <2>2
<1>6. r = [i \in 1 .. Len(q) - 1 |-> r[i]]
  BY <1>1, <1>4
<1>7. r = Without(q, k)
  BY <1>5, <1>6 DEF Without
<1> QED
  BY <1>7 DEF Storage!RemoveAt, r, a, b

(* A source is taken from its places: in remove() and in removeAll().      *)
LEMMA TakenFromPlaces ==
    ASSUME Held, NEW s \in Left, Storage!InItsPlaces(s), Storage!RemoveFromPlaces(s),
           Storage!Unref(s), UNCHANGED <<priority, newPriority>>, Left' = Left \ {s}
    PROVE  /\ sourcesArray' \in Seq(EventSources) /\ memPos' \in [EventSources -> Nat]
           /\ refs' \in [EventSources -> Int]
           /\ ArrayHolds' /\ ListsHold(lists, Left, Prio)' /\ PriorityPending' /\ RefsHeld'
<1>1. StorageShape /\ s \in EventSources /\ Left \subseteq EventSources
  BY HashStores DEF Held
<1>2. /\ lists' = Storage!RemoveFromSourceList(lists, s, priority[s])
      /\ Storage!RemoveFromArray(s)
      /\ s \in Storage!Listed(lists, priority[s])
  BY DEF Storage!RemoveFromPlaces, Storage!InItsPlaces
<1>3. Prio' = Prio
  BY DEF Prio
<1>4. priority[s] = Prio[s] /\ newPriority[s] = NULL
  <2>1. priority[s] \in Priorities
    BY <1>1 DEF StorageShape
  <2>2. PICK i \in 1 .. lists.count[priority[s]] : lists.datas[priority[s]][i] = s
    BY <1>2 DEF Storage!Listed
  <2>3. Prio[s] = priority[s]
    BY <2>1, <2>2 DEF Held, ListsHold, InOwnList
  <2> QED
    BY <1>1, <2>3, PrioTyped DEF Held, PriorityPending
<1>5. ListsHold(lists, Left, Prio)'
  <2>1. ListsHold(lists', Left \ {s}, Prio)
    BY <1>1, <1>2, <1>4, PrioTyped, ListRemoved DEF Held
  <2>2. ListsHold(lists', Left', Prio')
    BY <1>3, <2>1
  <2> QED
    BY <2>2 DEF ListsHold, ListsTyped, InOwnList
<1>6. PriorityPending'
  BY <1>1, <1>4 DEF Held, PriorityPending
<1>7. refs' \in [EventSources -> Int] /\ RefsHeld'
  <2>1. refs' = [refs EXCEPT ![s] = @ - Storage!Places(s)] /\ refs[s] = Storage!Places(s)
    BY <1>1 DEF Storage!Unref, Held, RefsHeld
  <2>2. Storage!Places(s) \in Nat /\ refs \in [EventSources -> Int]
    BY <1>1, PlacesNumber DEF StorageShape
  <2>3. refs' \in [EventSources -> Int] /\ refs'[s] = 0
        /\ \A x \in EventSources \ {s} : refs'[x] = refs[x]
    BY <1>1, <2>1, <2>2
  <2>4. \A x : Storage!Places(x)' = Storage!Places(x)
    BY DEF Storage!Places
  <2> QED
    BY <2>3, <2>4 DEF Held, RefsHeld
<1> DEFINE q == sourcesArray
           k == memPos[s]
           w == Without(q, k)
<1>8. /\ q \in Seq(EventSources) /\ Len(q) \in Nat /\ k \in 1 .. Len(q) /\ q[k] = s
      /\ memPos \in [EventSources -> Nat]
      /\ \A i \in 1 .. Len(q) : q[i] \in Left /\ q[i] \in EventSources /\ memPos[q[i]] = i
      /\ \A x \in Left : \E i \in 1 .. Len(q) : q[i] = x
  <2>1. q \in Seq(EventSources) /\ Len(q) \in Nat /\ memPos \in [EventSources -> Nat]
    BY <1>1 DEF StorageShape
  <2>2. ArrayHolds
    BY DEF Held
  <2>3. PICK i \in 1 .. Len(q) : q[i] = s
    BY <2>2 DEF ArrayHolds
  <2>4. memPos[s] = i
    BY <2>2, <2>3 DEF ArrayHolds
  <2>5. \A j \in 1 .. Len(q) : q[j] \in EventSources
    BY <2>1
  <2> QED
    BY <2>1, <2>2, <2>3, <2>4, <2>5 DEF ArrayHolds
<1>9. /\ sourcesArray' = w
      /\ memPos' = [x \in EventSources |-> IF memPos[x] > k /\ x \in ToSet(q)
                                           THEN memPos[x] - 1 ELSE memPos[x]]
  BY <1>2, <1>8, RemovedAt, ToSetOf DEF Storage!RemoveFromArray
<1>10. w \in Seq(EventSources) /\ Len(w) = Len(q) - 1
       /\ \A a \in (1 .. Len(q)) \ {k} : \E j \in 1 .. Len(w) : w[j] = q[a]
  BY <1>8, WithoutShape, ZenonT(30)
<1>11. memPos' \in [EventSources -> Nat]
  <2>1. \A x \in EventSources : memPos[x] \in Nat
    BY <1>8
  <2>2. k \in Nat /\ k > 0
    BY <1>8
  <2>3. \A x \in EventSources : (IF memPos[x] > k /\ x \in ToSet(q) THEN memPos[x] - 1 ELSE memPos[x]) \in Nat
    BY <2>1, <2>2
  <2> QED
    BY <1>9, <2>3
<1>12. ASSUME NEW i \in 1 .. Len(w) PROVE w[i] \in Left \ {s} /\ memPos'[w[i]] = i
  <2> DEFINE n == IF i < k THEN i ELSE i + 1
  <2>0. i \in 1 .. Len(q) - 1
    BY <1>10
  <2>2. w[i] = q[n]
    BY <2>0 DEF Without
  <2> HIDE DEF w, k
  <2>1. n \in 1 .. Len(q) /\ n # k /\ i = (IF n > k THEN n - 1 ELSE n)
    BY <1>8, <2>0
  <2> HIDE DEF n, w
  <2>3. q[n] \in Left /\ q[n] # s /\ memPos[q[n]] = n /\ q[n] \in EventSources
    BY <1>8, <2>1
  <2>4. q[n] \in ToSet(q)
    BY <1>8, <2>1, InToSet
  <2>5. memPos'[q[n]] = IF n > k THEN n - 1 ELSE n
    BY <1>9, <2>3, <2>4
  <2> QED
    BY <2>1, <2>2, <2>3, <2>5
<1>13. ArrayHolds'
  <2>1. ASSUME NEW x \in Left \ {s} PROVE \E j \in 1 .. Len(w) : w[j] = x
    <3>1. PICK i \in 1 .. Len(q) : q[i] = x
      BY <1>8
    <3> QED
      BY <1>8, <1>10, <3>1
  <2> HIDE DEF w
  <2> QED
    BY <1>9, <1>12, <2>1 DEF ArrayHolds
<1> HIDE DEF w
<1> QED
  BY <1>5, <1>6, <1>7, <1>9, <1>10, <1>11, <1>13

(* loop of addUnlocked(): the id it ends with is not in use.               *)
LEMMA IdPicked ==
    ASSUME StorageShape, Storage!UnusedIds # {}
    PROVE  Storage!PickId \in (1 .. MaxSource) \ DOMAIN sourcesHash
<1> DEFINE A == {i \in Storage!UnusedIds : i >= nextId}
           T == IF A # {} THEN A ELSE Storage!UnusedIds
<1>1. T \subseteq Storage!UnusedIds /\ T # {}
  OBVIOUS
<1>2. Storage!UnusedIds \subseteq Nat
  BY SourcesAssumption DEF Storage!UnusedIds
<1>3. \A X : Storage!Min(X) = Min(X)
  BY DEF Storage!Min, Min
<1>4. Storage!PickId = Min(T)
  BY <1>3 DEF Storage!PickId
<1> HIDE DEF T
<1>5. Min(T) \in T
  BY <1>1, <1>2, LeastNatural
<1> QED
  BY <1>1, <1>4, <1>5 DEF Storage!UnusedIds

LEMMA AddKeeps ==
    ASSUME Held, NEW s \in EventSources, Storage!Add(s)
    PROVE  Held'
<1> DEFINE n == Storage!PickId
<1>1. /\ StorageShape /\ removing = {} /\ Left = Storage!Stored /\ s \notin Left
      /\ Left \subseteq EventSources /\ n \in (1 .. MaxSource) \ DOMAIN sourcesHash
  BY IdPicked, HashStores DEF Held, Storage!Add, Storage!Free, Left
<1>2. /\ nextId' = n + 1 /\ id' = [id EXCEPT ![s] = n]
      /\ sourcesHash' = [j \in DOMAIN sourcesHash \cup {n} |-> IF j = n THEN s ELSE sourcesHash[j]]
      /\ lists' = Storage!AddToSourceList(lists, s, priority[s])
      /\ sourcesArray' = Append(sourcesArray, s)
      /\ memPos' = [memPos EXCEPT ![s] = Len(sourcesArray) + 1]
      /\ refs' = [refs EXCEPT ![s] = @ + Storage!Places(s)]
      /\ UNCHANGED <<priority, newPriority, removing, aborted>>
  BY DEF Storage!Add, Storage!AddToArray, Storage!AddToHash
<1> HIDE DEF n
<1>3. n \in Nat /\ n + 1 \in 1 .. MaxSource + 1
  BY <1>1, SourcesAssumption
<1>4. /\ DOMAIN sourcesHash' = DOMAIN sourcesHash \cup {n}
      /\ sourcesHash' \in [DOMAIN sourcesHash' -> EventSources]
      /\ sourcesHash'[n] = s /\ \A j \in DOMAIN sourcesHash : sourcesHash'[j] = sourcesHash[j]
  BY <1>1, <1>2 DEF StorageShape
<1>5. Left' = Left \cup {s}
  <2>1. Left' = {sourcesHash'[i] : i \in DOMAIN sourcesHash'}
    BY <1>1, <1>2 DEF Left, Storage!Stored
  <2>2. Left = {sourcesHash[i] : i \in DOMAIN sourcesHash}
    BY <1>1 DEF Storage!Stored
  <2> QED
    BY <1>1, <1>4, <2>1, <2>2
<1>6. HashHolds'
  <2>1. \A j \in DOMAIN sourcesHash : sourcesHash[j] # s /\ sourcesHash[j] \in EventSources
    BY <1>1, HashStores DEF StorageShape
  <2>2. id \in [EventSources -> Nat] /\ \A j \in DOMAIN sourcesHash : id[sourcesHash[j]] = j
    BY <1>1 DEF StorageShape, Held, HashHolds
  <2> QED
    BY <1>2, <1>3, <1>4, <2>1, <2>2 DEF HashHolds
<1>7. Prio' = Prio /\ Prio[s] = priority[s] /\ newPriority[s] = NULL
  BY <1>1, <1>2 DEF Prio, Held, PriorityPending
<1>8. ListsHold(lists, Left, Prio)'
  <2>1. ListsHold(lists', Left', Prio')
    BY <1>1, <1>2, <1>5, <1>7, PrioTyped, ListAdded DEF Held
  <2> QED
    BY <2>1 DEF ListsHold, ListsTyped, InOwnList
<1>9. refs' \in [EventSources -> Int] /\ RefsHeld'
  <2>1. refs[s] = 0 /\ refs \in [EventSources -> Int]
    BY <1>1 DEF Held, RefsHeld, StorageShape
  <2>2. Storage!Places(s) \in Nat
    BY PlacesNumber
  <2>3. refs' \in [EventSources -> Int] /\ refs'[s] = Storage!Places(s)
        /\ \A x \in EventSources \ {s} : refs'[x] = refs[x]
    BY <1>2, <2>1, <2>2
  <2>4. \A x : Storage!Places(x)' = Storage!Places(x)
    BY DEF Storage!Places
  <2> QED
    BY <1>5, <2>3, <2>4 DEF Held, RefsHeld
<1>10. PriorityPending'
  BY <1>2, <1>5 DEF Held, PriorityPending
<1>11. /\ sourcesArray \in Seq(EventSources) /\ Len(sourcesArray) \in Nat
       /\ memPos \in [EventSources -> Nat] /\ ArrayHolds
  BY <1>1 DEF StorageShape, Held
<1>12. /\ sourcesArray' \in Seq(EventSources) /\ Len(sourcesArray') = Len(sourcesArray) + 1
       /\ sourcesArray'[Len(sourcesArray) + 1] = s
       /\ \A i \in 1 .. Len(sourcesArray) : sourcesArray'[i] = sourcesArray[i]
  BY <1>2, <1>11, AppendProperties
<1>13. memPos' \in [EventSources -> Nat] /\ memPos'[s] = Len(sourcesArray) + 1
       /\ \A x \in EventSources \ {s} : memPos'[x] = memPos[x]
  BY <1>2, <1>11
<1>14. ArrayHolds'
  <2>1. ASSUME NEW i \in 1 .. Len(sourcesArray')
        PROVE  sourcesArray'[i] \in Left' /\ memPos'[sourcesArray'[i]] = i
    <3>1. CASE i = Len(sourcesArray) + 1
      BY <1>5, <1>12, <1>13, <3>1
    <3>2. CASE i # Len(sourcesArray) + 1
      <4>1. i \in 1 .. Len(sourcesArray)
        BY <1>11, <1>12, <3>2
      <4>2. sourcesArray[i] \in Left /\ memPos[sourcesArray[i]] = i
        BY <1>11, <4>1 DEF ArrayHolds
      <4> QED
        BY <1>1, <1>5, <1>12, <1>13, <4>1, <4>2
    <3> QED
      BY <3>1, <3>2
  <2>2. ASSUME NEW x \in Left' PROVE \E i \in 1 .. Len(sourcesArray') : sourcesArray'[i] = x
    <3>1. CASE x = s
      BY <1>11, <1>12, <3>1
    <3>2. CASE x \in Left
      <4>1. PICK i \in 1 .. Len(sourcesArray) : sourcesArray[i] = x
        BY <1>11, <3>2 DEF ArrayHolds
      <4> QED
        BY <1>11, <1>12, <4>1
    <3> QED
      BY <1>5, <3>1, <3>2
  <2> QED
    BY <2>1, <2>2 DEF ArrayHolds
<1>15. StorageShape'
  <2>1. nextId' \in 1 .. MaxSource + 1 /\ DOMAIN sourcesHash' \subseteq 1 .. MaxSource
    BY <1>1, <1>2, <1>3, <1>4 DEF StorageShape
  <2>2. id' \in [EventSources -> Nat] /\ removing' = {}
    BY <1>1, <1>2, <1>3 DEF StorageShape
  <2>3. priority' \in [EventSources -> Priorities] /\ newPriority' \in [EventSources -> Priorities \cup {NULL}]
    BY <1>1, <1>2 DEF StorageShape
  <2> QED
    BY <1>4, <1>9, <1>12, <1>13, <2>1, <2>2, <2>3 DEF StorageShape
<1> QED
  BY <1>6, <1>8, <1>9, <1>10, <1>14, <1>15 DEF Held

LEMMA RemoveKeeps ==
    ASSUME Held, NEW s \in EventSources, Storage!RemoveSource(s), ~aborted'
    PROVE  Held'
<1>1. /\ StorageShape /\ removing = {} /\ Left = Storage!Stored /\ s \in Left
      /\ Left \subseteq EventSources
  BY HashStores DEF Held, Storage!RemoveSource, Storage!Free, Left
<1>2. /\ sourcesHash' = [i \in DOMAIN sourcesHash \ {id[s]} |-> sourcesHash[i]]
      /\ Storage!RemoveFromPlaces(s) /\ Storage!Unref(s) /\ Storage!InItsPlaces(s)
      /\ UNCHANGED <<nextId, id, priority, newPriority, removing>>
  BY DEF Storage!RemoveSource, Storage!RemoveFromPlaces
<1>3. /\ DOMAIN sourcesHash' = DOMAIN sourcesHash \ {id[s]}
      /\ sourcesHash' \in [DOMAIN sourcesHash' -> EventSources]
      /\ \A j \in DOMAIN sourcesHash' : sourcesHash'[j] = sourcesHash[j]
  BY <1>1, <1>2 DEF StorageShape
<1>4. Left' = Left \ {s}
  <2>1. Left' = {sourcesHash'[i] : i \in DOMAIN sourcesHash'}
    BY <1>1, <1>2 DEF Left, Storage!Stored
  <2>2. Left = {sourcesHash[i] : i \in DOMAIN sourcesHash}
    BY <1>1 DEF Storage!Stored
  <2>3. \A i \in DOMAIN sourcesHash : id[sourcesHash[i]] = i
    BY DEF Held, HashHolds
  <2>4. sourcesHash[id[s]] = s
    BY <1>1, <2>2, <2>3
  <2> QED
    BY <1>3, <2>1, <2>2, <2>3, <2>4
<1>5. /\ sourcesArray' \in Seq(EventSources) /\ memPos' \in [EventSources -> Nat]
      /\ refs' \in [EventSources -> Int]
      /\ ArrayHolds' /\ ListsHold(lists, Left, Prio)' /\ PriorityPending' /\ RefsHeld'
  BY <1>1, <1>2, <1>4, TakenFromPlaces
<1>6. HashHolds'
  BY <1>2, <1>3 DEF Held, HashHolds
<1>7. StorageShape'
  BY <1>1, <1>2, <1>3, <1>5 DEF StorageShape
<1> QED
  BY <1>5, <1>6, <1>7 DEF Held

LEMMA RemoveNextKeeps ==
    ASSUME Held, NEW s \in EventSources, Storage!RemoveNext(s), ~aborted'
    PROVE  Held'
<1>1. /\ StorageShape /\ s \in removing /\ Left = removing
      /\ removing \subseteq Storage!Stored /\ Left \subseteq EventSources
  BY HashStores DEF Held, Storage!RemoveNext, Left, StorageShape
<1>2. /\ Storage!RemoveFromPlaces(s) /\ Storage!Unref(s) /\ Storage!InItsPlaces(s)
      /\ removing' = removing \ {s}
      /\ sourcesHash' = IF removing = {s} THEN [i \in {} |-> NULL] ELSE sourcesHash
      /\ UNCHANGED <<nextId, id, priority, newPriority>>
  BY DEF Storage!RemoveNext, Storage!RemoveFromPlaces
<1>3. /\ Left' = Left \ {s} /\ removing' \subseteq Storage!Stored'
      /\ DOMAIN sourcesHash' \subseteq 1 .. MaxSource
      /\ sourcesHash' \in [DOMAIN sourcesHash' -> EventSources] /\ HashHolds'
  <2>1. CASE removing = {s}
    <3>1. removing' = {} /\ sourcesHash' = [i \in {} |-> NULL]
      BY <1>2, <2>1
    <3>2. DOMAIN sourcesHash' = {}
      BY <3>1
    <3>3. Storage!Stored' = {}
      BY <3>2 DEF Storage!Stored
    <3>4. Left' = {}
      BY <3>1, <3>3 DEF Left
    <3>5. sourcesHash' \in [DOMAIN sourcesHash' -> EventSources]
      BY <3>1, <3>2
    <3> QED
      BY <1>1, <2>1, <3>1, <3>2, <3>3, <3>4, <3>5 DEF HashHolds
  <2>2. CASE removing # {s}
    <3>1. sourcesHash' = sourcesHash /\ removing' # {}
      BY <1>1, <1>2, <2>2
    <3>2. Storage!Stored' = Storage!Stored
      BY <3>1 DEF Storage!Stored
    <3>3. Left' = removing'
      BY <3>1 DEF Left
    <3> QED
      BY <1>1, <1>2, <3>1, <3>2, <3>3 DEF StorageShape, Held, HashHolds
  <2> QED
    BY <2>1, <2>2
<1>4. /\ sourcesArray' \in Seq(EventSources) /\ memPos' \in [EventSources -> Nat]
      /\ refs' \in [EventSources -> Int]
      /\ ArrayHolds' /\ ListsHold(lists, Left, Prio)' /\ PriorityPending' /\ RefsHeld'
  BY <1>1, <1>2, <1>3, TakenFromPlaces
<1>5. StorageShape'
  BY <1>1, <1>2, <1>3, <1>4 DEF StorageShape
<1> QED
  BY <1>3, <1>4, <1>5 DEF Held

LEMMA RemoveAllKeeps ==
    ASSUME Held, Storage!RemoveAll
    PROVE  Held'
<1>1. /\ removing' = Storage!Stored /\ Storage!Stored # {} /\ removing = {}
      /\ UNCHANGED <<nextId, sourcesHash, lists, sourcesArray, memPos, id, priority, newPriority, refs>>
  BY DEF Storage!RemoveAll, Storage!Free
<1>2. Storage!Stored' = Storage!Stored
  BY <1>1 DEF Storage!Stored
<1>3. Left' = Left /\ Prio' = Prio
  BY <1>1, <1>2 DEF Left, Prio
<1>4. StorageShape' /\ HashHolds' /\ ArrayHolds' /\ PriorityPending'
  BY <1>1, <1>2, <1>3 DEF Held, StorageShape, HashHolds, ArrayHolds, PriorityPending
<1>5. RefsHeld'
  <2>1. \A x : Storage!Places(x)' = Storage!Places(x)
    BY DEF Storage!Places
  <2> QED
    BY <1>1, <1>3, <2>1 DEF Held, RefsHeld
<1>6. ListsHold(lists, Left, Prio)'
  <2>1. ListsHold(lists', Left', Prio')
    BY <1>1, <1>3 DEF Held
  <2> QED
    BY <2>1 DEF ListsHold, ListsTyped, InOwnList
<1> QED
  BY <1>4, <1>5, <1>6 DEF Held

(* setPriority(): the lists are ahead of the priority until it is assigned. *)
LEMMA SetPriorityKeeps ==
    ASSUME Held, NEW s \in EventSources, NEW p \in Priorities, Storage!SetPriority(s, p)
    PROVE  Held'
<1>1. /\ StorageShape /\ removing = {} /\ Left = Storage!Stored /\ s \in Left
      /\ Left \subseteq EventSources /\ newPriority[s] = NULL /\ p # priority[s] /\ p # NULL
  BY HashStores, PrioritiesAssumption DEF Held, Storage!SetPriority, Storage!Free, Left
<1>2. /\ lists' = Storage!AddToSourceList(Storage!RemoveFromSourceList(lists, s, priority[s]), s, p)
      /\ newPriority' = [newPriority EXCEPT ![s] = p]
      /\ UNCHANGED <<nextId, sourcesHash, sourcesArray, memPos, id, priority, refs, removing>>
  BY DEF Storage!SetPriority
<1>3. Storage!Stored' = Storage!Stored
  BY <1>2 DEF Storage!Stored
<1>4. Left' = Left
  BY <1>2, <1>3 DEF Left
<1>5. /\ newPriority' \in [EventSources -> Priorities \cup {NULL}] /\ newPriority'[s] = p
      /\ \A x \in EventSources \ {s} : newPriority'[x] = newPriority[x]
  BY <1>1, <1>2 DEF StorageShape
<1>6. StorageShape'
  BY <1>1, <1>2, <1>3, <1>5 DEF StorageShape
<1>7. HashHolds' /\ ArrayHolds'
  BY <1>2, <1>4 DEF Held, HashHolds, ArrayHolds
<1>8. PriorityPending'
  BY <1>1, <1>2, <1>4, <1>5 DEF Held, PriorityPending
<1>9. RefsHeld'
  <2>1. \A x : Storage!Places(x)' = Storage!Places(x)
    BY DEF Storage!Places
  <2> QED
    BY <1>2, <1>4, <2>1 DEF Held, RefsHeld
<1>10. /\ Prio \in [EventSources -> Priorities] /\ Prio' \in [EventSources -> Priorities]
       /\ Prio[s] = priority[s] /\ Prio'[s] = p
       /\ \A x \in Left \ {s} : Prio'[x] = Prio[x]
  <2>1. Prio \in [EventSources -> Priorities] /\ Prio[s] = priority[s]
    BY <1>1, PrioTyped
  <2>2. Prio' = [x \in EventSources |-> IF newPriority'[x] = NULL THEN priority[x] ELSE newPriority'[x]]
    BY <1>2 DEF Prio
  <2>3. Prio'[s] = p
    BY <1>1, <1>5, <2>2
  <2>4. \A x \in EventSources \ {s} : Prio'[x] = Prio[x]
    BY <1>5, <2>2 DEF Prio
  <2>5. Prio' \in [EventSources -> Priorities]
    BY <1>1, <1>5, <2>2 DEF StorageShape
  <2> QED
    BY <1>1, <2>1, <2>3, <2>4, <2>5
<1>11. ListsHold(lists, Left, Prio)'
  <2> DEFINE m == Storage!RemoveFromSourceList(lists, s, priority[s])
             S == Left \ {s}
             bt == Prio'
  <2>1. ListsHold(m, S, Prio)
    BY <1>1, <1>10, ListRemoved DEF Held
  <2>2. S \in SUBSET EventSources /\ s \in EventSources \ S /\ S \cup {s} = Left
    BY <1>1
  <2> HIDE DEF m, S, bt
  <2>3. bt \in [EventSources -> Priorities] /\ bt[s] = p /\ \A x \in S : bt[x] = Prio[x]
    BY <1>10 DEF bt, S
  <2>4. ListsHold(Storage!AddToSourceList(m, s, p), S \cup {s}, bt)
    BY <1>10, <2>1, <2>2, <2>3, ListAdded
  <2>5. ListsHold(lists', Left', Prio')
    BY <1>2, <1>4, <2>2, <2>4 DEF m, bt
  <2> QED
    BY <2>5 DEF ListsHold, ListsTyped, InOwnList
<1> QED
  BY <1>6, <1>7, <1>8, <1>9, <1>11 DEF Held

LEMMA AssignPriorityKeeps ==
    ASSUME Held, NEW s \in EventSources, Storage!AssignPriority(s)
    PROVE  Held'
<1>1. /\ StorageShape /\ newPriority[s] # NULL /\ newPriority[s] \in Priorities
  BY DEF Held, Storage!AssignPriority, StorageShape
<1>2. /\ priority' = [priority EXCEPT ![s] = newPriority[s]]
      /\ newPriority' = [newPriority EXCEPT ![s] = NULL]
      /\ UNCHANGED <<nextId, sourcesHash, lists, sourcesArray, memPos, id, refs, removing>>
  BY DEF Storage!AssignPriority
<1>3. Storage!Stored' = Storage!Stored
  BY <1>2 DEF Storage!Stored
<1>4. Left' = Left
  BY <1>2, <1>3 DEF Left
<1>5. /\ newPriority' \in [EventSources -> Priorities \cup {NULL}] /\ newPriority'[s] = NULL
      /\ priority' \in [EventSources -> Priorities] /\ priority'[s] = newPriority[s]
      /\ \A x \in EventSources \ {s} : newPriority'[x] = newPriority[x] /\ priority'[x] = priority[x]
  BY <1>1, <1>2 DEF StorageShape
<1>6. StorageShape'
  BY <1>1, <1>2, <1>3, <1>5 DEF StorageShape
<1>7. HashHolds' /\ ArrayHolds'
  BY <1>2, <1>4 DEF Held, HashHolds, ArrayHolds
<1>8. PriorityPending'
  BY <1>4, <1>5 DEF Held, PriorityPending
<1>9. RefsHeld'
  <2>1. \A x : Storage!Places(x)' = Storage!Places(x)
    BY DEF Storage!Places
  <2> QED
    BY <1>2, <1>4, <2>1 DEF Held, RefsHeld
<1>10. Prio' = Prio
  <2>1. Prio' = [x \in EventSources |-> IF newPriority'[x] = NULL THEN priority'[x] ELSE newPriority'[x]]
    BY DEF Prio
  <2>2. \A x \in EventSources : (IF newPriority'[x] = NULL THEN priority'[x] ELSE newPriority'[x])
                                   = (IF newPriority[x] = NULL THEN priority[x] ELSE newPriority[x])
    BY <1>1, <1>5
  <2> QED
    BY <2>1, <2>2 DEF Prio
<1>11. ListsHold(lists, Left, Prio)'
  <2>1. ListsHold(lists', Left', Prio')
    BY <1>2, <1>4, <1>10 DEF Held
  <2> QED
    BY <2>1 DEF ListsHold, ListsTyped, InOwnList
<1> QED
  BY <1>6, <1>7, <1>8, <1>9, <1>11 DEF Held

LEMMA StorageStep == StorageInv /\ [Storage!Next]_(Storage!vars) => StorageInv'
<1> SUFFICES ASSUME StorageInv, [Storage!Next]_(Storage!vars), ~aborted' PROVE Held'
  BY DEF StorageInv
<1>1. ASSUME NEW s \in EventSources,
             Storage!Add(s) \/ Storage!RemoveSource(s) \/ Storage!RemoveNext(s)
             \/ (\E p \in Priorities : Storage!SetPriority(s, p)) \/ Storage!AssignPriority(s)
      PROVE  Held'
  <2>1. Held
    BY <1>1 DEF StorageInv, Storage!Add, Storage!RemoveSource, Storage!RemoveNext,
                Storage!SetPriority, Storage!AssignPriority, Storage!Free
  <2> QED
    BY <1>1, <2>1, AddKeeps, RemoveKeeps, RemoveNextKeeps, SetPriorityKeeps, AssignPriorityKeeps
<1>2. CASE Storage!RemoveAll
  <2>1. Held
    BY <1>2 DEF StorageInv, Storage!RemoveAll, Storage!Free
  <2> QED
    BY <1>2, <2>1, RemoveAllKeeps
<1>3. CASE UNCHANGED Storage!vars
  <2>1. /\ UNCHANGED <<nextId, sourcesHash, lists, sourcesArray, memPos, id, priority,
                       newPriority, refs, removing, aborted>>
    BY <1>3 DEF Storage!vars
  <2>2. Held
    BY <2>1 DEF StorageInv
  <2>3. Storage!Stored' = Storage!Stored
    BY <2>1 DEF Storage!Stored
  <2>4. Left' = Left /\ Prio' = Prio
    BY <2>1, <2>3 DEF Left, Prio
  <2>5. StorageShape' /\ HashHolds' /\ ArrayHolds' /\ PriorityPending'
    BY <2>1, <2>2, <2>3, <2>4 DEF Held, StorageShape, HashHolds, ArrayHolds, PriorityPending
  <2>6. RefsHeld'
    <3>1. \A x : Storage!Places(x)' = Storage!Places(x)
      BY DEF Storage!Places
    <3> QED
      BY <2>1, <2>2, <2>4, <3>1 DEF Held, RefsHeld
  <2>7. ListsHold(lists, Left, Prio)'
    <3>1. ListsHold(lists', Left', Prio')
      BY <2>1, <2>2, <2>4 DEF Held
    <3> QED
      BY <3>1 DEF ListsHold, ListsTyped, InOwnList
  <2> QED
    BY <2>5, <2>6, <2>7 DEF Held
<1> QED
  BY <1>1, <1>2, <1>3 DEF Storage!Next

LEMMA StorageStart == Storage!Init => StorageInv
<1> SUFFICES ASSUME Storage!Init PROVE Held
  BY DEF StorageInv
<1>1. /\ nextId = 1 /\ sourcesHash = [i \in {} |-> NULL] /\ lists = Storage!NoLists
      /\ sourcesArray = <<>> /\ memPos = [s \in EventSources |-> 0] /\ id = [s \in EventSources |-> 0]
      /\ priority \in [EventSources -> Priorities] /\ newPriority = [s \in EventSources |-> NULL]
      /\ refs = [s \in EventSources |-> 0] /\ removing = {}
  BY DEF Storage!Init
<1>2. DOMAIN sourcesHash = {} /\ Storage!Stored = {} /\ Left = {}
  BY <1>1 DEF Storage!Stored, Left
<1>3. StorageShape
  <2>1. sourcesArray \in Seq(EventSources)
    BY <1>1
  <2>2. sourcesHash \in [DOMAIN sourcesHash -> EventSources]
    BY <1>1, <1>2
  <2> QED
    BY <1>1, <1>2, <2>1, <2>2, SourcesAssumption DEF StorageShape
<1>4. HashHolds /\ ArrayHolds /\ PriorityPending /\ RefsHeld
  BY <1>1, <1>2 DEF HashHolds, ArrayHolds, PriorityPending, RefsHeld
<1>5. ListsHold(lists, Left, Prio)
  <2>1. lists.prioIndex = <<>> /\ lists.datas = [p \in Priorities |-> <<>>]
        /\ lists.count = [p \in Priorities |-> 0]
    BY <1>1 DEF Storage!NoLists
  <2>2. <<>> \in Seq(Priorities) /\ <<>> \in Seq(EventSources)
    OBVIOUS
  <2>3. ListsTyped(lists)
    BY <1>1, <2>1, <2>2 DEF ListsTyped, Storage!NoLists
  <2>4. Ascending(lists.prioIndex) /\ \A p \in Priorities : p \notin ToSet(lists.prioIndex)
    BY <2>1 DEF Ascending, ToSet
  <2> QED
    BY <1>2, <2>1, <2>3, <2>4 DEF ListsHold, InOwnList
<1> QED
  BY <1>3, <1>4, <1>5 DEF Held
-----------------------------------------------------------------------------
(* The iterator at place i of the k-th priority in use.                    *)
LEMMA StopsAre ==
    \A it : it \in Storage!Stops <=>
              \E k \in 1 .. Len(lists.prioIndex) :
                  \E i \in 0 .. lists.count[lists.prioIndex[k]] - 1 : it = [value |-> k, count |-> i]
  BY DEF Storage!Stops

LEMMA IterationKept ==
    ASSUME StorageShape, ListsHold(lists, Storage!Stored, Prio)
    PROVE  Storage!IterationSound
<1> DEFINE n == Len(lists.prioIndex)
           P(k) == lists.prioIndex[k]
           C(k) == lists.count[lists.prioIndex[k]]
           At(k, i) == lists.datas[lists.prioIndex[k]][i + 1]
<1>1. /\ lists.prioIndex \in Seq(Priorities) /\ Ascending(lists.prioIndex)
      /\ lists.datas \in [Priorities -> Seq(EventSources)] /\ lists.count \in [Priorities -> Nat]
      /\ n \in Nat /\ \A k \in 1 .. n : P(k) \in Priorities /\ P(k) \in Int
  <2>1. lists.prioIndex \in Seq(Priorities)
    BY DEF ListsHold, ListsTyped
  <2>2. n \in Nat /\ \A k \in 1 .. n : P(k) \in Priorities
    BY <2>1
  <2> QED
    BY <2>1, <2>2, PrioritiesAssumption DEF ListsHold, ListsTyped
<1>2. ASSUME NEW k \in 1 .. n
      PROVE  C(k) \in Nat /\ C(k) > 0 /\ C(k) <= Len(lists.datas[P(k)]) /\ Len(lists.datas[P(k)]) \in Nat
  <2>1. P(k) \in ToSet(lists.prioIndex)
    BY <1>1, InToSet
  <2> QED
    BY <1>1, <2>1 DEF ListsHold, ListsTyped
<1>3. ASSUME NEW k \in 1 .. n, NEW i \in 0 .. C(k) - 1
      PROVE  /\ Storage!NextSource(lists, [value |-> k, count |-> i]) = At(k, i)
             /\ At(k, i) \in Storage!Stored /\ At(k, i) \in EventSources /\ Prio[At(k, i)] = P(k)
  <2>1. i + 1 \in 1 .. C(k) /\ i + 1 \in 1 .. Len(lists.datas[P(k)])
    BY <1>2
  <2>2. At(k, i) \in Storage!Stored /\ Prio[At(k, i)] = P(k)
    BY <1>1, <2>1 DEF ListsHold, InOwnList
  <2> QED
    BY <2>1, <2>2, HashStores DEF Storage!NextSource, Storage!Slot
<1>4. ASSUME NEW k \in 1 .. n, NEW i \in 0 .. C(k) - 1, NEW m \in 1 .. n, NEW j \in 0 .. C(m) - 1,
             At(k, i) = At(m, j)
      PROVE  k = m /\ i = j
  <2>1. P(k) = P(m)
    <3>1. Prio[At(k, i)] = P(k)
      BY <1>3
    <3>2. Prio[At(m, j)] = P(m)
      BY <1>3
    <3> QED
      BY <1>4, <3>1, <3>2
  <2>2. k = m
    <3>1. (k < m => P(k) < P(m)) /\ (m < k => P(m) < P(k)) /\ P(k) \in Int
      BY <1>1 DEF Ascending
    <3> HIDE DEF P
    <3> QED
      BY <1>1, <2>1, <3>1
  <2>3. i + 1 \in 1 .. C(k) /\ j + 1 \in 1 .. C(k)
    BY <1>2, <2>2
  <2>4. i + 1 = j + 1
    <3>1. InOwnList(lists, P(k), Storage!Stored, Prio)
      BY <1>1 DEF ListsHold
    <3>2. lists.datas[P(k)][i + 1] = lists.datas[P(k)][j + 1]
      BY <1>4, <2>2
    <3> HIDE DEF P
    <3> QED
      BY <2>3, <3>1, <3>2 DEF InOwnList, P
  <2> QED
    BY <2>2, <2>4
<1>5. Storage!HasNext(lists, Storage!InitIter) => Storage!InitIter \in Storage!Stops
  <2> SUFFICES ASSUME Storage!HasNext(lists, Storage!InitIter) PROVE Storage!InitIter \in Storage!Stops
    OBVIOUS
  <2>1. 1 \in 1 .. n
    BY <1>1 DEF Storage!HasNext, Storage!InitIter
  <2>2. 0 \in 0 .. C(1) - 1
    BY <1>2, <2>1
  <2> QED
    BY <2>1, <2>2, StopsAre DEF Storage!InitIter
<1>6. ASSUME NEW it \in Storage!Stops
      PROVE  /\ Storage!NextSource(lists, it) \in Storage!Stored
             /\ Storage!HasNext(lists, Storage!NextIter(lists, it))
                    => Storage!NextIter(lists, it) \in Storage!Stops
  <2>1. PICK k \in 1 .. n : \E i \in 0 .. C(k) - 1 : it = [value |-> k, count |-> i]
    BY StopsAre
  <2>2. PICK i \in 0 .. C(k) - 1 : it = [value |-> k, count |-> i]
    BY <2>1
  <2>3. Storage!NextSource(lists, it) \in Storage!Stored
    BY <1>3, <2>2
  <2>4. CASE i + 1 >= C(k)
    <3>1. Storage!NextIter(lists, it) = [value |-> k + 1, count |-> 0]
      BY <2>2, <2>4 DEF Storage!NextIter
    <3>2. Storage!HasNext(lists, Storage!NextIter(lists, it)) => k + 1 \in 1 .. n
      BY <1>1, <3>1 DEF Storage!HasNext
    <3>3. k + 1 \in 1 .. n => 0 \in 0 .. C(k + 1) - 1
      BY <1>2
    <3> QED
      BY <2>3, <3>1, <3>2, <3>3, StopsAre
  <2>5. CASE ~(i + 1 >= C(k))
    <3>1. Storage!NextIter(lists, it) = [value |-> k, count |-> i + 1]
      BY <2>2, <2>5 DEF Storage!NextIter
    <3>2. i + 1 \in 0 .. C(k) - 1
      BY <1>2, <2>5
    <3> QED
      BY <2>3, <3>1, <3>2, StopsAre
  <2> QED
    BY <2>4, <2>5
<1>7. ASSUME NEW s \in Storage!Stored
      PROVE  \E it \in Storage!Stops : Storage!NextSource(lists, it) = s
  <2>1. PICK j \in 1 .. lists.count[Prio[s]] : lists.datas[Prio[s]][j] = s
    BY DEF ListsHold
  <2>2. Prio[s] \in Priorities
    BY HashStores, PrioTyped
  <2>3. lists.count[Prio[s]] \in Nat /\ lists.count[Prio[s]] > 0
    BY <1>1, <2>1, <2>2
  <2>4. Prio[s] \in ToSet(lists.prioIndex)
    BY <2>2, <2>3 DEF ListsHold
  <2>5. PICK k \in 1 .. n : P(k) = Prio[s]
    BY <1>1, <2>4, InToSet
  <2>6. j - 1 \in 0 .. C(k) - 1 /\ (j - 1) + 1 = j
    BY <2>1, <2>3, <2>5
  <2>7. [value |-> k, count |-> j - 1] \in Storage!Stops
    BY <2>6, StopsAre
  <2>8. Storage!NextSource(lists, [value |-> k, count |-> j - 1]) = s
    BY <1>3, <2>1, <2>5, <2>6
  <2> QED
    BY <2>7, <2>8
<1>8. ASSUME NEW it \in Storage!Stops, NEW jt \in Storage!Stops
      PROVE  LET s == Storage!NextSource(lists, it)
                 u == Storage!NextSource(lists, jt)
             IN  /\ s = u => it = jt
                 /\ it.value < jt.value /\ newPriority[s] = NULL /\ newPriority[u] = NULL
                        => priority[s] < priority[u]
  <2>1. PICK k \in 1 .. n : \E i \in 0 .. C(k) - 1 : it = [value |-> k, count |-> i]
    BY StopsAre
  <2>2. PICK i \in 0 .. C(k) - 1 : it = [value |-> k, count |-> i]
    BY <2>1
  <2>3. PICK m \in 1 .. n : \E j \in 0 .. C(m) - 1 : jt = [value |-> m, count |-> j]
    BY StopsAre
  <2>4. PICK j \in 0 .. C(m) - 1 : jt = [value |-> m, count |-> j]
    BY <2>3
  <2> DEFINE s == At(k, i)
             u == At(m, j)
  <2>5. /\ Storage!NextSource(lists, it) = s /\ Storage!NextSource(lists, jt) = u
        /\ s \in EventSources /\ Prio[s] = P(k) /\ u \in EventSources /\ Prio[u] = P(m)
    BY <1>3, <2>2, <2>4
  <2>6. s = u => it = jt
    BY <1>4, <2>2, <2>4
  <2>7. it.value < jt.value /\ newPriority[s] = NULL /\ newPriority[u] = NULL => priority[s] < priority[u]
    <3>1. k < m => P(k) < P(m)
      BY <1>1 DEF Ascending
    <3>2. it.value = k /\ jt.value = m
      BY <2>2, <2>4
    <3>3. newPriority[s] = NULL => priority[s] = P(k)
      BY <2>5, PrioTyped
    <3>4. newPriority[u] = NULL => priority[u] = P(m)
      BY <2>5, PrioTyped
    <3> QED
      BY <3>1, <3>2, <3>3, <3>4
  <2> QED
    BY <2>5, <2>6, <2>7
<1> QED
  BY <1>5, <1>6, <1>7, <1>8 DEF Storage!IterationSound

LEMMA PlacesKept == StorageInv => Storage!PlacesAgree
<1> SUFFICES ASSUME StorageInv, Storage!Free
             PROVE  /\ HashHolds
                    /\ ToSet(sourcesArray) = Storage!Stored
                    /\ \A i \in 1 .. Len(sourcesArray) : memPos[sourcesArray[i]] = i
                    /\ Storage!IterationSound
                    /\ \A s \in EventSources :
                          refs[s] = IF s \notin Storage!Stored THEN 0 ELSE Storage!Places(s)
  BY ToSetOf DEF Storage!PlacesAgree, HashHolds
<1>1. Held /\ removing = {} /\ StorageShape /\ Left = Storage!Stored
  BY DEF StorageInv, Storage!Free, Left, Held
<1>2. ToSet(sourcesArray) = Storage!Stored
  <2>1. sourcesArray \in Seq(EventSources)
    BY <1>1 DEF StorageShape
  <2>2. \A z : z \in ToSet(sourcesArray) <=> \E i \in 1 .. Len(sourcesArray) : sourcesArray[i] = z
    BY <2>1, InToSet
  <2> QED
    BY <1>1, <2>2 DEF Held, ArrayHolds
<1>3. Storage!IterationSound
  BY <1>1, IterationKept DEF Held
<1> QED
  BY <1>1, <1>2, <1>3 DEF Held, ArrayHolds, RefsHeld

(* add(), remove(), removeAll() and setPriority(), for any sources, ids    *)
(* and priorities, whatever is called in between: the hash table, the      *)
(* lists and the array hold the same sources, the iterator comes to each   *)
(* of them once and in their order, and their references are as many as    *)
(* their places.                                                           *)
THEOREM StoragePlacesAgree == Storage!Spec => []PlacesAgree
<1>1. Storage!Spec => []StorageInv
  BY StorageStart, StorageStep, PTL DEF Storage!Spec
<1> QED
  BY <1>1, PlacesKept, PTL DEF PlacesAgree
-----------------------------------------------------------------------------
(* APriorityQueue.                                                         *)
(* A node goes in front of its children, unless one of the two is the      *)
(* hole; what is above the hole goes in front of what is below it.  The    *)
(* item of push() goes in front of the children of the hole, the one of    *)
(* pop() not in front of its parent.                                       *)
HeapOrdered == \A i \in 2 .. Len(heap) :
              i # hole /\ i \div 2 # hole => rank[heap[i \div 2]] <= rank[heap[i]]
AroundHole == \A i \in 2 .. Len(heap) : i \div 2 = hole =>
                 /\ hole > 1 => rank[heap[hole \div 2]] <= rank[heap[i]]
                 /\ op = "push" => rank[moving] <= rank[heap[i]]
NotAbove == op = "pop" /\ hole > 1 => rank[heap[hole \div 2]] <= rank[moving]

Copies(f, n, x) == {i \in 1 .. n : f[i] = x}
Counted == \A x \in Items : Cardinality(Copies(Heap!Filled, Len(heap), x)) = heapContent[x]

HeapInv == Heap!TypeOK /\ HeapOrdered /\ AroundHole /\ NotAbove /\ Counted

LEMMA CopiesFinite ==
    ASSUME NEW f, NEW n \in Nat, NEW x
    PROVE  IsFiniteSet(Copies(f, n, x)) /\ Cardinality(Copies(f, n, x)) \in Nat
<1>1. IsFiniteSet(1 .. n) BY FS_Interval
<1>2. Copies(f, n, x) \subseteq 1 .. n BY DEF Copies
<1> QED BY <1>1, <1>2, FS_Subset, FS_CardinalityType

(* Two places of an array change their items: no item has gone.            *)
LEMMA SwapKeepsCopies ==
    ASSUME NEW n \in Nat, NEW f, NEW g, NEW a \in 1 .. n, NEW b \in 1 .. n, NEW x,
           g[a] = f[b], g[b] = f[a],
           \A i \in 1 .. n : i # a /\ i # b => g[i] = f[i]
    PROVE  Cardinality(Copies(g, n, x)) = Cardinality(Copies(f, n, x))
<1> DEFINE h == [i \in Copies(f, n, x) |-> IF i = a THEN b ELSE IF i = b THEN a ELSE i]
<1>1. h \in Bijection(Copies(f, n, x), Copies(g, n, x))
  <2>1. \A i \in Copies(f, n, x) : h[i] \in Copies(g, n, x) BY DEF Copies
  <2>2. \A i, j \in Copies(f, n, x) : i # j => h[i] # h[j] BY DEF Copies
  <2>3. \A j \in Copies(g, n, x) : \E i \in Copies(f, n, x) : h[i] = j
    <3> SUFFICES ASSUME NEW j \in Copies(g, n, x)
                 PROVE  \E i \in Copies(f, n, x) : h[i] = j
      OBVIOUS
    <3> DEFINE i == IF j = a THEN b ELSE IF j = b THEN a ELSE j
    <3>1. i \in Copies(f, n, x) /\ h[i] = j BY DEF Copies
    <3> QED BY <3>1
  <2>4. h \in [Copies(f, n, x) -> Copies(g, n, x)] BY <2>1
  <2> HIDE DEF h
  <2> QED BY <2>2, <2>3, <2>4 DEF Bijection, Injection, Surjection, IsInjective
<1>2. IsFiniteSet(Copies(f, n, x)) BY CopiesFinite
<1> HIDE DEF h
<1>3. ExistsBijection(Copies(f, n, x), Copies(g, n, x)) BY <1>1 DEF ExistsBijection
<1> QED BY <1>2, <1>3, FS_Bijection

LEMMA LongerCopies ==
    ASSUME NEW n \in Nat, NEW m, m = n + 1, NEW f, NEW g, NEW x,
           \A i \in 1 .. n : g[i] = f[i]
    PROVE  Cardinality(Copies(g, m, x)) = Cardinality(Copies(f, n, x)) + (IF g[m] = x THEN 1 ELSE 0)
<1>1. IsFiniteSet(Copies(f, n, x)) /\ Cardinality(Copies(f, n, x)) \in Nat BY CopiesFinite
<1>2. m \notin Copies(f, n, x) BY DEF Copies
<1>3. CASE g[m] = x
  <2>1. Copies(g, m, x) = Copies(f, n, x) \cup {m} BY <1>3 DEF Copies
  <2> QED BY <1>1, <1>2, <1>3, <2>1, FS_AddElement
<1>4. CASE g[m] # x
  <2>1. Copies(g, m, x) = Copies(f, n, x) BY <1>4 DEF Copies
  <2> QED BY <1>1, <1>4, <2>1
<1> QED BY <1>3, <1>4

(* The first item leaves and the last one takes its place.                 *)
LEMMA FirstTaken ==
    ASSUME NEW m \in Nat, NEW n, n = m + 1, NEW f, NEW h, NEW x,
           \A i \in 1 .. m : h[i] = IF i = 1 THEN f[n] ELSE f[i]
    PROVE  Cardinality(Copies(f, n, x)) = Cardinality(Copies(h, m, x)) + (IF f[1] = x THEN 1 ELSE 0)
<1> DEFINE g == [i \in 1 .. n |-> IF i = 1 THEN f[n] ELSE IF i = n THEN f[1] ELSE f[i]]
<1>1. n \in Nat /\ n \in 1 .. n /\ 1 \in 1 .. n OBVIOUS
<1>2. g[1] = f[n] /\ g[n] = f[1] /\ \A i \in 1 .. n : i # 1 /\ i # n => g[i] = f[i] OBVIOUS
<1>3. \A i \in 1 .. m : g[i] = h[i] OBVIOUS
<1> HIDE DEF g
<1>4. Cardinality(Copies(g, n, x)) = Cardinality(Copies(f, n, x)) BY <1>1, <1>2, SwapKeepsCopies
<1>5. Cardinality(Copies(g, n, x)) = Cardinality(Copies(h, m, x)) + (IF g[n] = x THEN 1 ELSE 0)
  BY <1>3, LongerCopies
<1> QED BY <1>2, <1>4, <1>5

-----------------------------------------------------------------------------
LEMMA HeapStart == Heap!Init => HeapInv
<1> SUFFICES ASSUME Heap!Init PROVE HeapInv OBVIOUS
<1>1. Len(heap) = 0 /\ heap \in Seq(Items) BY DEF Heap!Init
<1>2. \A x \in Items : Copies(Heap!Filled, Len(heap), x) = {} BY <1>1 DEF Copies
<1>3. Counted BY <1>2, FS_EmptySet DEF Counted, Heap!Init
<1>4. Heap!TypeOK BY <1>1, LengthAssumption DEF Heap!Init, Heap!TypeOK
<1> QED BY <1>1, <1>3, <1>4 DEF Heap!Init, HeapInv, HeapOrdered, AroundHole, NotAbove

LEMMA FillKeeps ==
    ASSUME HeapInv, op \in {"push", "pop"}, Heap!Fill, UNCHANGED heapContent,
           hole > 1 => rank[heap[hole \div 2]] <= rank[moving],
           \A i \in 2 .. Len(heap) : i \div 2 = hole => rank[moving] <= rank[heap[i]]
    PROVE  HeapInv'
<1>1. hole \in 1 .. Len(heap) /\ moving \in Items /\ heap \in Seq(Items) BY DEF HeapInv, Heap!TypeOK
<1>2. heap' \in Seq(Items) /\ Len(heap') = Len(heap) /\ Len(heap) \in Nat
      /\ \A i \in 1 .. Len(heap) : heap'[i] = IF i = hole THEN moving ELSE heap[i]
  BY <1>1, ElementOfSeq, LenProperties, ExceptSeq DEF Heap!Fill
<1>3. Heap!TypeOK' BY <1>2 DEF HeapInv, Heap!TypeOK, Heap!Fill
<1>4. HeapOrdered'
  <2> SUFFICES ASSUME NEW i \in 2 .. Len(heap) PROVE rank[heap'[i \div 2]] <= rank[heap'[i]]
    BY <1>2 DEF HeapOrdered
  <2>1. i \div 2 \in 1 .. Len(heap) /\ i \div 2 # i BY <1>2
  <2>2. CASE i = hole BY <2>1, <2>2, <1>2
  <2>3. CASE i \div 2 = hole BY <2>1, <2>3, <1>2
  <2>4. CASE i # hole /\ i \div 2 # hole BY <2>1, <2>4, <1>2 DEF HeapInv, HeapOrdered
  <2> QED BY <2>2, <2>3, <2>4
<1>5. AroundHole' /\ NotAbove' BY <1>2 DEF AroundHole, NotAbove, Heap!Fill
<1>6. Heap!Filled' = Heap!Filled BY <1>1, <1>2 DEF Heap!Filled, Heap!Fill
<1>7. Counted' BY <1>2, <1>6 DEF HeapInv, Counted
<1> QED BY <1>3, <1>4, <1>5, <1>7 DEF HeapInv

LEMMA MoveKeepsCounted ==
    ASSUME HeapInv, op \in {"push", "pop"}, NEW from \in 1 .. Len(heap), from # hole,
           Heap!MoveHole(from), UNCHANGED heapContent
    PROVE  /\ Heap!TypeOK' /\ Counted' /\ Len(heap') = Len(heap)
           /\ \A i \in 1 .. Len(heap) : heap'[i] = IF i = hole THEN heap[from] ELSE heap[i]
<1>1. hole \in 1 .. Len(heap) /\ moving \in Items /\ heap \in Seq(Items) BY DEF HeapInv, Heap!TypeOK
<1>2. heap[from] \in Items /\ Len(heap) \in Nat BY <1>1, ElementOfSeq, LenProperties
<1>3. heap' \in Seq(Items) /\ Len(heap') = Len(heap)
      /\ \A i \in 1 .. Len(heap) : heap'[i] = IF i = hole THEN heap[from] ELSE heap[i]
  BY <1>1, <1>2, LenProperties, ExceptSeq DEF Heap!MoveHole
<1>4. Heap!TypeOK' BY <1>3 DEF HeapInv, Heap!TypeOK, Heap!MoveHole
<1>5. \A i \in 1 .. Len(heap) : Heap!Filled'[i] = IF i = hole THEN Heap!Filled[from]
                                            ELSE IF i = from THEN Heap!Filled[hole] ELSE Heap!Filled[i]
  BY <1>1, <1>3 DEF Heap!Filled, Heap!MoveHole
<1>6. \A x : Cardinality(Copies(Heap!Filled', Len(heap), x)) = Cardinality(Copies(Heap!Filled, Len(heap), x))
  <2> TAKE x
  <2> DEFINE f == Heap!Filled
             g == Heap!Filled'
  <2>1. /\ g[hole] = f[from] /\ g[from] = f[hole]
        /\ \A i \in 1 .. Len(heap) : i # hole /\ i # from => g[i] = f[i]
    BY <1>1, <1>5
  <2> HIDE DEF f, g
  <2>2. Cardinality(Copies(g, Len(heap), x)) = Cardinality(Copies(f, Len(heap), x))
    BY <1>1, <1>2, <2>1, SwapKeepsCopies
  <2> QED BY <2>2 DEF f, g
<1>7. Counted' BY <1>3, <1>6 DEF HeapInv, Counted
<1> QED BY <1>3, <1>4, <1>7

LEMMA SiftUpKeeps == HeapInv /\ Heap!SiftUp => HeapInv'
<1> SUFFICES ASSUME HeapInv, Heap!SiftUp PROVE HeapInv' OBVIOUS
<1> DEFINE parent == hole \div 2
<1>1. op = "push" /\ UNCHANGED heapContent /\ hole \in 1 .. Len(heap) /\ Len(heap) \in Nat
      /\ heap \in Seq(Items) /\ moving \in Items
  BY LenProperties DEF HeapInv, Heap!TypeOK, Heap!SiftUp
<1>2. ASSUME NEW i \in 1 .. Len(heap) PROVE rank[heap[i]] \in Int
  BY <1>1, RankAssumption, ElementOfSeq
<1>3. rank[moving] \in Int BY <1>1, RankAssumption
<1>4. CASE hole = 1 \/ Heap!compareFunc(moving, heap[parent])
  <2>1. Heap!Fill BY <1>4 DEF Heap!SiftUp
  <2>2. hole > 1 => rank[heap[hole \div 2]] <= rank[moving]
    <3> SUFFICES ASSUME hole > 1 PROVE rank[heap[parent]] <= rank[moving] OBVIOUS
    <3>1. parent \in 1 .. Len(heap) BY <1>1
    <3> QED BY <1>2, <1>3, <1>4, <3>1 DEF Heap!compareFunc
  <2> QED BY <1>1, <2>1, <2>2, FillKeeps DEF HeapInv, AroundHole
<1>5. CASE ~(hole = 1 \/ Heap!compareFunc(moving, heap[parent]))
  <2>1. Heap!MoveHole(parent) BY <1>5 DEF Heap!SiftUp
  <2>2. parent \in 1 .. Len(heap) /\ parent < hole /\ hole > 1 BY <1>1, <1>5
  <2>3. /\ Heap!TypeOK' /\ Counted' /\ Len(heap') = Len(heap)
        /\ \A i \in 1 .. Len(heap) : heap'[i] = IF i = hole THEN heap[parent] ELSE heap[i]
    BY <1>1, <2>1, <2>2, MoveKeepsCounted
  <2>4. hole' = parent /\ op' = "push" /\ moving' = moving BY <1>1, <2>1 DEF Heap!MoveHole
  <2>5. rank[moving] <= rank[heap[parent]] BY <1>2, <1>3, <1>5, <2>2 DEF Heap!compareFunc
  <2>6. HeapOrdered'
    <3> SUFFICES ASSUME NEW i \in 2 .. Len(heap), i # parent, i \div 2 # parent
                 PROVE  rank[heap'[i \div 2]] <= rank[heap'[i]]
      BY <2>3, <2>4 DEF HeapOrdered
    <3>1. i \div 2 \in 1 .. Len(heap) /\ i # hole BY <1>1
    <3>2. CASE i \div 2 = hole
      <4>1. rank[heap[parent]] <= rank[heap[i]] BY <2>2, <3>2 DEF HeapInv, AroundHole
      <4> QED BY <2>3, <3>1, <3>2, <4>1
    <3>3. CASE i \div 2 # hole
      <4>1. rank[heap[i \div 2]] <= rank[heap[i]] BY <3>1, <3>3 DEF HeapInv, HeapOrdered
      <4> QED BY <2>3, <3>1, <3>3, <4>1
    <3> QED BY <3>2, <3>3
  <2>7. AroundHole'
    <3> SUFFICES ASSUME NEW i \in 2 .. Len(heap), i \div 2 = parent
                 PROVE  /\ parent > 1 => rank[heap'[parent \div 2]] <= rank[heap'[i]]
                        /\ rank[moving] <= rank[heap'[i]]
      BY <2>3, <2>4 DEF AroundHole
    <3>1. parent # hole BY <2>2
    <3>2. parent > 1 => parent \div 2 \in 1 .. Len(heap) /\ parent \div 2 # hole /\ parent \div 2 # parent
                        /\ rank[heap[parent \div 2]] <= rank[heap[parent]]
      <4> SUFFICES ASSUME parent > 1
                   PROVE  /\ parent \div 2 \in 1 .. Len(heap) /\ parent \div 2 # hole /\ parent \div 2 # parent
                          /\ rank[heap[parent \div 2]] <= rank[heap[parent]]
        OBVIOUS
      <4>1. parent \in 2 .. Len(heap) /\ parent \div 2 \in 1 .. Len(heap) /\ parent \div 2 < parent
        BY <1>1, <2>2
      <4>2. parent \div 2 # hole /\ parent # hole BY <1>1, <2>2, <4>1
      <4> HIDE DEF parent
      <4> QED BY <1>1, <2>2, <4>1, <4>2 DEF HeapInv, HeapOrdered
    <3>3. CASE i = hole
      <4> HIDE DEF parent
      <4>1. heap'[i] = heap[parent] BY <2>3, <3>3
      <4>2. parent > 1 => heap'[parent \div 2] = heap[parent \div 2] BY <2>3, <3>2
      <4> QED BY <2>5, <3>2, <4>1, <4>2
    <3>4. CASE i # hole
      <4>1. rank[heap[parent]] <= rank[heap[i]] BY <2>2, <3>1, <3>4 DEF HeapInv, HeapOrdered
      <4> HIDE DEF parent
      <4>2. heap'[i] = heap[i] BY <2>3, <3>4
      <4>3. parent > 1 => heap'[parent \div 2] = heap[parent \div 2] BY <2>3, <3>2
      <4>4. rank[heap[i]] \in Int /\ rank[heap[parent]] \in Int /\ (parent > 1 => rank[heap[parent \div 2]] \in Int)
        BY <1>2, <2>2, <3>2
      <4>5. parent > 1 => rank[heap[parent \div 2]] <= rank[heap[i]] BY <3>2, <4>1, <4>4
      <4>6. rank[moving] <= rank[heap[i]] BY <1>3, <2>5, <4>1, <4>4
      <4> QED BY <4>2, <4>3, <4>5, <4>6
    <3> QED BY <3>3, <3>4
  <2>8. NotAbove' BY <2>4 DEF NotAbove
  <2> QED BY <2>3, <2>6, <2>7, <2>8 DEF HeapInv
<1> QED BY <1>4, <1>5

LEMMA SiftDownKeeps == HeapInv /\ Heap!SiftDown => HeapInv'
<1> SUFFICES ASSUME HeapInv, Heap!SiftDown PROVE HeapInv' OBVIOUS
<1>1. op = "pop" /\ UNCHANGED heapContent /\ hole \in 1 .. Len(heap) /\ Len(heap) \in Nat
      /\ heap \in Seq(Items) /\ moving \in Items
  BY LenProperties DEF HeapInv, Heap!TypeOK, Heap!SiftDown
<1>2. ASSUME NEW i \in 1 .. Len(heap) PROVE rank[heap[i]] \in Int
  BY <1>1, RankAssumption, ElementOfSeq
<1>3. rank[moving] \in Int BY <1>1, RankAssumption
<1>4. hole > 1 => rank[heap[hole \div 2]] <= rank[moving] BY <1>1 DEF HeapInv, NotAbove
<1>5. ASSUME 2 * hole <= Len(heap)
      PROVE  /\ Heap!Child \in 2 .. Len(heap) /\ Heap!Child \div 2 = hole /\ Heap!Child # hole /\ Heap!Child > 1
             /\ \A i \in 2 .. Len(heap) : i \div 2 = hole => rank[heap[Heap!Child]] <= rank[heap[i]]
  <2>1. Heap!Child \in 2 .. Len(heap) /\ Heap!Child \div 2 = hole /\ Heap!Child # hole /\ Heap!Child > 1
    BY <1>1, <1>5 DEF Heap!Child
  <2>2. ASSUME NEW i \in 2 .. Len(heap), i \div 2 = hole PROVE rank[heap[Heap!Child]] <= rank[heap[i]]
    <3>1. i = 2 * hole \/ i = 2 * hole + 1 BY <1>1, <2>2
    <3>2. rank[heap[2 * hole]] \in Int BY <1>1, <1>2, <1>5
    <3>3. 2 * hole + 1 <= Len(heap) => rank[heap[2 * hole + 1]] \in Int BY <1>1, <1>2, <1>5
    <3> QED BY <1>1, <3>1, <3>2, <3>3 DEF Heap!Child, Heap!compareFunc
  <2> QED BY <2>1, <2>2
<1>6. CASE 2 * hole > Len(heap) \/ ~Heap!compareFunc(moving, heap[Heap!Child])
  <2>1. Heap!Fill BY <1>6 DEF Heap!SiftDown
  <2>2. ASSUME NEW i \in 2 .. Len(heap), i \div 2 = hole PROVE rank[moving] <= rank[heap[i]]
    <3>1. 2 * hole <= Len(heap) BY <1>1, <2>2
    <3>2. Heap!Child \in 2 .. Len(heap) /\ rank[heap[Heap!Child]] <= rank[heap[i]] BY <1>5, <2>2, <3>1
    <3>3. rank[heap[Heap!Child]] \in Int /\ rank[heap[i]] \in Int BY <1>2, <3>2
    <3>4. rank[moving] <= rank[heap[Heap!Child]] BY <1>1, <1>3, <1>6, <3>1, <3>3 DEF Heap!compareFunc
    <3> QED BY <1>3, <3>2, <3>3, <3>4
  <2> QED BY <1>1, <1>4, <2>1, <2>2, FillKeeps
<1>7. CASE ~(2 * hole > Len(heap) \/ ~Heap!compareFunc(moving, heap[Heap!Child]))
  <2>1. Heap!MoveHole(Heap!Child) /\ 2 * hole <= Len(heap) BY <1>1, <1>7 DEF Heap!SiftDown
  <2> DEFINE c == Heap!Child
  <2>2. /\ c \in 2 .. Len(heap) /\ c \div 2 = hole /\ c # hole /\ c > 1
        /\ \A i \in 2 .. Len(heap) : i \div 2 = hole => rank[heap[c]] <= rank[heap[i]]
    BY <1>5, <2>1
  <2>3. /\ Heap!TypeOK' /\ Counted' /\ Len(heap') = Len(heap)
        /\ \A i \in 1 .. Len(heap) : heap'[i] = IF i = hole THEN heap[c] ELSE heap[i]
    BY <1>1, <2>1, <2>2, MoveKeepsCounted
  <2>4. hole' = c /\ op' = "pop" /\ moving' = moving BY <1>1, <2>1 DEF Heap!MoveHole
  <2>5. rank[heap[c]] <= rank[moving] BY <1>2, <1>3, <1>7, <2>2 DEF Heap!compareFunc
  <2> HIDE DEF c
  <2>6. HeapOrdered'
    <3> SUFFICES ASSUME NEW i \in 2 .. Len(heap), i # c, i \div 2 # c
                 PROVE  rank[heap'[i \div 2]] <= rank[heap'[i]]
      BY <2>3, <2>4 DEF HeapOrdered
    <3>1. i \div 2 \in 1 .. Len(heap) /\ i \div 2 # i BY <1>1
    <3>2. CASE i \div 2 = hole BY <2>2, <2>3, <3>1, <3>2
    <3>3. CASE i = hole
      <4>1. c \in 2 .. Len(heap) /\ c \div 2 = hole /\ hole > 1 BY <2>2, <3>3
      <4>2. rank[heap[hole \div 2]] <= rank[heap[c]] BY <4>1 DEF HeapInv, AroundHole
      <4> QED BY <2>3, <3>1, <3>3, <4>2
    <3>4. CASE i # hole /\ i \div 2 # hole
      <4>1. rank[heap[i \div 2]] <= rank[heap[i]] BY <3>4 DEF HeapInv, HeapOrdered
      <4> QED BY <2>3, <3>1, <3>4, <4>1
    <3> QED BY <3>2, <3>3, <3>4
  <2>7. AroundHole'
    <3> SUFFICES ASSUME NEW i \in 2 .. Len(heap), i \div 2 = c
                 PROVE  rank[heap'[c \div 2]] <= rank[heap'[i]]
      BY <2>3, <2>4 DEF AroundHole
    <3>1. i # hole /\ i \div 2 # hole /\ hole # c BY <1>1, <2>2
    <3>2. rank[heap[c]] <= rank[heap[i]] BY <3>1 DEF HeapInv, HeapOrdered
    <3>3. heap'[hole] = heap[c] /\ heap'[i] = heap[i] BY <1>1, <2>3, <3>1
    <3> QED BY <2>2, <3>2, <3>3
  <2>8. NotAbove'
    <3>1. heap'[hole] = heap[c] BY <1>1, <2>3
    <3> QED BY <2>2, <2>4, <2>5, <3>1 DEF NotAbove
  <2> QED BY <2>3, <2>6, <2>7, <2>8 DEF HeapInv
<1> QED BY <1>6, <1>7

LEMMA PushKeeps == ASSUME HeapInv, NEW x \in Items, Heap!Push(x) PROVE HeapInv'
<1> DEFINE n == Len(heap)
<1>1. heap \in Seq(Items) /\ n \in Nat /\ n < MaxLength /\ op = "none" /\ hole = 0
      /\ heapContent \in [Items -> Nat]
  BY LenProperties DEF HeapInv, Heap!TypeOK, Heap!Push
<1>2. /\ heap' \in Seq(Items) /\ Len(heap') = n + 1
      /\ (\A i \in 1 .. n : heap'[i] = heap[i]) /\ heap'[n + 1] = x
  BY <1>1, AppendProperties DEF Heap!Push
<1>3. op' = "push" /\ hole' = n + 1 /\ moving' = x /\ heapContent' = [heapContent EXCEPT ![x] = @ + 1]
  BY DEF Heap!Push
<1>4. Heap!TypeOK' BY <1>1, <1>2, <1>3, LengthAssumption DEF Heap!TypeOK
<1>5. HeapOrdered'
  <2> SUFFICES ASSUME NEW i \in 2 .. n + 1, i # n + 1, i \div 2 # n + 1
               PROVE  rank[heap'[i \div 2]] <= rank[heap'[i]]
    BY <1>2, <1>3 DEF HeapOrdered
  <2>1. i \in 2 .. n /\ i \div 2 \in 1 .. n /\ i # hole /\ i \div 2 # hole BY <1>1
  <2> QED BY <1>2, <2>1 DEF HeapInv, HeapOrdered
<1>6. AroundHole'
  <2>1. \A i \in 2 .. n + 1 : i \div 2 # n + 1 BY <1>1
  <2> QED BY <1>2, <1>3, <2>1 DEF AroundHole
<1>7. NotAbove' BY <1>3 DEF NotAbove
<1>8. Counted'
  <2> SUFFICES ASSUME NEW y \in Items
               PROVE  Cardinality(Copies(Heap!Filled', n + 1, y)) = heapContent'[y]
    BY <1>2 DEF Counted
  <2> DEFINE f == Heap!Filled
             g == Heap!Filled'
  <2>1. (\A i \in 1 .. n : g[i] = f[i]) /\ g[n + 1] = x
    BY <1>1, <1>2, <1>3 DEF Heap!Filled
  <2>3. Cardinality(Copies(f, n, y)) = heapContent[y] BY DEF HeapInv, Counted
  <2> DEFINE m == n + 1
  <2>2. m = n + 1 /\ g[m] = x BY <2>1
  <2> HIDE DEF f, g, n, m
  <2>4. Cardinality(Copies(g, m, y)) = Cardinality(Copies(f, n, y)) + (IF g[m] = y THEN 1 ELSE 0)
    BY <1>1, <2>1, <2>2, LongerCopies
  <2>5. heapContent[y] \in Nat /\ heapContent'[y] = heapContent[y] + (IF x = y THEN 1 ELSE 0)
    BY <1>1, <1>3
  <2>6. Cardinality(Copies(g, m, y)) = heapContent'[y] BY <2>2, <2>3, <2>4, <2>5
  <2> QED BY <2>6 DEF g, m
<1> QED BY <1>4, <1>5, <1>6, <1>7, <1>8 DEF HeapInv

LEMMA HeapCardinality == \A S : Heap!Cardinality(S) = Cardinality(S)
BY DEF Heap!Cardinality, Cardinality

LEMMA PopKeeps == HeapInv /\ Heap!Pop => HeapInv'
<1> SUFFICES ASSUME HeapInv, Heap!Pop PROVE HeapInv' OBVIOUS
<1> DEFINE n == Len(heap)
<1>1. heap \in Seq(Items) /\ n \in Nat /\ n <= MaxLength /\ op = "none" /\ hole = 0 /\ n > 0
      /\ heap[1] \in Items /\ heap[n] \in Items /\ heapContent \in [Items -> Nat] /\ moving = NULL
  BY LenProperties, EmptySeq, ElementOfSeq DEF HeapInv, Heap!TypeOK, Heap!Pop
<1>2. /\ heap' \in Seq(Items) /\ Len(heap') = n - 1
      /\ \A i \in 1 .. n - 1 : heap'[i] = heap[i]
  BY <1>1, FrontShape DEF Heap!Pop, Front
<1>3. heapContent' = [heapContent EXCEPT ![heap[1]] = @ - 1] BY DEF Heap!Pop
<1>4. IF n = 1 THEN op' = "none" /\ hole' = 0 /\ moving' = NULL
      ELSE op' = "pop" /\ hole' = 1 /\ moving' = heap[n]
  BY <1>1 DEF Heap!Pop
<1>5. \A y \in Items : Cardinality(Copies(Heap!Filled, n, y)) = heapContent[y] BY DEF HeapInv, Counted
<1>6. \A i \in 1 .. n : Heap!Filled[i] = heap[i] BY <1>1 DEF Heap!Filled
<1>7. \A y \in Items : Cardinality(Copies(Heap!Filled', n - 1, y)) = heapContent'[y] /\ heapContent'[y] \in Nat
  <2> SUFFICES ASSUME NEW y \in Items
               PROVE  Cardinality(Copies(Heap!Filled', n - 1, y)) = heapContent'[y] /\ heapContent'[y] \in Nat
    OBVIOUS
  <2> DEFINE f == Heap!Filled
             h == Heap!Filled'
             m == n - 1
  <2>1. n = m + 1 /\ m \in Nat /\ f[1] = heap[1] BY <1>1, <1>6
  <2>2. \A i \in 1 .. m : h[i] = IF i = 1 THEN f[n] ELSE f[i]
    <3>1. CASE n = 1 BY <1>1, <3>1
    <3>2. CASE n # 1
      <4>1. n \in 1 .. n /\ \A i \in 1 .. m : i \in 1 .. n /\ i \in 1 .. Len(heap') BY <1>1, <1>2
      <4>2. \A i \in 1 .. m : h[i] = IF i = 1 THEN heap[n] ELSE heap'[i]
        BY <1>4, <3>2, <4>1 DEF Heap!Filled
      <4> QED BY <1>2, <1>6, <4>1, <4>2
    <3> QED BY <3>1, <3>2
  <2>3. Cardinality(Copies(f, n, y)) = heapContent[y] BY <1>5
  <2> HIDE DEF f, h, m, n
  <2>4. Cardinality(Copies(f, n, y)) = Cardinality(Copies(h, m, y)) + (IF f[1] = y THEN 1 ELSE 0)
    BY <1>1, <2>1, <2>2, FirstTaken
  <2>5. Cardinality(Copies(h, m, y)) \in Nat BY <2>1, CopiesFinite
  <2>6. Cardinality(Copies(h, m, y)) = heapContent'[y] /\ heapContent'[y] \in Nat
    <3> DEFINE before == Cardinality(Copies(f, n, y))
               after == Cardinality(Copies(h, m, y))
    <3>1. heapContent'[y] = IF heap[1] = y THEN heapContent[y] - 1 ELSE heapContent[y]
      BY <1>1, <1>3
    <3>2. before = heapContent[y] /\ after \in Nat /\ before = after + (IF heap[1] = y THEN 1 ELSE 0)
      BY <2>1, <2>3, <2>4, <2>5
    <3> HIDE DEF before, after
    <3>3. after = heapContent'[y] BY <3>1, <3>2
    <3> QED BY <3>2, <3>3 DEF after
  <2> QED BY <2>6 DEF h, m
<1>8. Counted' BY <1>2, <1>7 DEF Counted
<1>9. Heap!TypeOK'
  <2>1. heapContent' \in [Items -> Nat] BY <1>1, <1>3, <1>7
  <2>2. Len(heap') <= MaxLength BY <1>1, <1>2, LengthAssumption
  <2>3. n = 1 \/ (n > 1 /\ 1 \in 1 .. n - 1)
    <3> HIDE DEF n
    <3> QED BY <1>1
  <2> QED BY <1>1, <1>2, <1>4, <2>1, <2>2, <2>3 DEF Heap!TypeOK
<1>10. ASSUME NEW i \in 2 .. n - 1
       PROVE  i \div 2 \in 1 .. n - 1 /\ rank[heap'[i \div 2]] <= rank[heap'[i]]
  <2>1. i \in 2 .. n /\ i \div 2 \in 1 .. n - 1 /\ i \in 1 .. n - 1 /\ i # hole /\ i \div 2 # hole
    BY <1>1
  <2>2. rank[heap[i \div 2]] <= rank[heap[i]] BY <2>1 DEF HeapInv, HeapOrdered
  <2> QED BY <1>2, <2>1, <2>2
<1>12. HeapOrdered' BY <1>2, <1>10 DEF HeapOrdered
<1>13. AroundHole'
  <2>1. ~(hole' > 1) /\ op' # "push" BY <1>4
  <2> QED BY <2>1 DEF AroundHole
<1>11. NotAbove' BY <1>1, <1>4 DEF NotAbove
<1> QED BY <1>8, <1>9, <1>11, <1>12, <1>13 DEF HeapInv

LEMMA HeapStep == HeapInv /\ [Heap!Next]_(Heap!vars) => HeapInv'
<1> SUFFICES ASSUME HeapInv, [Heap!Next]_(Heap!vars) PROVE HeapInv' OBVIOUS
<1>1. CASE UNCHANGED Heap!vars
  BY <1>1 DEF Heap!vars, HeapInv, Heap!TypeOK, HeapOrdered, AroundHole, NotAbove, Counted, Heap!Filled
<1> QED BY <1>1, PopKeeps, PushKeeps, SiftUpKeeps, SiftDownKeeps DEF Heap!Next

(* No item goes in front of the first one.                                 *)
LEMMA FirstIsLeast ==
    ASSUME HeapInv, op = "none", NEW i \in 1 .. Len(heap)
    PROVE  rank[heap[1]] <= rank[heap[i]]
<1>1. heap \in Seq(Items) /\ Len(heap) \in Nat /\ hole = 0 BY LenProperties DEF HeapInv, Heap!TypeOK
<1>2. \A j \in 1 .. Len(heap) : rank[heap[j]] \in Int BY <1>1, RankAssumption, ElementOfSeq
<1> DEFINE Above == {j \in 1 .. Len(heap) : ~(rank[heap[1]] <= rank[heap[j]])}
<1>3. ASSUME Above # {} PROVE FALSE
  <2>1. Above \subseteq Nat BY <1>1
  <2>2. PICK j \in Above : \A m \in Above : j <= m
    <3> HIDE DEF Above
    <3> QED BY <1>3, <2>1, LeastNatural
  <2>3. j \in 1 .. Len(heap) /\ j # 1 BY <1>2
  <2>4. j \in 2 .. Len(heap) /\ j \div 2 \in 1 .. Len(heap) /\ j \div 2 < j /\ j # hole /\ j \div 2 # hole
    BY <1>1, <2>3
  <2>5. rank[heap[j \div 2]] <= rank[heap[j]] BY <2>4 DEF HeapInv, HeapOrdered
  <2>6. 1 \in 1 .. Len(heap) BY <1>1, <2>3
  <2>7. j \div 2 \in Above
    <3>1. ~(rank[heap[1]] <= rank[heap[j]]) OBVIOUS
    <3>2. rank[heap[1]] \in Int /\ rank[heap[j]] \in Int /\ rank[heap[j \div 2]] \in Int
      BY <1>2, <2>3, <2>4, <2>6
    <3>3. ~(rank[heap[1]] <= rank[heap[j \div 2]]) BY <2>5, <3>1, <3>2
    <3> QED BY <2>4, <3>3
  <2>8. \A m \in 1 .. Len(heap) : m < j => m \notin Above BY <1>1, <2>2, <2>3
  <2> HIDE DEF Above
  <2> QED BY <2>4, <2>7, <2>8
<1> QED BY <1>3

(* push() and pop(), for any items and any order of them: what was pushed  *)
(* and not popped is in the array or on its way there, and when no call is *)
(* under way no item goes in front of the one that top() gives.            *)
THEOREM HeapTopIsLeast == Heap!Spec => []TopIsLeast
<1>1. HeapInv => Heap!TopIsLeast
  <2> SUFFICES ASSUME HeapInv PROVE Heap!TopIsLeast OBVIOUS
  <2>1. heap \in Seq(Items) /\ Len(heap) \in Nat /\ DOMAIN heap = 1 .. Len(heap) BY LenProperties DEF HeapInv, Heap!TypeOK
  <2>2. \A x \in Items : Cardinality({i \in 1 .. Len(heap) : Heap!Filled[i] = x}) = heapContent[x]
    BY DEF HeapInv, Counted, Copies
  <2>3. ASSUME op = "none", NEW i \in 2 .. Len(heap) PROVE ~Heap!compareFunc(heap[i \div 2], heap[i])
    <3>1. hole = 0 /\ i # hole /\ i \div 2 # hole /\ i \in 1 .. Len(heap) /\ i \div 2 \in 1 .. Len(heap)
      BY <2>1, <2>3 DEF HeapInv, Heap!TypeOK
    <3>2. rank[heap[i \div 2]] <= rank[heap[i]] BY <3>1 DEF HeapInv, HeapOrdered
    <3>3. rank[heap[i \div 2]] \in Int /\ rank[heap[i]] \in Int
      BY <2>1, <3>1, RankAssumption, ElementOfSeq
    <3> QED BY <3>2, <3>3 DEF Heap!compareFunc
  <2>4. ASSUME op = "none", heap # <<>>, NEW x \in Items, heapContent[x] > 0 PROVE ~Heap!compareFunc(heap[1], x)
    <3>1. ASSUME Copies(Heap!Filled, Len(heap), x) = {} PROVE FALSE
      <4>1. Cardinality(Copies(Heap!Filled, Len(heap), x)) = heapContent[x] BY DEF HeapInv, Counted
      <4> QED BY <2>4, <3>1, <4>1, FS_EmptySet
    <3>2. PICK i \in 1 .. Len(heap) : Heap!Filled[i] = x BY <3>1 DEF Copies
    <3>3. heap[i] = x BY <2>4, <3>2 DEF Heap!Filled, HeapInv, Heap!TypeOK
    <3>4. rank[heap[1]] <= rank[x] BY <2>4, <3>3, FirstIsLeast
    <3>5. rank[heap[1]] \in Int /\ rank[x] \in Int
      <4>1. 1 \in 1 .. Len(heap) BY <2>1, <3>2
      <4> QED BY <2>1, <4>1, RankAssumption, ElementOfSeq
    <3> QED BY <3>4, <3>5 DEF Heap!compareFunc
  <2> QED BY <2>2, <2>3, <2>4, HeapCardinality DEF Heap!TopIsLeast
<1>2. Heap!Spec => []HeapInv BY HeapStart, HeapStep, PTL DEF Heap!Spec
<1> QED BY <1>1, <1>2, PTL DEF TopIsLeast
-----------------------------------------------------------------------------
(* ASlice.                                                                 *)
Chunks == Pages \X (1 .. PageSize)
Magazine == [chunks : SUBSET Chunks, count : Nat]

SliceShape ==
    /\ slabs \in Seq(Pages)
    /\ chunks \in [Pages -> SUBSET Chunks] /\ n_allocated \in [Pages -> Int]
    /\ cache \in Seq(Magazine)
    /\ magazine1 \in [Threads -> Magazine] /\ magazine2 \in [Threads -> Magazine]
    /\ inUse \subseteq Chunks
    /\ slicePc \in [Threads -> {"idle", "reload", "slab", "unload", "trash", "trash1", "trash2",
                                "exit1", "exit2"}]
    /\ mem \in [Threads -> Chunks \cup {NULL}]
    /\ transit \in [Threads -> SUBSET Chunks]
    /\ slab_mutex \in Threads \cup {NULL}
    /\ threshold \in [Threads -> Nat] /\ taken \in [Threads -> Nat]

(* What a thread has in its hands in each phase of a call.                 *)
Phase(t) ==
    /\ slicePc[t] \in {"reload", "slab"} => magazine1[t].chunks = {}
    /\ slicePc[t] \notin {"slab", "trash", "trash1", "trash2"} => transit[t] = {}
    /\ IF slicePc[t] = "slab" THEN taken[t] = Cardinality(transit[t]) ELSE taken[t] = 0
    /\ IF slicePc[t] = "unload" THEN mem[t] \in Chunks /\ magazine2[t].count >= MinMagazineSize
       ELSE mem[t] = NULL
Phases == \A t \in Threads : Phase(t)

Page(p) == IF p \in Slice!Ring
           THEN /\ Cardinality(chunks[p]) = PageSize - n_allocated[p]
                /\ chunks[p] \cup {c \in Slice!Outside : c[1] = p} = {p} \X (1 .. PageSize)
                /\ chunks[p] \cap Slice!Outside = {}
           ELSE /\ chunks[p] = {} /\ n_allocated[p] = 0
                /\ \A c \in Slice!Outside : c[1] # p

SlabInv == /\ \A p \in Pages : Page(p)
           /\ \A j, k \in 1 .. Len(slabs) : slabs[j] = slabs[k] => j = k
           /\ Slice!RingSorted

Exact(m) == m.count = Cardinality(m.chunks)
Counts == /\ \A t \in Threads : Exact(magazine1[t]) /\ Exact(magazine2[t])
          /\ \A k \in 1 .. Len(cache) : Exact(cache[k]) /\ cache[k].count >= MinMagazineSize

SliceInv == SliceShape /\ Phases /\ Slice!OnePlace /\ SlabInv /\ Counts

-----------------------------------------------------------------------------
LEMMA SliceCardinality == \A S : Slice!Cardinality(S) = Cardinality(S)
BY DEF Slice!Cardinality, Cardinality

LEMMA ChunksFinite ==
    ASSUME NEW S \in SUBSET Chunks
    PROVE  IsFiniteSet(S) /\ Cardinality(S) \in Nat /\ (Cardinality(S) = 0 <=> S = {})
<1>1. IsFiniteSet(1 .. PageSize) BY PagesAssumption, FS_Interval
<1>2. IsFiniteSet(Chunks) BY <1>1, PagesAssumption, FS_Product DEF Chunks
<1> QED BY <1>2, FS_Subset, FS_CardinalityType, FS_EmptySet

LEMMA OneChunk ==
    ASSUME NEW S \in SUBSET Chunks, NEW c \in Chunks
    PROVE  /\ c \in S => Cardinality(S \ {c}) = Cardinality(S) - 1
           /\ c \notin S => Cardinality(S \cup {c}) = Cardinality(S) + 1
BY ChunksFinite, FS_AddElement, FS_RemoveElement

LEMMA NullIsNoChunk == NULL \notin Chunks
BY PagesAssumption DEF Chunks

(* The slabs, and what is outside, are as before.                          *)
LEMMA SlabsSame ==
    ASSUME SlabInv, UNCHANGED <<slabs, chunks, n_allocated>>, Slice!Outside' = Slice!Outside
    PROVE  SlabInv'
<1>1. Slice!Ring' = Slice!Ring BY DEF Slice!Ring
<1>2. \A p \in Pages : Page(p)' BY <1>1 DEF SlabInv, Page
<1> QED BY <1>2 DEF SlabInv, Slice!RingSorted

(* Chunks move between a thread, the program and the cache.                *)
LEMMA Moves ==
    ASSUME SliceInv, NEW t \in Threads,
           \A u \in Threads \ {t} : /\ magazine1'[u] = magazine1[u] /\ magazine2'[u] = magazine2[u]
                                    /\ transit'[u] = transit[u] /\ mem'[u] = mem[u],
           Slice!Own(t)' \cup inUse' \cup Slice!Cached' = Slice!Own(t) \cup inUse \cup Slice!Cached,
           Slice!OwnApart(t)', inUse' \cap Slice!Cached' = {}, Slice!CacheApart'
    PROVE  Slice!OnePlace' /\ Slice!Outside' = Slice!Outside
<1>1. ASSUME NEW u \in Threads \ {t} PROVE Slice!Own(u)' = Slice!Own(u) BY DEF Slice!Own
<1>2. \A u, v \in Threads : u # v => Slice!Own(u) \cap Slice!Own(v) = {}
  BY DEF SliceInv, Slice!OnePlace
<1>3. \A u \in Threads : Slice!Own(u) \cap (inUse \cup Slice!Cached) = {}
  BY DEF SliceInv, Slice!OnePlace, Slice!OwnApart
<1>4. ASSUME NEW u \in Threads PROVE Slice!OwnApart(u)'
  <2>1. CASE u = t BY <2>1
  <2>2. CASE u # t
    <3>1. Slice!Own(u)' \cap (inUse' \cup Slice!Cached') = {} BY <1>1, <1>2, <1>3, <2>2
    <3>2. Slice!OwnApart(u) BY DEF SliceInv, Slice!OnePlace
    <3> QED BY <2>2, <3>1, <3>2 DEF Slice!OwnApart
  <2> QED BY <2>1, <2>2
<1>5. ASSUME NEW u \in Threads, NEW v \in Threads, u # v
      PROVE  Slice!Own(u)' \cap Slice!Own(v)' = {}
  <2>1. Slice!Own(t)' \subseteq Slice!Own(t) \cup inUse \cup Slice!Cached OBVIOUS
  <2>2. CASE u # t /\ v # t BY <1>1, <1>2, <1>5, <2>2
  <2>3. CASE u = t \/ v = t BY <1>1, <1>2, <1>3, <1>5, <2>1, <2>3
  <2> QED BY <2>2, <2>3
<1>6. Slice!OnePlace' BY <1>4, <1>5 DEF Slice!OnePlace
<1>7. Slice!Outside' = Slice!Outside
  <2>1. ASSUME NEW c PROVE c \in Slice!Outside' <=> c \in Slice!Outside
    <3>1. c \in Slice!Outside' <=> \/ c \in Slice!Own(t)' \cup inUse' \cup Slice!Cached'
                                   \/ \E u \in Threads \ {t} : c \in Slice!Own(u)'
      BY DEF Slice!Outside
    <3>2. c \in Slice!Outside <=> \/ c \in Slice!Own(t) \cup inUse \cup Slice!Cached
                                  \/ \E u \in Threads \ {t} : c \in Slice!Own(u)
      BY DEF Slice!Outside
    <3> QED BY <1>1, <3>1, <3>2
  <2> QED BY <2>1
<1> QED BY <1>6, <1>7

(* The parts of the invariant, when only slabs are as before.              *)
LEMMA SliceParts ==
    ASSUME SliceInv, SliceShape', Phases', Slice!OnePlace', Counts',
           UNCHANGED <<slabs, chunks, n_allocated>>, Slice!Outside' = Slice!Outside
    PROVE  SliceInv'
BY SlabsSame DEF SliceInv

(* No chunk moves.                                                         *)
LEMMA NothingMoves ==
    ASSUME Slice!OnePlace, UNCHANGED <<cache, magazine1, magazine2, inUse, mem, transit>>
    PROVE  Slice!OnePlace' /\ Slice!Outside' = Slice!Outside
<1>1. Slice!Cached' = Slice!Cached BY DEF Slice!Cached
<1>2. \A u : Slice!Own(u)' = Slice!Own(u) BY DEF Slice!Own
<1>3. Slice!Outside' = Slice!Outside BY <1>1, <1>2 DEF Slice!Outside
<1>4. \A u \in Threads : Slice!OwnApart(u)' BY <1>1, <1>2 DEF Slice!OnePlace, Slice!OwnApart
<1>5. Slice!CacheApart' BY DEF Slice!OnePlace, Slice!CacheApart
<1> QED BY <1>1, <1>2, <1>3, <1>4, <1>5 DEF Slice!OnePlace

(* The cache is as before.                                                 *)
LEMMA CacheSame ==
    ASSUME SliceInv, UNCHANGED cache
    PROVE  Slice!Cached' = Slice!Cached /\ Slice!CacheApart'
BY DEF Slice!Cached, Slice!CacheApart, SliceInv, Slice!OnePlace

(* What the invariant says of one thread.                                  *)
LEMMA OfThread ==
    ASSUME SliceInv, NEW t \in Threads
    PROVE  /\ Phase(t) /\ Slice!OwnApart(t) /\ inUse \cap Slice!Cached = {}
           /\ Exact(magazine1[t]) /\ Exact(magazine2[t])
           /\ magazine1[t] \in Magazine /\ magazine2[t] \in Magazine
           /\ transit[t] \in SUBSET Chunks /\ taken[t] \in Nat /\ inUse \subseteq Chunks
           /\ mem[t] \in Chunks \cup {NULL}
BY DEF SliceInv, SliceShape, Phases, Slice!OnePlace, Counts

(* thread_memory_magazine1_alloc().                                        *)
LEMMA Taken ==
    ASSUME SliceInv, NEW t \in Threads, NEW m \in Magazine, Exact(m), Slice!TakeFrom(t, m)
    PROVE  \E c \in m.chunks, n \in Magazine :
              /\ inUse' = inUse \cup {c} /\ magazine1' = [magazine1 EXCEPT ![t] = n]
              /\ n.chunks = m.chunks \ {c} /\ Exact(n)
<1>1. PICK c \in m.chunks :
         /\ inUse' = inUse \cup {c}
         /\ magazine1' = [magazine1 EXCEPT ![t] = [chunks |-> m.chunks \ {c},
                                                   count |-> IF m.count > 0 THEN m.count - 1 ELSE 0]]
  BY DEF Slice!TakeFrom
<1> DEFINE n == [chunks |-> m.chunks \ {c}, count |-> IF m.count > 0 THEN m.count - 1 ELSE 0]
<1>2. m.chunks \in SUBSET Chunks /\ c \in Chunks /\ m.count \in Nat BY DEF Magazine
<1>3. Cardinality(m.chunks \ {c}) = Cardinality(m.chunks) - 1 BY <1>2, OneChunk
<1>4. Cardinality(m.chunks \ {c}) \in Nat BY <1>2, ChunksFinite
<1>5. m.count > 0 /\ m.count - 1 = Cardinality(m.chunks \ {c}) BY <1>2, <1>3, <1>4 DEF Exact
<1>6. n \in Magazine /\ Exact(n) BY <1>2, <1>4, <1>5 DEF Magazine, Exact
<1>7. n.chunks = m.chunks \ {c} OBVIOUS
<1> HIDE DEF n
<1> QED BY <1>1, <1>6, <1>7 DEF n

LEMMA NoChunksExact == Slice!NoChunks \in Magazine /\ Exact(Slice!NoChunks) /\ Slice!NoChunks.chunks = {}
BY FS_EmptySet DEF Slice!NoChunks, Magazine, Exact

(* Counts, after a step of one thread.                                     *)
LEMMA CountsAll ==
    ASSUME Counts, NEW t \in Threads,
           \A u \in Threads \ {t} : magazine1'[u] = magazine1[u] /\ magazine2'[u] = magazine2[u],
           Exact(magazine1'[t]), Exact(magazine2'[t]),
           \A k \in 1 .. Len(cache') : Exact(cache'[k]) /\ cache'[k].count >= MinMagazineSize
    PROVE  Counts'
<1>1. ASSUME NEW u \in Threads PROVE Exact(magazine1'[u]) /\ Exact(magazine2'[u])
  <2>1. CASE u = t BY <2>1
  <2>2. CASE u # t BY <2>2 DEF Counts
  <2> QED BY <2>1, <2>2
<1> QED BY <1>1 DEF Counts, Exact

LEMMA CountsAfter ==
    ASSUME Counts, NEW t \in Threads, UNCHANGED cache,
           \A u \in Threads \ {t} : magazine1'[u] = magazine1[u] /\ magazine2'[u] = magazine2[u],
           Exact(magazine1'[t]), Exact(magazine2'[t])
    PROVE  Counts'
<1>1. \A k \in 1 .. Len(cache') : Exact(cache'[k]) /\ cache'[k].count >= MinMagazineSize
  BY DEF Counts
<1> QED BY <1>1, CountsAll

LEMMA AllocKeeps == ASSUME SliceInv, NEW t \in Threads, Slice!Alloc(t) PROVE SliceInv'
<1> USE DEF Slice!Goto
<1>0. /\ SliceShape /\ Phases /\ Counts /\ slicePc[t] = "idle"
      /\ UNCHANGED <<slabs, chunks, n_allocated, slab_mutex, cache, mem, transit, threshold, taken>>
  BY DEF SliceInv, Slice!Alloc, Slice!slabVars, Slice!loopVars
<1>1. /\ Phase(t) /\ Slice!OwnApart(t) /\ inUse \cap Slice!Cached = {}
      /\ Exact(magazine1[t]) /\ Exact(magazine2[t])
      /\ magazine1[t] \in Magazine /\ magazine2[t] \in Magazine /\ inUse \subseteq Chunks
      /\ transit[t] = {} /\ mem[t] = NULL /\ taken[t] = 0
  BY <1>0, OfThread DEF Phase
<1>2. Slice!Cached' = Slice!Cached /\ Slice!CacheApart' BY <1>0, CacheSame
<1>3. magazine1[t].chunks \in SUBSET Chunks /\ magazine2[t].chunks \in SUBSET Chunks
  BY <1>1 DEF Magazine
<1>4. ASSUME NEW from \in {magazine1[t], magazine2[t]}, NEW other \in {magazine1[t], magazine2[t]},
             {from, other} = {magazine1[t], magazine2[t]}, from.chunks \cap other.chunks = {},
             from = magazine1[t] \/ magazine1[t].chunks = {},
             Slice!TakeFrom(t, from), magazine2' = [magazine2 EXCEPT ![t] = other], UNCHANGED slicePc
      PROVE  SliceInv'
  <2>1. PICK c \in from.chunks, n \in Magazine :
           /\ inUse' = inUse \cup {c} /\ magazine1' = [magazine1 EXCEPT ![t] = n]
           /\ n.chunks = from.chunks \ {c} /\ Exact(n)
    BY <1>1, <1>4, Taken
  <2>2. /\ magazine1'[t] = n /\ magazine2'[t] = other /\ transit'[t] = {} /\ mem'[t] = NULL
        /\ \A u \in Threads \ {t} : magazine1'[u] = magazine1[u] /\ magazine2'[u] = magazine2[u]
    BY <1>0, <1>1, <1>4, <2>1 DEF SliceShape
  <2>3. SliceShape' BY <1>0, <1>1, <1>3, <1>4, <2>1 DEF SliceShape
  <2>4. Phases'
    <3>1. ASSUME NEW u \in Threads PROVE Phase(u)' BY <1>0, <1>4, <2>2 DEF Phases, Phase
    <3> QED BY <3>1 DEF Phases
  <2>5. Counts' BY <1>0, <1>1, <1>4, <2>1, <2>2, CountsAfter
  <2>6. /\ Slice!Own(t) = from.chunks \cup other.chunks
        /\ Slice!Own(t)' = (from.chunks \ {c}) \cup other.chunks
    BY <1>1, <1>4, <2>1, <2>2 DEF Slice!Own
  <2>7. Slice!Own(t) \cap (inUse \cup Slice!Cached) = {} BY <1>1 DEF Slice!OwnApart
  <2>8. Slice!OwnApart(t)'
    <3>1. NULL \notin from.chunks \cup other.chunks BY <1>3, <1>4, NullIsNoChunk
    <3> QED BY <1>2, <1>4, <2>1, <2>2, <2>6, <2>7, <3>1 DEF Slice!OwnApart
  <2>9. Slice!OnePlace' /\ Slice!Outside' = Slice!Outside
    <3>1. \A u \in Threads \ {t} : transit'[u] = transit[u] /\ mem'[u] = mem[u] BY <1>0
    <3>2. inUse' \cap Slice!Cached' = {} BY <1>1, <1>2, <2>1, <2>6, <2>7
    <3>3. Slice!Own(t)' \cup inUse' \cup Slice!Cached' = Slice!Own(t) \cup inUse \cup Slice!Cached
      BY <1>2, <2>1, <2>6
    <3> QED BY <1>2, <2>2, <2>8, <3>1, <3>2, <3>3, Moves
  <2> QED BY <1>0, <2>3, <2>4, <2>5, <2>9, SliceParts
<1>5. CASE magazine1[t].chunks # {}
  <2>1. Slice!TakeFrom(t, magazine1[t]) /\ UNCHANGED <<magazine2, slicePc>>
    BY <1>5 DEF Slice!Alloc
  <2>2. magazine2' = [magazine2 EXCEPT ![t] = magazine2[t]] BY <1>0, <2>1 DEF SliceShape
  <2> QED BY <1>1, <1>4, <2>1, <2>2 DEF Slice!OwnApart
<1>6. CASE magazine1[t].chunks = {} /\ magazine2[t].chunks # {}
  <2>1. /\ Slice!TakeFrom(t, magazine2[t]) /\ UNCHANGED slicePc
        /\ magazine2' = [magazine2 EXCEPT ![t] = magazine1[t]]
    BY <1>6 DEF Slice!Alloc
  <2> QED BY <1>1, <1>4, <1>6, <2>1 DEF Slice!OwnApart
<1>7. CASE magazine1[t].chunks = {} /\ magazine2[t].chunks = {}
  <2>1. /\ magazine2' = [magazine2 EXCEPT ![t] = magazine1[t]]
        /\ magazine1' = [magazine1 EXCEPT ![t] = Slice!NoChunks]
        /\ slicePc' = [slicePc EXCEPT ![t] = "reload"] /\ UNCHANGED inUse
    BY <1>7 DEF Slice!Alloc
  <2>2. /\ magazine1'[t] = Slice!NoChunks /\ magazine2'[t] = magazine1[t] /\ transit'[t] = {} /\ mem'[t] = NULL
        /\ slicePc'[t] = "reload" /\ taken'[t] = 0
        /\ \A u \in Threads \ {t} : /\ magazine1'[u] = magazine1[u] /\ magazine2'[u] = magazine2[u]
                                    /\ slicePc'[u] = slicePc[u] /\ transit'[u] = transit[u] /\ mem'[u] = mem[u]
    BY <1>0, <1>1, <2>1 DEF SliceShape
  <2>3. SliceShape' BY <1>0, <1>1, <2>1, NoChunksExact DEF SliceShape
  <2>4. Phases'
    <3>1. ASSUME NEW u \in Threads PROVE Phase(u)' BY <1>0, <2>2, NoChunksExact DEF Phases, Phase
    <3> QED BY <3>1 DEF Phases
  <2>5. Counts' BY <1>0, <1>1, <2>2, NoChunksExact, CountsAfter
  <2>6. Slice!Own(t) = {} /\ Slice!Own(t)' = {} BY <1>1, <1>7, <2>2, NoChunksExact DEF Slice!Own
  <2>7. Slice!OwnApart(t)' BY <1>7, <2>2, <2>6, NoChunksExact DEF Slice!OwnApart
  <2>8. Slice!OnePlace' /\ Slice!Outside' = Slice!Outside
    <3>1. inUse' \cap Slice!Cached' = {} BY <1>1, <1>2, <2>1
    <3>3. Slice!Own(t)' \cup inUse' \cup Slice!Cached' = Slice!Own(t) \cup inUse \cup Slice!Cached
      BY <1>2, <2>1, <2>6
    <3> QED BY <1>2, <2>2, <2>7, <3>1, <3>3, Moves
  <2> QED BY <1>0, <2>3, <2>4, <2>5, <2>8, SliceParts
<1> QED BY <1>5, <1>6, <1>7

(* The newest magazine leaves the cache.                                   *)
LEMMA PoppedMagazine ==
    ASSUME SliceInv, cache # <<>>, cache' = Tail(cache)
    PROVE  /\ Head(cache) \in Magazine /\ Exact(Head(cache)) /\ cache' \in Seq(Magazine)
           /\ Slice!Cached = Head(cache).chunks \cup Slice!Cached'
           /\ Head(cache).chunks \cap Slice!Cached' = {} /\ Slice!CacheApart'
           /\ \A k \in 1 .. Len(cache') : Exact(cache'[k]) /\ cache'[k].count >= MinMagazineSize
<1>1. /\ cache \in Seq(Magazine) /\ Counts /\ Slice!CacheApart
  BY DEF SliceInv, SliceShape, Slice!OnePlace
<1>2. /\ Len(cache) \in Nat /\ Len(cache) >= 1 /\ cache' \in Seq(Magazine)
      /\ Len(cache') = Len(cache) - 1 /\ Head(cache) = cache[1]
      /\ \A k \in 1 .. Len(cache') : k + 1 \in 1 .. Len(cache) /\ cache'[k] = cache[k + 1]
  BY <1>1
<1>3. \A k \in 2 .. Len(cache) : k - 1 \in 1 .. Len(cache') /\ cache[k] = cache'[k - 1]
  BY <1>1, <1>2
<1>4. 1 \in 1 .. Len(cache) /\ \A k \in 1 .. Len(cache) : k = 1 \/ k \in 2 .. Len(cache)
  BY <1>2
<1>5. ASSUME NEW c PROVE c \in Slice!Cached <=> c \in Head(cache).chunks \cup Slice!Cached'
  <2>1. c \in Slice!Cached <=> \E k \in 1 .. Len(cache) : c \in cache[k].chunks
    BY DEF Slice!Cached
  <2>2. c \in Slice!Cached' <=> \E k \in 1 .. Len(cache') : c \in cache'[k].chunks
    BY DEF Slice!Cached
  <2>3. ASSUME c \in Slice!Cached PROVE c \in Head(cache).chunks \cup Slice!Cached'
    BY <1>2, <1>3, <1>4, <2>1, <2>2, <2>3
  <2>4. ASSUME c \in Head(cache).chunks \cup Slice!Cached' PROVE c \in Slice!Cached
    BY <1>2, <1>4, <2>1, <2>2, <2>4
  <2> QED BY <2>3, <2>4
<1>6. \A k \in 1 .. Len(cache') : cache[1].chunks \cap cache'[k].chunks = {}
  <2>1. \A k \in 1 .. Len(cache') : k + 1 # 1 OBVIOUS
  <2> QED BY <1>1, <1>2, <1>4, <2>1 DEF Slice!CacheApart
<1>7. Slice!CacheApart'
  <2>1. \A j, k \in 1 .. Len(cache') : j # k => j + 1 # k + 1 OBVIOUS
  <2> QED BY <1>1, <1>2, <2>1 DEF Slice!CacheApart
<1>8. Head(cache) \in Magazine /\ Exact(Head(cache)) BY <1>1, <1>2, <1>4 DEF Counts
<1>9. \A k \in 1 .. Len(cache') : Exact(cache'[k]) /\ cache'[k].count >= MinMagazineSize
  BY <1>1, <1>2 DEF Counts
<1> QED BY <1>2, <1>5, <1>6, <1>7, <1>8, <1>9 DEF Slice!Cached

LEMMA PopMagazineKeeps == ASSUME SliceInv, NEW t \in Threads, Slice!PopMagazine(t) PROVE SliceInv'
<1> USE DEF Slice!Goto
<1>0. /\ SliceShape /\ Phases /\ Counts /\ slicePc[t] = "reload"
      /\ UNCHANGED <<slabs, chunks, n_allocated, slab_mutex, magazine2, mem, transit, taken>>
  BY DEF SliceInv, Slice!PopMagazine, Slice!slabVars
<1>1. /\ Phase(t) /\ Slice!OwnApart(t) /\ inUse \cap Slice!Cached = {}
      /\ Exact(magazine2[t]) /\ magazine2[t] \in Magazine /\ inUse \subseteq Chunks
      /\ magazine1[t].chunks = {} /\ transit[t] = {} /\ mem[t] = NULL /\ taken[t] = 0
  BY <1>0, OfThread DEF Phase
<1>2. CASE cache = <<>>
  <2>1. PICK n \in Thresholds : threshold' = [threshold EXCEPT ![t] = n]
    BY <1>2 DEF Slice!PopMagazine
  <2>2. slicePc' = [slicePc EXCEPT ![t] = "slab"] /\ UNCHANGED <<cache, magazine1, inUse>>
    BY <1>2 DEF Slice!PopMagazine
  <2>3. SliceShape' BY <1>0, <2>1, <2>2, MagazineAssumption DEF SliceShape
  <2>4. Phases'
    <3>1. slicePc'[t] = "slab" /\ \A u \in Threads \ {t} : slicePc'[u] = slicePc[u]
      BY <1>0, <2>2 DEF SliceShape
    <3>2. taken[t] = Cardinality(transit[t]) BY <1>1, FS_EmptySet
    <3>3. ASSUME NEW u \in Threads PROVE Phase(u)'
      BY <1>0, <1>1, <2>2, <3>1, <3>2 DEF Phases, Phase
    <3> QED BY <3>3 DEF Phases
  <2>5. Counts' BY <1>0, <2>2 DEF Counts, Exact
  <2>6. Slice!OnePlace' /\ Slice!Outside' = Slice!Outside
    BY <1>0, <2>2, NothingMoves DEF SliceInv
  <2> QED BY <1>0, <2>3, <2>4, <2>5, <2>6, SliceParts
<1>3. CASE cache # <<>>
  <2>0. /\ cache' = Tail(cache) /\ Slice!TakeFrom(t, Head(cache))
        /\ slicePc' = [slicePc EXCEPT ![t] = "idle"] /\ UNCHANGED threshold
    BY <1>3 DEF Slice!PopMagazine
  <2> DEFINE m == Head(cache)
  <2>1. /\ m \in Magazine /\ Exact(m) /\ cache' \in Seq(Magazine)
        /\ Slice!Cached = m.chunks \cup Slice!Cached'
        /\ m.chunks \cap Slice!Cached' = {} /\ Slice!CacheApart'
        /\ \A k \in 1 .. Len(cache') : Exact(cache'[k]) /\ cache'[k].count >= MinMagazineSize
    BY <1>3, <2>0, PoppedMagazine
  <2> HIDE DEF m
  <2>2. PICK c \in m.chunks, n \in Magazine :
           /\ inUse' = inUse \cup {c} /\ magazine1' = [magazine1 EXCEPT ![t] = n]
           /\ n.chunks = m.chunks \ {c} /\ Exact(n)
    BY <2>0, <2>1, Taken DEF m
  <2>3. /\ magazine1'[t] = n /\ slicePc'[t] = "idle"
        /\ \A u \in Threads \ {t} : magazine1'[u] = magazine1[u] /\ slicePc'[u] = slicePc[u]
    BY <1>0, <2>0, <2>2 DEF SliceShape
  <2>4. SliceShape'
    <3>1. m.chunks \in SUBSET Chunks BY <2>1 DEF Magazine
    <3> QED BY <1>0, <1>1, <2>0, <2>1, <2>2, <3>1 DEF SliceShape
  <2>5. Phases'
    <3>1. ASSUME NEW u \in Threads PROVE Phase(u)' BY <1>0, <1>1, <2>3 DEF Phases, Phase
    <3> QED BY <3>1 DEF Phases
  <2>6. Counts' BY <1>0, <1>1, <2>1, <2>2, <2>3, CountsAll
  <2>7. /\ Slice!Own(t) = magazine2[t].chunks
        /\ Slice!Own(t)' = (m.chunks \ {c}) \cup magazine2[t].chunks
    BY <1>0, <1>1, <2>2, <2>3 DEF Slice!Own
  <2>8. Slice!Own(t) \cap (inUse \cup Slice!Cached) = {} BY <1>1 DEF Slice!OwnApart
  <2>9. Slice!OwnApart(t)'
    <3>1. NULL \notin m.chunks \cup magazine2[t].chunks
      BY <1>1, <2>1, NullIsNoChunk DEF Magazine
    <3> QED BY <1>0, <1>1, <2>1, <2>2, <2>3, <2>7, <2>8, <3>1 DEF Slice!OwnApart
  <2>10. Slice!OnePlace' /\ Slice!Outside' = Slice!Outside
    <3>1. \A u \in Threads \ {t} :
             /\ magazine1'[u] = magazine1[u] /\ magazine2'[u] = magazine2[u]
             /\ transit'[u] = transit[u] /\ mem'[u] = mem[u]
      BY <1>0, <2>3
    <3>2. inUse' \cap Slice!Cached' = {} BY <1>1, <2>1, <2>2
    <3>3. Slice!Own(t)' \cup inUse' \cup Slice!Cached' = Slice!Own(t) \cup inUse \cup Slice!Cached
      BY <2>1, <2>2, <2>7
    <3> QED BY <2>1, <2>9, <3>1, <3>2, <3>3, Moves
  <2> QED BY <1>0, <2>4, <2>5, <2>6, <2>10, SliceParts
<1> QED BY <1>2, <1>3

LEMMA ReloadKeeps == ASSUME SliceInv, NEW t \in Threads, Slice!Reload(t) PROVE SliceInv'
<1> USE DEF Slice!Goto
<1> DEFINE m == [chunks |-> transit[t], count |-> taken[t]]
<1>0. /\ SliceShape /\ Phases /\ Counts /\ slicePc[t] = "slab" /\ slab_mutex' = NULL
      /\ Slice!TakeFrom(t, m) /\ transit' = [transit EXCEPT ![t] = {}]
      /\ threshold' = [threshold EXCEPT ![t] = 0] /\ taken' = [taken EXCEPT ![t] = 0]
      /\ slicePc' = [slicePc EXCEPT ![t] = "idle"]
      /\ UNCHANGED <<slabs, chunks, n_allocated, cache, magazine2, mem>>
  BY DEF SliceInv, Slice!Reload
<1>1. /\ Phase(t) /\ Slice!OwnApart(t) /\ inUse \cap Slice!Cached = {}
      /\ Exact(magazine2[t]) /\ magazine2[t] \in Magazine /\ inUse \subseteq Chunks
      /\ magazine1[t].chunks = {} /\ mem[t] = NULL /\ taken[t] = Cardinality(transit[t])
      /\ transit[t] \in SUBSET Chunks /\ taken[t] \in Nat
  BY <1>0, OfThread DEF Phase
<1>2. Slice!Cached' = Slice!Cached /\ Slice!CacheApart' BY <1>0, CacheSame
<1>3. m \in Magazine /\ Exact(m) /\ m.chunks = transit[t] BY <1>1 DEF Magazine, Exact
<1> HIDE DEF m
<1>4. PICK c \in transit[t], n \in Magazine :
         /\ inUse' = inUse \cup {c} /\ magazine1' = [magazine1 EXCEPT ![t] = n]
         /\ n.chunks = transit[t] \ {c} /\ Exact(n)
  BY <1>0, <1>3, Taken
<1>5. /\ magazine1'[t] = n /\ slicePc'[t] = "idle" /\ transit'[t] = {} /\ taken'[t] = 0
      /\ \A u \in Threads \ {t} : /\ magazine1'[u] = magazine1[u] /\ slicePc'[u] = slicePc[u]
                                  /\ transit'[u] = transit[u] /\ taken'[u] = taken[u]
  BY <1>0, <1>4 DEF SliceShape
<1>6. SliceShape' BY <1>0, <1>1, <1>4 DEF SliceShape
<1>7. Phases'
  <2>1. ASSUME NEW u \in Threads PROVE Phase(u)' BY <1>0, <1>1, <1>5 DEF Phases, Phase
  <2> QED BY <2>1 DEF Phases
<1>8. Counts' BY <1>0, <1>1, <1>4, <1>5, CountsAfter
<1>9. /\ Slice!Own(t) = transit[t] \cup magazine2[t].chunks
      /\ Slice!Own(t)' = (transit[t] \ {c}) \cup magazine2[t].chunks
  BY <1>0, <1>1, <1>4, <1>5 DEF Slice!Own
<1>10. Slice!Own(t) \cap (inUse \cup Slice!Cached) = {} BY <1>1 DEF Slice!OwnApart
<1>11. Slice!OwnApart(t)'
  <2>1. NULL \notin transit[t] \cup magazine2[t].chunks BY <1>1, NullIsNoChunk DEF Magazine
  <2>2. transit[t] \cap magazine2[t].chunks = {} BY <1>1 DEF Slice!OwnApart
  <2> QED BY <1>0, <1>1, <1>2, <1>4, <1>5, <1>9, <1>10, <2>1, <2>2 DEF Slice!OwnApart
<1>12. Slice!OnePlace' /\ Slice!Outside' = Slice!Outside
  <2>1. \A u \in Threads \ {t} :
           /\ magazine1'[u] = magazine1[u] /\ magazine2'[u] = magazine2[u]
           /\ transit'[u] = transit[u] /\ mem'[u] = mem[u]
    BY <1>0, <1>5
  <2>2. inUse' \cap Slice!Cached' = {} BY <1>1, <1>2, <1>4, <1>9, <1>10
  <2>3. Slice!Own(t)' \cup inUse' \cup Slice!Cached' = Slice!Own(t) \cup inUse \cup Slice!Cached
    BY <1>2, <1>4, <1>9
  <2> QED BY <1>2, <1>11, <2>1, <2>2, <2>3, Moves
<1> QED BY <1>0, <1>6, <1>7, <1>8, <1>12, SliceParts

(* magazine_cache_push_magazine() and magazine_cache_trim(): what is taken *)
(* out are the chunks R.                                                   *)
LEMMA PushedMagazine ==
    ASSUME SliceInv, NEW m \in Magazine, Exact(m), m.count >= MinMagazineSize,
           m.chunks \cap Slice!Cached = {}, NEW keep \in 0 .. Len(cache),
           cache' = <<m>> \o SubSeq(cache, 1, keep),
           NEW R, R = UNION {cache[k].chunks : k \in keep + 1 .. Len(cache)}
    PROVE  /\ cache' \in Seq(Magazine) /\ R \in SUBSET Chunks
           /\ Slice!Cached' \cup R = Slice!Cached \cup m.chunks
           /\ Slice!Cached' \cap R = {} /\ Slice!CacheApart'
           /\ \A k \in 1 .. Len(cache') : Exact(cache'[k]) /\ cache'[k].count >= MinMagazineSize
<1>1. /\ cache \in Seq(Magazine) /\ Counts /\ Slice!CacheApart
  BY DEF SliceInv, SliceShape, Slice!OnePlace
<1>2. SubSeq(cache, 1, keep) \in Seq(Magazine) /\ Len(SubSeq(cache, 1, keep)) = keep
      /\ \A k \in 1 .. keep : k \in 1 .. Len(cache) /\ SubSeq(cache, 1, keep)[k] = cache[k]
  <2>1. keep \in Nat /\ Len(cache) \in Nat /\ keep <= Len(cache) BY <1>1
  <2>2. \A k \in 1 .. keep : k \in 1 .. Len(cache) /\ 1 + k - 1 = k BY <2>1
  <2>3. keep - 1 + 1 = keep BY <2>1
  <2> QED BY <1>1, <2>1, <2>2, <2>3, SubSeqProperties
<1>3. /\ cache' \in Seq(Magazine) /\ Len(cache') = keep + 1 /\ cache'[1] = m
      /\ \A k \in 1 .. keep : k + 1 \in 1 .. Len(cache') /\ cache'[k + 1] = cache[k]
  BY <1>2
<1>4. \A k \in 1 .. Len(cache') : k = 1 \/ (k - 1 \in 1 .. keep /\ cache'[k] = cache[k - 1])
  BY <1>2, <1>3
<1>5. ASSUME NEW c PROVE c \in Slice!Cached' <=> c \in m.chunks \/ \E k \in 1 .. keep : c \in cache[k].chunks
  <2>1. c \in Slice!Cached' <=> \E k \in 1 .. Len(cache') : c \in cache'[k].chunks
    BY DEF Slice!Cached
  <2>2. 1 \in 1 .. Len(cache') BY <1>3
  <2>3. ASSUME c \in Slice!Cached' PROVE c \in m.chunks \/ \E k \in 1 .. keep : c \in cache[k].chunks
    BY <1>3, <1>4, <2>1, <2>3
  <2> QED BY <1>3, <2>1, <2>2, <2>3
<1>6. ASSUME NEW c PROVE c \in R <=> \E k \in keep + 1 .. Len(cache) : c \in cache[k].chunks
  OBVIOUS
<1>7. ASSUME NEW c PROVE c \in Slice!Cached <=> \E k \in 1 .. Len(cache) : c \in cache[k].chunks
  BY DEF Slice!Cached
<1>8. \A k \in 1 .. Len(cache) : k \in 1 .. keep \/ k \in keep + 1 .. Len(cache) BY <1>1
<1>9. \A k \in 1 .. keep : k \in 1 .. Len(cache) BY <1>2
<1>10. \A k \in keep + 1 .. Len(cache) : k \in 1 .. Len(cache) /\ \A j \in 1 .. keep : j # k BY <1>1
<1>11. Slice!Cached' \cup R = Slice!Cached \cup m.chunks
  <2>1. ASSUME NEW c \in Slice!Cached' \cup R PROVE c \in Slice!Cached \cup m.chunks
    BY <1>5, <1>6, <1>7, <1>9, <1>10
  <2>2. ASSUME NEW c \in Slice!Cached \cup m.chunks PROVE c \in Slice!Cached' \cup R
    BY <1>5, <1>6, <1>7, <1>8
  <2> QED BY <2>1, <2>2
<1>12. Slice!Cached' \cap R = {}
  <2>1. ASSUME NEW c \in Slice!Cached', c \in R PROVE FALSE
    <3>1. PICK k \in keep + 1 .. Len(cache) : c \in cache[k].chunks BY <1>6, <2>1
    <3>2. c \in Slice!Cached BY <1>7, <1>10, <3>1
    <3>3. PICK j \in 1 .. keep : c \in cache[j].chunks BY <1>5, <2>1, <3>2
    <3> QED BY <1>1, <1>9, <1>10, <3>1, <3>3 DEF Slice!CacheApart
  <2> QED BY <2>1
<1>13. Slice!CacheApart'
  <2>1. ASSUME NEW j \in 1 .. Len(cache'), NEW k \in 1 .. Len(cache'), j # k, NEW c \in cache'[j].chunks,
               c \in cache'[k].chunks
        PROVE  FALSE
    <3>1. CASE j = 1 \/ k = 1 BY <1>3, <1>4, <1>7, <1>9, <2>1, <3>1
    <3>2. CASE j # 1 /\ k # 1
      <4>1. j - 1 # k - 1 BY <2>1
      <4> QED BY <1>1, <1>4, <1>9, <2>1, <3>2, <4>1 DEF Slice!CacheApart
    <3> QED BY <3>1, <3>2
  <2> QED BY <2>1 DEF Slice!CacheApart
<1>14. \A k \in 1 .. Len(cache') : Exact(cache'[k]) /\ cache'[k].count >= MinMagazineSize
  BY <1>1, <1>3, <1>4, <1>9 DEF Counts
<1>15. R \in SUBSET Chunks
  <2>1. ASSUME NEW c \in R PROVE c \in Chunks
    <3>1. PICK k \in keep + 1 .. Len(cache) : c \in cache[k].chunks BY <1>6, <2>1
    <3>2. cache[k] \in Magazine BY <1>1, <1>10
    <3> QED BY <3>1, <3>2 DEF Magazine
  <2> QED BY <2>1
<1> QED BY <1>3, <1>11, <1>12, <1>13, <1>14, <1>15

(* thread_memory_magazine2_free().                                         *)
LEMMA AddedChunk ==
    ASSUME NEW m \in Magazine, Exact(m), NEW c \in Chunks, c \notin m.chunks
    PROVE  /\ Slice!Added(m, c) \in Magazine /\ Exact(Slice!Added(m, c))
           /\ Slice!Added(m, c).chunks = m.chunks \cup {c}
<1>1. m.chunks \in SUBSET Chunks /\ m.count \in Nat BY DEF Magazine
<1>2. Cardinality(m.chunks \cup {c}) = Cardinality(m.chunks) + 1 BY <1>1, OneChunk
<1> QED BY <1>1, <1>2 DEF Slice!Added, Magazine, Exact

(* A thread's two magazines and the chunk in its hands, or the program's.  *)
LEMMA Free1Keeps ==
    ASSUME SliceInv, NEW t \in Threads, NEW c \in inUse, Slice!Free1(t, c)
    PROVE  SliceInv'
<1> USE DEF Slice!Goto
<1>0. /\ SliceShape /\ Phases /\ Counts /\ slicePc[t] = "idle" /\ inUse' = inUse \ {c}
      /\ UNCHANGED <<slabs, chunks, n_allocated, slab_mutex, cache, transit, threshold, taken>>
  BY DEF SliceInv, Slice!Free1, Slice!slabVars, Slice!loopVars
<1>1. /\ Phase(t) /\ Slice!OwnApart(t) /\ inUse \cap Slice!Cached = {}
      /\ Exact(magazine1[t]) /\ Exact(magazine2[t])
      /\ magazine1[t] \in Magazine /\ magazine2[t] \in Magazine /\ inUse \subseteq Chunks
      /\ transit[t] = {} /\ mem[t] = NULL /\ taken[t] = 0
  BY <1>0, OfThread DEF Phase
<1>2. Slice!Cached' = Slice!Cached /\ Slice!CacheApart' BY <1>0, CacheSame
<1>3. Slice!Own(t) = magazine1[t].chunks \cup magazine2[t].chunks BY <1>1 DEF Slice!Own
<1>4. Slice!Own(t) \cap (inUse \cup Slice!Cached) = {} /\ magazine1[t].chunks \cap magazine2[t].chunks = {}
  BY <1>1 DEF Slice!OwnApart
<1>5. c \in Chunks /\ c # NULL BY <1>1, NullIsNoChunk
<1>6. ASSUME NEW m1 \in Magazine, NEW m2 \in Magazine, NEW hand \in {c, NULL}, NEW label,
             Exact(m1), Exact(m2), m1.chunks \cap m2.chunks = {},
             m1.chunks \cup m2.chunks \cup ({hand} \ {NULL}) = Slice!Own(t) \cup {c},
             hand \notin m1.chunks \cup m2.chunks,
             IF label = "unload" THEN hand = c /\ m2.count >= MinMagazineSize
             ELSE label = "idle" /\ hand = NULL,
             magazine1' = [magazine1 EXCEPT ![t] = m1], magazine2' = [magazine2 EXCEPT ![t] = m2],
             mem' = [mem EXCEPT ![t] = hand], slicePc' = [slicePc EXCEPT ![t] = label]
      PROVE  SliceInv'
  <2>1. /\ magazine1'[t] = m1 /\ magazine2'[t] = m2 /\ mem'[t] = hand /\ slicePc'[t] = label
        /\ \A u \in Threads \ {t} : /\ magazine1'[u] = magazine1[u] /\ magazine2'[u] = magazine2[u]
                                    /\ slicePc'[u] = slicePc[u] /\ transit'[u] = transit[u] /\ mem'[u] = mem[u]
    BY <1>0, <1>6 DEF SliceShape
  <2>2. SliceShape' BY <1>0, <1>1, <1>5, <1>6 DEF SliceShape
  <2>3. Phases'
    <3>1. Phase(t)' BY <1>0, <1>1, <1>5, <1>6, <2>1 DEF Phase
    <3>2. ASSUME NEW u \in Threads \ {t} PROVE Phase(u)' BY <1>0, <2>1 DEF Phases, Phase
    <3> QED BY <3>1, <3>2 DEF Phases
  <2>4. Counts' BY <1>0, <1>6, <2>1, CountsAfter
  <2>5. Slice!Own(t)' = Slice!Own(t) \cup {c} BY <1>0, <1>1, <1>6, <2>1 DEF Slice!Own
  <2>6. Slice!OwnApart(t)' BY <1>0, <1>1, <1>2, <1>4, <1>6, <2>1, <2>5 DEF Slice!OwnApart
  <2>7. inUse' \cap Slice!Cached' = {} BY <1>0, <1>1, <1>2
  <2>8. Slice!Own(t)' \cup inUse' \cup Slice!Cached' = Slice!Own(t) \cup inUse \cup Slice!Cached
    BY <1>0, <1>2, <2>5
  <2>9. Slice!OnePlace' /\ Slice!Outside' = Slice!Outside BY <1>2, <2>1, <2>6, <2>7, <2>8, Moves
  <2> QED BY <1>0, <2>2, <2>3, <2>4, <2>9, SliceParts
<1>7. PICK n1 \in Thresholds, n2 \in Thresholds :
         IF magazine2[t].count < n1
         THEN /\ magazine2' = [magazine2 EXCEPT ![t] = Slice!Added(@, c)]
              /\ UNCHANGED <<magazine1, slicePc, mem>>
         ELSE /\ magazine1' = [magazine1 EXCEPT ![t] = magazine2[t]]
              /\ IF magazine1[t].count < n2
                 THEN /\ magazine2' = [magazine2 EXCEPT ![t] = Slice!Added(magazine1[t], c)]
                      /\ UNCHANGED <<slicePc, mem>>
                 ELSE /\ magazine2' = [magazine2 EXCEPT ![t] = magazine1[t]]
                      /\ mem' = [mem EXCEPT ![t] = c]
                      /\ slicePc' = [slicePc EXCEPT ![t] = "unload"]
  BY DEF Slice!Free1
<1>8. /\ mem = [mem EXCEPT ![t] = NULL] /\ slicePc = [slicePc EXCEPT ![t] = "idle"]
      /\ magazine1 = [magazine1 EXCEPT ![t] = magazine1[t]]
  BY <1>0, <1>1 DEF SliceShape
<1>9. c \notin magazine1[t].chunks \cup magazine2[t].chunks BY <1>3, <1>4
<1>10. NULL \notin magazine1[t].chunks \cup magazine2[t].chunks BY <1>1, NullIsNoChunk DEF Magazine
<1>11. CASE magazine2[t].count < n1
  <2> DEFINE m == Slice!Added(magazine2[t], c)
  <2>1. m \in Magazine /\ Exact(m) /\ m.chunks = magazine2[t].chunks \cup {c} BY <1>1, <1>5, <1>9, AddedChunk
  <2>2. magazine2' = [magazine2 EXCEPT ![t] = m] /\ UNCHANGED <<magazine1, slicePc, mem>> BY <1>7, <1>11
  <2> HIDE DEF m
  <2>3. /\ magazine1[t].chunks \cap m.chunks = {} /\ NULL \notin magazine1[t].chunks \cup m.chunks
        /\ magazine1[t].chunks \cup m.chunks \cup ({NULL} \ {NULL}) = Slice!Own(t) \cup {c}
    BY <1>3, <1>4, <1>5, <1>9, <1>10, <2>1
  <2> QED BY <1>1, <1>6, <1>8, <2>1, <2>2, <2>3
<1>12. CASE ~(magazine2[t].count < n1) /\ magazine1[t].count < n2
  <2> DEFINE m == Slice!Added(magazine1[t], c)
  <2>1. m \in Magazine /\ Exact(m) /\ m.chunks = magazine1[t].chunks \cup {c} BY <1>1, <1>5, <1>9, AddedChunk
  <2>2. magazine2' = [magazine2 EXCEPT ![t] = m] /\ magazine1' = [magazine1 EXCEPT ![t] = magazine2[t]]
        /\ UNCHANGED <<slicePc, mem>>
    BY <1>7, <1>12
  <2> HIDE DEF m
  <2>3. /\ magazine2[t].chunks \cap m.chunks = {} /\ NULL \notin magazine2[t].chunks \cup m.chunks
        /\ magazine2[t].chunks \cup m.chunks \cup ({NULL} \ {NULL}) = Slice!Own(t) \cup {c}
    BY <1>3, <1>4, <1>5, <1>9, <1>10, <2>1
  <2> QED BY <1>1, <1>6, <1>8, <2>1, <2>2, <2>3
<1>13. CASE ~(magazine2[t].count < n1) /\ ~(magazine1[t].count < n2)
  <2>1. /\ magazine1' = [magazine1 EXCEPT ![t] = magazine2[t]]
        /\ magazine2' = [magazine2 EXCEPT ![t] = magazine1[t]]
        /\ mem' = [mem EXCEPT ![t] = c] /\ slicePc' = [slicePc EXCEPT ![t] = "unload"]
    BY <1>7, <1>13
  <2>2. magazine1[t].count >= MinMagazineSize
    BY <1>1, <1>13, MagazineAssumption DEF Magazine
  <2> QED BY <1>1, <1>3, <1>4, <1>5, <1>6, <1>9, <2>1, <2>2
<1> QED BY <1>11, <1>12, <1>13

LEMMA UnloadKeeps == ASSUME SliceInv, NEW t \in Threads, Slice!Unload(t) PROVE SliceInv'
<1> USE DEF Slice!Goto
<1> DEFINE m == magazine2[t]
           n == Slice!Added(Slice!NoChunks, mem[t])
<1>0. /\ SliceShape /\ Phases /\ Counts /\ slicePc[t] = "unload"
      /\ Slice!PushMagazine(t, m) /\ magazine2' = [magazine2 EXCEPT ![t] = n]
      /\ mem' = [mem EXCEPT ![t] = NULL] /\ slicePc' = [slicePc EXCEPT ![t] = "trash"]
      /\ UNCHANGED <<slabs, chunks, n_allocated, slab_mutex, magazine1, inUse, threshold, taken>>
  BY DEF SliceInv, Slice!Unload, Slice!slabVars
<1>1. /\ Phase(t) /\ Slice!OwnApart(t) /\ inUse \cap Slice!Cached = {}
      /\ Exact(magazine1[t]) /\ Exact(m) /\ magazine1[t] \in Magazine /\ m \in Magazine
      /\ inUse \subseteq Chunks /\ m.count >= MinMagazineSize
      /\ transit[t] = {} /\ mem[t] \in Chunks /\ taken[t] = 0
  BY <1>0, OfThread DEF Phase
<1>2. n \in Magazine /\ Exact(n) /\ n.chunks = {mem[t]}
  BY <1>1, NoChunksExact, AddedChunk
<1> HIDE DEF n
<1>3. mem[t] # NULL BY <1>1, NullIsNoChunk
<1>4. Slice!Own(t) = magazine1[t].chunks \cup m.chunks \cup {mem[t]} BY <1>1, <1>3 DEF Slice!Own
<1>5. /\ Slice!Own(t) \cap (inUse \cup Slice!Cached) = {} /\ magazine1[t].chunks \cap m.chunks = {}
      /\ mem[t] \notin magazine1[t].chunks \cup m.chunks
  BY <1>1 DEF Slice!OwnApart
<1>6. PICK R \in SUBSET Chunks :
         /\ transit' = [transit EXCEPT ![t] = R] /\ cache' \in Seq(Magazine)
         /\ Slice!Cached' \cup R = Slice!Cached \cup m.chunks
         /\ Slice!Cached' \cap R = {} /\ Slice!CacheApart'
         /\ \A k \in 1 .. Len(cache') : Exact(cache'[k]) /\ cache'[k].count >= MinMagazineSize
  <2>1. PICK keep \in 0 .. Len(cache) :
           /\ cache' = <<m>> \o SubSeq(cache, 1, keep)
           /\ transit' = [transit EXCEPT ![t] = UNION {cache[k].chunks : k \in keep + 1 .. Len(cache)}]
    BY <1>0 DEF Slice!PushMagazine
  <2>2. m.chunks \cap Slice!Cached = {} BY <1>4, <1>5
  <2> DEFINE R == UNION {cache[k].chunks : k \in keep + 1 .. Len(cache)}
  <2> HIDE DEF m
  <2>3. /\ cache' \in Seq(Magazine) /\ R \in SUBSET Chunks
        /\ Slice!Cached' \cup R = Slice!Cached \cup m.chunks
        /\ Slice!Cached' \cap R = {} /\ Slice!CacheApart'
        /\ \A k \in 1 .. Len(cache') : Exact(cache'[k]) /\ cache'[k].count >= MinMagazineSize
    BY <1>1, <2>1, <2>2, PushedMagazine
  <2>4. transit' = [transit EXCEPT ![t] = R] BY <2>1
  <2> HIDE DEF R
  <2> QED BY <2>3, <2>4
<1>7. /\ magazine2'[t] = n /\ magazine1'[t] = magazine1[t] /\ transit'[t] = R
      /\ mem'[t] = NULL /\ slicePc'[t] = "trash" /\ taken'[t] = 0
      /\ \A u \in Threads \ {t} : /\ magazine1'[u] = magazine1[u] /\ magazine2'[u] = magazine2[u]
                                  /\ slicePc'[u] = slicePc[u] /\ transit'[u] = transit[u] /\ mem'[u] = mem[u]
  BY <1>0, <1>1, <1>6 DEF SliceShape
<1>8. SliceShape' BY <1>0, <1>2, <1>6 DEF SliceShape
<1>9. Phases'
  <2>1. ASSUME NEW u \in Threads PROVE Phase(u)' BY <1>0, <1>7 DEF Phases, Phase
  <2> QED BY <2>1 DEF Phases
<1>10. Counts' BY <1>0, <1>1, <1>2, <1>6, <1>7, CountsAll
<1>11. Slice!Own(t)' = magazine1[t].chunks \cup {mem[t]} \cup R BY <1>2, <1>7 DEF Slice!Own
<1>12. Slice!OwnApart(t)' /\ inUse' \cap Slice!Cached' = {}
  <2>1. NULL \notin R \cup magazine1[t].chunks BY <1>1, NullIsNoChunk DEF Magazine
  <2> QED BY <1>0, <1>1, <1>2, <1>3, <1>4, <1>5, <1>6, <1>7, <1>11, <2>1 DEF Slice!OwnApart
<1>13. Slice!Own(t)' \cup inUse' \cup Slice!Cached' = Slice!Own(t) \cup inUse \cup Slice!Cached
  BY <1>0, <1>4, <1>6, <1>11
<1>14. Slice!OnePlace' /\ Slice!Outside' = Slice!Outside BY <1>6, <1>7, <1>12, <1>13, Moves
<1> QED BY <1>0, <1>8, <1>9, <1>10, <1>14, SliceParts

(* A magazine of a thread that ends goes to the cache or to the slabs.     *)
LEMMA CleanedUp ==
    ASSUME SliceInv, NEW t \in Threads, NEW m \in Magazine, Exact(m), m.chunks \cap Slice!Cached = {},
           Slice!CleanUp(t, m)
    PROVE  \E R \in SUBSET Chunks :
              /\ transit' = [transit EXCEPT ![t] = R] /\ cache' \in Seq(Magazine)
              /\ Slice!Cached' \cup R = Slice!Cached \cup m.chunks
              /\ Slice!Cached' \cap R = {} /\ Slice!CacheApart'
              /\ \A k \in 1 .. Len(cache') : Exact(cache'[k]) /\ cache'[k].count >= MinMagazineSize
<1>1. CASE m.count >= MinMagazineSize
  <2>1. PICK keep \in 0 .. Len(cache) :
           /\ cache' = <<m>> \o SubSeq(cache, 1, keep)
           /\ transit' = [transit EXCEPT ![t] = UNION {cache[k].chunks : k \in keep + 1 .. Len(cache)}]
    BY <1>1 DEF Slice!CleanUp, Slice!PushMagazine
  <2> DEFINE R == UNION {cache[k].chunks : k \in keep + 1 .. Len(cache)}
  <2>2. /\ cache' \in Seq(Magazine) /\ R \in SUBSET Chunks
        /\ Slice!Cached' \cup R = Slice!Cached \cup m.chunks
        /\ Slice!Cached' \cap R = {} /\ Slice!CacheApart'
        /\ \A k \in 1 .. Len(cache') : Exact(cache'[k]) /\ cache'[k].count >= MinMagazineSize
    BY <1>1, <2>1, PushedMagazine
  <2>3. transit' = [transit EXCEPT ![t] = R] BY <2>1
  <2> HIDE DEF R
  <2> QED BY <2>2, <2>3
<1>2. CASE ~(m.count >= MinMagazineSize)
  <2>1. transit' = [transit EXCEPT ![t] = m.chunks] /\ UNCHANGED cache BY <1>2 DEF Slice!CleanUp
  <2>2. Slice!Cached' = Slice!Cached /\ Slice!CacheApart' BY <2>1, CacheSame
  <2>3. m.chunks \in SUBSET Chunks /\ cache' \in Seq(Magazine)
    BY <2>1 DEF Magazine, SliceInv, SliceShape
  <2>4. \A k \in 1 .. Len(cache') : Exact(cache'[k]) /\ cache'[k].count >= MinMagazineSize
    BY <2>1 DEF SliceInv, Counts
  <2> QED BY <2>1, <2>2, <2>3, <2>4
<1> QED BY <1>1, <1>2

LEMMA CleanUp1Keeps == ASSUME SliceInv, NEW t \in Threads, Slice!CleanUp1(t) PROVE SliceInv'
<1> USE DEF Slice!Goto
<1>0. /\ SliceShape /\ Phases /\ Counts /\ slicePc[t] = "exit1"
      /\ Slice!CleanUp(t, magazine1[t]) /\ magazine1' = [magazine1 EXCEPT ![t] = Slice!NoChunks]
      /\ slicePc' = [slicePc EXCEPT ![t] = "trash1"]
      /\ UNCHANGED <<slabs, chunks, n_allocated, slab_mutex, magazine2, inUse, mem, threshold, taken>>
  BY DEF SliceInv, Slice!CleanUp1, Slice!slabVars
<1>1. /\ Phase(t) /\ Slice!OwnApart(t) /\ inUse \cap Slice!Cached = {}
      /\ Exact(magazine1[t]) /\ Exact(magazine2[t])
      /\ magazine1[t] \in Magazine /\ magazine2[t] \in Magazine /\ inUse \subseteq Chunks
      /\ transit[t] = {} /\ mem[t] = NULL /\ taken[t] = 0
  BY <1>0, OfThread DEF Phase
<1>2. Slice!Own(t) = magazine1[t].chunks \cup magazine2[t].chunks BY <1>1 DEF Slice!Own
<1>3. Slice!Own(t) \cap (inUse \cup Slice!Cached) = {} /\ magazine1[t].chunks \cap magazine2[t].chunks = {}
  BY <1>1 DEF Slice!OwnApart
<1>4. PICK R \in SUBSET Chunks :
         /\ transit' = [transit EXCEPT ![t] = R] /\ cache' \in Seq(Magazine)
         /\ Slice!Cached' \cup R = Slice!Cached \cup magazine1[t].chunks
         /\ Slice!Cached' \cap R = {} /\ Slice!CacheApart'
         /\ \A k \in 1 .. Len(cache') : Exact(cache'[k]) /\ cache'[k].count >= MinMagazineSize
  <2>1. magazine1[t].chunks \cap Slice!Cached = {} BY <1>2, <1>3
  <2> QED BY <1>0, <1>1, <2>1, CleanedUp
<1>5. /\ magazine1'[t] = Slice!NoChunks /\ magazine2'[t] = magazine2[t] /\ transit'[t] = R
      /\ mem'[t] = NULL /\ slicePc'[t] = "trash1" /\ taken'[t] = 0
      /\ \A u \in Threads \ {t} : /\ magazine1'[u] = magazine1[u] /\ magazine2'[u] = magazine2[u]
                                  /\ slicePc'[u] = slicePc[u] /\ transit'[u] = transit[u] /\ mem'[u] = mem[u]
  BY <1>0, <1>1, <1>4 DEF SliceShape
<1>6. SliceShape' BY <1>0, <1>4, NoChunksExact DEF SliceShape
<1>7. Phases'
  <2>1. ASSUME NEW u \in Threads PROVE Phase(u)' BY <1>0, <1>5, NoChunksExact DEF Phases, Phase
  <2> QED BY <2>1 DEF Phases
<1>8. Counts' BY <1>0, <1>1, <1>4, <1>5, NoChunksExact, CountsAll
<1>9. Slice!Own(t)' = magazine2[t].chunks \cup R BY <1>5, NoChunksExact DEF Slice!Own
<1>10. Slice!OwnApart(t)' /\ inUse' \cap Slice!Cached' = {}
  <2>1. NULL \notin R \cup magazine2[t].chunks BY <1>1, NullIsNoChunk DEF Magazine
  <2> QED BY <1>0, <1>1, <1>2, <1>3, <1>4, <1>5, <1>9, <2>1, NoChunksExact DEF Slice!OwnApart
<1>11. Slice!Own(t)' \cup inUse' \cup Slice!Cached' = Slice!Own(t) \cup inUse \cup Slice!Cached
  BY <1>0, <1>2, <1>4, <1>9
<1>12. Slice!OnePlace' /\ Slice!Outside' = Slice!Outside BY <1>4, <1>5, <1>10, <1>11, Moves
<1> QED BY <1>0, <1>6, <1>7, <1>8, <1>12, SliceParts

LEMMA CleanUp2Keeps == ASSUME SliceInv, NEW t \in Threads, Slice!CleanUp2(t) PROVE SliceInv'
<1> USE DEF Slice!Goto
<1>0. /\ SliceShape /\ Phases /\ Counts /\ slicePc[t] = "exit2"
      /\ Slice!CleanUp(t, magazine2[t]) /\ magazine2' = [magazine2 EXCEPT ![t] = Slice!NoChunks]
      /\ slicePc' = [slicePc EXCEPT ![t] = "trash2"]
      /\ UNCHANGED <<slabs, chunks, n_allocated, slab_mutex, magazine1, inUse, mem, threshold, taken>>
  BY DEF SliceInv, Slice!CleanUp2, Slice!slabVars
<1>1. /\ Phase(t) /\ Slice!OwnApart(t) /\ inUse \cap Slice!Cached = {}
      /\ Exact(magazine1[t]) /\ Exact(magazine2[t])
      /\ magazine1[t] \in Magazine /\ magazine2[t] \in Magazine /\ inUse \subseteq Chunks
      /\ transit[t] = {} /\ mem[t] = NULL /\ taken[t] = 0
  BY <1>0, OfThread DEF Phase
<1>2. Slice!Own(t) = magazine1[t].chunks \cup magazine2[t].chunks BY <1>1 DEF Slice!Own
<1>3. Slice!Own(t) \cap (inUse \cup Slice!Cached) = {} /\ magazine1[t].chunks \cap magazine2[t].chunks = {}
  BY <1>1 DEF Slice!OwnApart
<1>4. PICK R \in SUBSET Chunks :
         /\ transit' = [transit EXCEPT ![t] = R] /\ cache' \in Seq(Magazine)
         /\ Slice!Cached' \cup R = Slice!Cached \cup magazine2[t].chunks
         /\ Slice!Cached' \cap R = {} /\ Slice!CacheApart'
         /\ \A k \in 1 .. Len(cache') : Exact(cache'[k]) /\ cache'[k].count >= MinMagazineSize
  <2>1. magazine2[t].chunks \cap Slice!Cached = {} BY <1>2, <1>3
  <2> QED BY <1>0, <1>1, <2>1, CleanedUp
<1>5. /\ magazine2'[t] = Slice!NoChunks /\ magazine1'[t] = magazine1[t] /\ transit'[t] = R
      /\ mem'[t] = NULL /\ slicePc'[t] = "trash2" /\ taken'[t] = 0
      /\ \A u \in Threads \ {t} : /\ magazine1'[u] = magazine1[u] /\ magazine2'[u] = magazine2[u]
                                  /\ slicePc'[u] = slicePc[u] /\ transit'[u] = transit[u] /\ mem'[u] = mem[u]
  BY <1>0, <1>1, <1>4 DEF SliceShape
<1>6. SliceShape' BY <1>0, <1>4, NoChunksExact DEF SliceShape
<1>7. Phases'
  <2>1. ASSUME NEW u \in Threads PROVE Phase(u)' BY <1>0, <1>5, NoChunksExact DEF Phases, Phase
  <2> QED BY <2>1 DEF Phases
<1>8. Counts' BY <1>0, <1>1, <1>4, <1>5, NoChunksExact, CountsAll
<1>9. Slice!Own(t)' = magazine1[t].chunks \cup R BY <1>5, NoChunksExact DEF Slice!Own
<1>10. Slice!OwnApart(t)' /\ inUse' \cap Slice!Cached' = {}
  <2>1. NULL \notin R \cup magazine1[t].chunks BY <1>1, NullIsNoChunk DEF Magazine
  <2> QED BY <1>0, <1>1, <1>2, <1>3, <1>4, <1>5, <1>9, <2>1, NoChunksExact DEF Slice!OwnApart
<1>11. Slice!Own(t)' \cup inUse' \cup Slice!Cached' = Slice!Own(t) \cup inUse \cup Slice!Cached
  BY <1>0, <1>2, <1>4, <1>9
<1>12. Slice!OnePlace' /\ Slice!Outside' = Slice!Outside BY <1>4, <1>5, <1>10, <1>11, Moves
<1> QED BY <1>0, <1>6, <1>7, <1>8, <1>12, SliceParts

LEMMA ExitKeeps == ASSUME SliceInv, NEW t \in Threads, Slice!Exit(t) PROVE SliceInv'
<1>0. /\ SliceShape /\ Phases /\ Counts /\ slicePc[t] = "idle"
      /\ slicePc' = [slicePc EXCEPT ![t] = "exit1"]
      /\ UNCHANGED <<slabs, chunks, n_allocated, slab_mutex, cache, magazine1, magazine2, inUse, mem,
                     transit, threshold, taken>>
  BY DEF SliceInv, Slice!Exit, Slice!Goto, Slice!slabVars, Slice!loopVars
<1>1. SliceShape' BY <1>0 DEF SliceShape
<1>2. Phases'
  <2>1. slicePc'[t] = "exit1" /\ \A u \in Threads \ {t} : slicePc'[u] = slicePc[u] BY <1>0 DEF SliceShape
  <2>2. ASSUME NEW u \in Threads PROVE Phase(u)' BY <1>0, <2>1 DEF Phases, Phase
  <2> QED BY <2>2 DEF Phases
<1>3. Counts' BY <1>0 DEF Counts, Exact
<1>4. Slice!OnePlace' /\ Slice!Outside' = Slice!Outside BY <1>0, NothingMoves DEF SliceInv
<1> QED BY <1>0, <1>1, <1>2, <1>3, <1>4, SliceParts

LEMMA TrashFreedKeeps == ASSUME SliceInv, NEW t \in Threads, Slice!TrashFreed(t) PROVE SliceInv'
<1>0. /\ SliceShape /\ Phases /\ Counts /\ slicePc[t] \in {"trash", "trash1", "trash2"} /\ transit[t] = {}
      /\ slab_mutex' \in {NULL, slab_mutex}
      /\ slicePc' = [slicePc EXCEPT ![t] = IF slicePc[t] = "trash1" THEN "exit2" ELSE "idle"]
      /\ UNCHANGED <<slabs, chunks, n_allocated, cache, magazine1, magazine2, inUse, mem,
                     transit, threshold, taken>>
  BY DEF SliceInv, Slice!TrashFreed, Slice!Goto, Slice!loopVars
<1>1. SliceShape' BY <1>0 DEF SliceShape
<1>2. Phases'
  <2>1. slicePc'[t] \in {"idle", "exit2"} /\ \A u \in Threads \ {t} : slicePc'[u] = slicePc[u]
    BY <1>0 DEF SliceShape
  <2>2. ASSUME NEW u \in Threads PROVE Phase(u)' BY <1>0, <2>1 DEF Phases, Phase
  <2> QED BY <2>2 DEF Phases
<1>3. Counts' BY <1>0 DEF Counts, Exact
<1>4. Slice!OnePlace' /\ Slice!Outside' = Slice!Outside BY <1>0, NothingMoves DEF SliceInv
<1> QED BY <1>0, <1>1, <1>2, <1>3, <1>4, SliceParts

(* A thread has one chunk more, that was free, or one less.                *)
LEMMA Gained ==
    ASSUME SliceInv, NEW t \in Threads, NEW c \in Chunks, c \notin Slice!Outside,
           transit' = [transit EXCEPT ![t] = @ \cup {c}],
           UNCHANGED <<cache, magazine1, magazine2, inUse, mem>>
    PROVE  Slice!OnePlace' /\ Slice!Outside' = Slice!Outside \cup {c} /\ c \notin transit[t]
<1>0. Slice!OnePlace /\ SliceShape BY DEF SliceInv
<1>1. Slice!Cached' = Slice!Cached /\ Slice!CacheApart' BY CacheSame
<1>2. Slice!Own(t)' = Slice!Own(t) \cup {c} BY <1>0 DEF Slice!Own, SliceShape
<1>3. \A u \in Threads \ {t} : Slice!Own(u)' = Slice!Own(u) /\ transit'[u] = transit[u]
  BY <1>0 DEF Slice!Own, SliceShape
<1>4. c \notin inUse \cup Slice!Cached /\ \A u \in Threads : c \notin Slice!Own(u) BY DEF Slice!Outside
<1>5. c # NULL BY NullIsNoChunk
<1>6. Slice!OwnApart(t)'
  <2>1. Slice!OwnApart(t) /\ transit'[t] = transit[t] \cup {c} BY <1>0 DEF Slice!OnePlace, SliceShape
  <2>2. c \notin magazine1[t].chunks \cup magazine2[t].chunks /\ c # mem[t]
    BY <1>4, <1>5 DEF Slice!Own
  <2> QED BY <1>1, <1>2, <1>4, <2>1, <2>2 DEF Slice!OwnApart
<1>7. ASSUME NEW u \in Threads \ {t} PROVE Slice!OwnApart(u)'
  BY <1>0, <1>1, <1>3 DEF Slice!OnePlace, Slice!OwnApart
<1>8. ASSUME NEW u \in Threads, NEW v \in Threads, u # v PROVE Slice!Own(u)' \cap Slice!Own(v)' = {}
  <2>1. Slice!Own(u) \cap Slice!Own(v) = {} BY <1>0, <1>8 DEF Slice!OnePlace
  <2> QED BY <1>2, <1>3, <1>4, <1>8, <2>1
<1>9. Slice!OnePlace' BY <1>0, <1>1, <1>6, <1>7, <1>8 DEF Slice!OnePlace
<1>10. ASSUME NEW d PROVE d \in Slice!Outside' <=> d \in Slice!Outside \cup {c}
  BY <1>1, <1>2, <1>3 DEF Slice!Outside
<1>11. c \notin transit[t] BY <1>4 DEF Slice!Own
<1> QED BY <1>9, <1>10, <1>11

LEMMA Returned ==
    ASSUME SliceInv, NEW t \in Threads, NEW c \in transit[t],
           transit' = [transit EXCEPT ![t] = @ \ {c}],
           UNCHANGED <<cache, magazine1, magazine2, inUse, mem>>
    PROVE  Slice!OnePlace' /\ Slice!Outside' = Slice!Outside \ {c} /\ c \in Slice!Outside /\ c \in Chunks
<1>0. Slice!OnePlace /\ SliceShape /\ Slice!OwnApart(t) BY DEF SliceInv, Slice!OnePlace
<1>1. Slice!Cached' = Slice!Cached /\ Slice!CacheApart' BY CacheSame
<1>2. transit'[t] = transit[t] \ {c} /\ Slice!Own(t)' = Slice!Own(t) \ {c} /\ c \in Slice!Own(t)
  BY <1>0 DEF Slice!Own, Slice!OwnApart, SliceShape
<1>3. \A u \in Threads \ {t} : Slice!Own(u)' = Slice!Own(u) /\ transit'[u] = transit[u]
  BY <1>0 DEF Slice!Own, SliceShape
<1>4. c \notin inUse \cup Slice!Cached /\ \A u \in Threads \ {t} : c \notin Slice!Own(u)
  BY <1>0, <1>2 DEF Slice!OnePlace, Slice!OwnApart
<1>6. Slice!OwnApart(t)' BY <1>0, <1>1, <1>2 DEF Slice!OwnApart
<1>7. ASSUME NEW u \in Threads \ {t} PROVE Slice!OwnApart(u)'
  BY <1>0, <1>1, <1>3 DEF Slice!OnePlace, Slice!OwnApart
<1>8. ASSUME NEW u \in Threads, NEW v \in Threads, u # v PROVE Slice!Own(u)' \cap Slice!Own(v)' = {}
  <2>1. Slice!Own(u) \cap Slice!Own(v) = {} BY <1>0, <1>8 DEF Slice!OnePlace
  <2> QED BY <1>2, <1>3, <1>4, <1>8, <2>1
<1>9. Slice!OnePlace' BY <1>0, <1>1, <1>6, <1>7, <1>8 DEF Slice!OnePlace
<1>10. ASSUME NEW d PROVE d \in Slice!Outside' <=> d \in Slice!Outside \ {c}
  BY <1>1, <1>2, <1>3, <1>4 DEF Slice!Outside
<1>11. c \in Slice!Outside /\ c \in Chunks BY <1>0, <1>2 DEF Slice!Outside, SliceShape
<1> QED BY <1>9, <1>10, <1>11

LEMMA PageCardinality ==
    ASSUME NEW p \in Pages PROVE Cardinality({p} \X (1 .. PageSize)) = PageSize
<1>1. IsFiniteSet(1 .. PageSize) /\ Cardinality(1 .. PageSize) = PageSize /\ PageSize \in Nat
  BY PagesAssumption, FS_Interval
<1>2. IsFiniteSet({p}) /\ Cardinality({p}) = 1 BY FS_Singleton
<1>3. Cardinality({p} \X (1 .. PageSize)) = Cardinality({p}) * Cardinality(1 .. PageSize)
  BY <1>1, <1>2, FS_Product
<1>4. \A n \in Nat : 1 * n = n OBVIOUS
<1> QED BY <1>1, <1>2, <1>3, <1>4

SlabShape == /\ slabs \in Seq(Pages)
             /\ chunks \in [Pages -> SUBSET Chunks] /\ n_allocated \in [Pages -> Int]
Distinct == \A j, k \in 1 .. Len(slabs) : slabs[j] = slabs[k] => j = k

(* allocator_add_slab(), when no page of the ring has a free chunk.        *)
LEMMA AddSlabKeeps ==
    ASSUME SliceInv, NEW p \in Pages, Slice!AddSlab(p), Slice!Outside' = Slice!Outside
    PROVE  SlabShape' /\ SlabInv'
<1>0. /\ SlabShape /\ SlabInv /\ Distinct /\ p \notin Slice!Ring /\ slabs' = <<p>> \o slabs
      /\ chunks' = [chunks EXCEPT ![p] = {p} \X (1 .. PageSize)] /\ UNCHANGED n_allocated
      /\ slabs # <<>> => chunks[Head(slabs)] = {}
  BY DEF SliceInv, SliceShape, SlabInv, SlabShape, Distinct, Slice!AddSlab, Slice!NewPages,
     Slice!HeadEmpty
<1>1. /\ slabs' \in Seq(Pages) /\ Len(slabs') = Len(slabs) + 1 /\ slabs'[1] = p /\ Len(slabs) \in Nat
      /\ \A k \in 1 .. Len(slabs) : k + 1 \in 1 .. Len(slabs') /\ slabs'[k + 1] = slabs[k]
  BY <1>0 DEF SlabShape
<1>2. \A k \in 1 .. Len(slabs') : k = 1 \/ (k - 1 \in 1 .. Len(slabs) /\ slabs'[k] = slabs[k - 1])
  BY <1>1
<1>3. \A q : q \in Slice!Ring' <=> q = p \/ q \in Slice!Ring
  <2>1. 1 \in 1 .. Len(slabs') BY <1>1
  <2>2. \A q \in Slice!Ring' : q = p \/ q \in Slice!Ring BY <1>1, <1>2 DEF Slice!Ring
  <2> QED BY <1>1, <2>1, <2>2 DEF Slice!Ring
<1>4. \A k \in 1 .. Len(slabs) : slabs[k] \in Pages /\ slabs[k] # p BY <1>0 DEF Slice!Ring, SlabShape
<1>5. chunks'[p] = {p} \X (1 .. PageSize) /\ \A q \in Pages \ {p} : chunks'[q] = chunks[q]
  BY <1>0 DEF SlabShape
<1>6. SlabShape'
  <2>1. {p} \X (1 .. PageSize) \in SUBSET Chunks BY DEF Chunks
  <2> QED BY <1>0, <1>1, <2>1 DEF SlabShape
<1>7. ASSUME NEW q \in Pages PROVE Page(q)'
  <2>1. CASE q = p
    <3>1. n_allocated[p] = 0 /\ \A c \in Slice!Outside : c[1] # p BY <1>0 DEF SlabInv, Page
    <3>2. Cardinality(chunks'[p]) = PageSize - n_allocated'[p]
      BY <1>0, <1>5, <3>1, PageCardinality, PagesAssumption
    <3>3. chunks'[p] \cap Slice!Outside' = {} BY <1>5, <3>1
    <3>4. {c \in Slice!Outside' : c[1] = p} = {} BY <3>1
    <3>5. chunks'[p] \cup {c \in Slice!Outside' : c[1] = p} = {p} \X (1 .. PageSize) BY <1>5, <3>4
    <3> QED BY <1>3, <2>1, <3>2, <3>3, <3>5 DEF Page
  <2>2. CASE q # p
    <3>1. chunks'[q] = chunks[q] /\ n_allocated'[q] = n_allocated[q] /\ (q \in Slice!Ring' <=> q \in Slice!Ring)
      BY <1>0, <1>3, <1>5, <2>2
    <3>2. Page(q) BY <1>0 DEF SlabInv
    <3> QED BY <3>1, <3>2 DEF Page
  <2> QED BY <2>1, <2>2
<1>8. Distinct'
  <2>1. \A j, k \in 1 .. Len(slabs') : j - 1 = k - 1 => j = k BY <1>1
  <2> QED BY <1>0, <1>1, <1>2, <1>4, <2>1 DEF Distinct
<1>9. \A k \in 1 .. Len(slabs) : chunks[slabs[k]] = {}
  <2>1. ASSUME NEW k \in 1 .. Len(slabs) PROVE chunks[slabs[k]] = {}
    <3>1. slabs # <<>> /\ 1 \in 1 .. Len(slabs) /\ Head(slabs) = slabs[1] BY <1>0, <1>1 DEF SlabShape
    <3>2. k = 1 \/ 1 < k BY <1>1
    <3> QED BY <1>0, <3>1, <3>2 DEF SlabInv, Slice!RingSorted
  <2> QED BY <2>1
<1>10. Slice!RingSorted'
  <2>1. ASSUME NEW j \in 1 .. Len(slabs'), NEW k \in 1 .. Len(slabs'), j < k PROVE chunks'[slabs'[k]] = {}
    <3>1. k # 1 BY <1>1, <2>1
    <3>2. k - 1 \in 1 .. Len(slabs) /\ slabs'[k] = slabs[k - 1] BY <1>2, <3>1
    <3>3. chunks'[slabs[k - 1]] = chunks[slabs[k - 1]] BY <1>4, <1>5, <3>2
    <3> QED BY <1>9, <3>2, <3>3
  <2> QED BY <2>1 DEF Slice!RingSorted
<1> QED BY <1>6, <1>7, <1>8, <1>10 DEF SlabInv, Distinct

(* slab_allocator_alloc_chunk(): a chunk of the head, which goes to the    *)
(* end of the ring with its last one.                                      *)
LEMMA AllocChunkKeeps ==
    ASSUME SliceInv, NEW c, Slice!AllocChunk(c)
    PROVE  /\ c \in Chunks /\ c \notin Slice!Outside
           /\ Slice!Outside' = Slice!Outside \cup {c} => SlabShape' /\ SlabInv'
<1> DEFINE p == slabs[1]
<1>0. /\ SlabShape /\ SlabInv /\ Distinct /\ slabs # <<>> /\ c \in chunks[Head(slabs)]
      /\ slabs' = IF chunks[Head(slabs)] = {c} THEN Append(Tail(slabs), Head(slabs)) ELSE slabs
      /\ chunks' = [chunks EXCEPT ![Head(slabs)] = @ \ {c}]
      /\ n_allocated' = [n_allocated EXCEPT ![Head(slabs)] = @ + 1]
  BY DEF SliceInv, SliceShape, SlabInv, SlabShape, Distinct, Slice!AllocChunk, Slice!HeadEmpty
<1>1. /\ Len(slabs) \in Nat /\ 1 \in 1 .. Len(slabs) /\ Head(slabs) = p /\ p \in Pages /\ p \in Slice!Ring
      /\ chunks[p] \in SUBSET Chunks /\ n_allocated[p] \in Int
  BY <1>0 DEF SlabShape, Slice!Ring
<1>2. /\ slabs' = IF chunks[p] = {c} THEN Append(Tail(slabs), p) ELSE slabs
      /\ chunks' = [chunks EXCEPT ![p] = @ \ {c}]
      /\ n_allocated' = [n_allocated EXCEPT ![p] = @ + 1]
  BY <1>0, <1>1
<1> HIDE DEF p
<1>3. /\ Cardinality(chunks[p]) = PageSize - n_allocated[p]
      /\ chunks[p] \cup {d \in Slice!Outside : d[1] = p} = {p} \X (1 .. PageSize)
      /\ chunks[p] \cap Slice!Outside = {}
  BY <1>0, <1>1 DEF SlabInv, Page
<1>4. c \in Chunks /\ c \notin Slice!Outside /\ c \in chunks[p] /\ c[1] = p BY <1>0, <1>1, <1>3
<1>5. /\ chunks'[p] = chunks[p] \ {c} /\ n_allocated'[p] = n_allocated[p] + 1
      /\ \A q \in Pages \ {p} : chunks'[q] = chunks[q] /\ n_allocated'[q] = n_allocated[q]
  BY <1>0, <1>1, <1>2 DEF SlabShape
<1>6. /\ slabs' \in Seq(Pages) /\ Len(slabs') = Len(slabs) /\ Slice!Ring' = Slice!Ring /\ Distinct'
      /\ Slice!RingSorted'
  <2>1. CASE chunks[p] = {c}
    <3>1. /\ slabs' \in Seq(Pages) /\ Len(slabs') = Len(slabs) /\ slabs'[Len(slabs)] = p
          /\ \A k \in 1 .. Len(slabs) : k = Len(slabs) \/ (k + 1 \in 1 .. Len(slabs) /\ slabs'[k] = slabs[k + 1])
      BY <1>0, <1>1, <1>2, <2>1 DEF SlabShape
    <3>2. \A k \in 1 .. Len(slabs) : k = 1 \/ (k - 1 \in 1 .. Len(slabs) /\ slabs'[k - 1] = slabs[k])
      <4>1. ASSUME NEW k \in 1 .. Len(slabs), k # 1
            PROVE  k - 1 \in 1 .. Len(slabs) /\ slabs'[k - 1] = slabs[k]
        <5>1. k - 1 \in 1 .. Len(slabs) /\ k - 1 # Len(slabs) /\ (k - 1) + 1 = k BY <1>1, <4>1
        <5> QED BY <3>1, <5>1
      <4> QED BY <4>1
    <3>3. Len(slabs) \in 1 .. Len(slabs) BY <1>1
    <3>4. Slice!Ring' = Slice!Ring
      <4>1. ASSUME NEW q \in Slice!Ring' PROVE q \in Slice!Ring BY <1>1, <3>1 DEF Slice!Ring
      <4>2. ASSUME NEW q \in Slice!Ring PROVE q \in Slice!Ring'
        <5>1. PICK k \in 1 .. Len(slabs) : slabs[k] = q BY DEF Slice!Ring
        <5>2. CASE k = 1 BY <3>1, <3>3, <5>1, <5>2 DEF Slice!Ring, p
        <5>3. CASE k # 1 BY <3>1, <3>2, <5>1, <5>3 DEF Slice!Ring
        <5> QED BY <5>2, <5>3
      <4> QED BY <4>1, <4>2
    <3>5. \A k \in 1 .. Len(slabs) : k # Len(slabs) => slabs[k + 1] # p /\ slabs[k + 1] \in Pages
      <4>1. ASSUME NEW k \in 1 .. Len(slabs), k # Len(slabs) PROVE slabs[k + 1] # p /\ slabs[k + 1] \in Pages
        <5>1. k + 1 \in 1 .. Len(slabs) /\ k + 1 # 1 BY <1>1, <4>1
        <5> QED BY <1>0, <1>1, <5>1 DEF Distinct, SlabShape, p
      <4> QED BY <4>1
    <3>6. Distinct'
      <4>1. ASSUME NEW j \in 1 .. Len(slabs), NEW k \in 1 .. Len(slabs), slabs'[j] = slabs'[k] PROVE j = k
        <5>1. CASE j = Len(slabs) \/ k = Len(slabs) BY <3>1, <3>5, <4>1, <5>1
        <5>2. CASE j # Len(slabs) /\ k # Len(slabs)
          <6>1. slabs[j + 1] = slabs[k + 1] /\ j + 1 \in 1 .. Len(slabs) /\ k + 1 \in 1 .. Len(slabs)
            BY <3>1, <4>1, <5>2
          <6>2. j + 1 = k + 1 BY <1>0, <6>1 DEF Distinct
          <6> QED BY <6>2
        <5> QED BY <5>1, <5>2
      <4> QED BY <3>1, <4>1 DEF Distinct
    <3>7. Slice!RingSorted'
      <4>1. ASSUME NEW j \in 1 .. Len(slabs), NEW k \in 1 .. Len(slabs), j < k, chunks'[slabs'[j]] = {}
            PROVE  chunks'[slabs'[k]] = {}
        <5>1. CASE k = Len(slabs) BY <1>5, <2>1, <3>1, <5>1
        <5>2. CASE k # Len(slabs)
          <6>1. j # Len(slabs) /\ j + 1 < k + 1 BY <1>1, <4>1
          <6>2. /\ slabs'[j] = slabs[j + 1] /\ slabs'[k] = slabs[k + 1]
                /\ j + 1 \in 1 .. Len(slabs) /\ k + 1 \in 1 .. Len(slabs)
            BY <3>1, <5>2, <6>1
          <6>3. chunks'[slabs'[j]] = chunks[slabs[j + 1]] /\ chunks'[slabs'[k]] = chunks[slabs[k + 1]]
            BY <1>5, <3>5, <5>2, <6>1, <6>2
          <6> QED BY <1>0, <4>1, <6>1, <6>2, <6>3 DEF SlabInv, Slice!RingSorted
        <5> QED BY <5>1, <5>2
      <4> QED BY <3>1, <4>1 DEF Slice!RingSorted
    <3> QED BY <3>1, <3>4, <3>6, <3>7
  <2>2. CASE chunks[p] # {c}
    <3>1. slabs' = slabs BY <1>2, <2>2
    <3>2. chunks'[p] # {} BY <1>4, <1>5, <2>2
    <3>3. Slice!Ring' = Slice!Ring /\ Distinct' BY <1>0, <3>1 DEF Slice!Ring, Distinct
    <3>4. ASSUME NEW j \in 1 .. Len(slabs), NEW k \in 1 .. Len(slabs), j < k, chunks'[slabs[j]] = {}
          PROVE  chunks'[slabs[k]] = {}
      <4>1. k # 1 /\ slabs[j] # p BY <1>1, <3>2, <3>4
      <4>2. slabs[k] # p /\ slabs[k] \in Pages /\ slabs[j] \in Pages
        BY <1>0, <1>1, <4>1 DEF Distinct, SlabShape, p
      <4> QED BY <1>0, <1>5, <3>4, <4>1, <4>2 DEF SlabInv, Slice!RingSorted
    <3>5. Slice!RingSorted' BY <3>1, <3>4 DEF Slice!RingSorted
    <3> QED BY <1>0, <3>1, <3>3, <3>5 DEF SlabShape
  <2> QED BY <2>1, <2>2
<1>7. ASSUME Slice!Outside' = Slice!Outside \cup {c}, NEW q \in Pages PROVE Page(q)'
  <2>1. CASE q = p
    <3>1. Cardinality(chunks'[p]) = PageSize - n_allocated'[p]
      <4>1. Cardinality(chunks[p] \ {c}) = Cardinality(chunks[p]) - 1 BY <1>1, <1>4, OneChunk
      <4> QED BY <1>1, <1>3, <1>5, <4>1, PagesAssumption
    <3>2. chunks'[p] \cup {d \in Slice!Outside' : d[1] = p} = {p} \X (1 .. PageSize)
      <4>1. {d \in Slice!Outside' : d[1] = p} = {d \in Slice!Outside : d[1] = p} \cup {c} BY <1>4, <1>7
      <4> QED BY <1>3, <1>4, <1>5, <4>1
    <3>3. chunks'[p] \cap Slice!Outside' = {} BY <1>3, <1>5, <1>7
    <3> QED BY <1>1, <1>6, <2>1, <3>1, <3>2, <3>3 DEF Page
  <2>2. CASE q # p
    <3>1. chunks'[q] = chunks[q] /\ n_allocated'[q] = n_allocated[q] BY <1>5, <2>2
    <3>2. Page(q) BY <1>0 DEF SlabInv
    <3>3. {d \in Slice!Outside' : d[1] = q} = {d \in Slice!Outside : d[1] = q} BY <1>4, <1>7, <2>2
    <3>4. CASE q \in Slice!Ring
      <4>1. c \notin chunks[q] BY <1>4, <2>2, <3>2, <3>4 DEF Page
      <4>2. chunks'[q] \cap Slice!Outside' = {} BY <1>7, <3>1, <3>2, <3>4, <4>1 DEF Page
      <4> QED BY <1>6, <3>1, <3>2, <3>3, <3>4, <4>2 DEF Page
    <3>5. CASE q \notin Slice!Ring BY <1>4, <1>6, <1>7, <2>2, <3>1, <3>2, <3>5 DEF Page
    <3> QED BY <3>4, <3>5
  <2> QED BY <2>1, <2>2
<1>8. SlabShape' BY <1>0, <1>1, <1>2, <1>6 DEF SlabShape
<1> QED BY <1>4, <1>6, <1>7, <1>8 DEF SlabInv, Distinct

(* slab_allocator_free_chunk(): the ring without the page at k.            *)
LEMMA OthersShape ==
    ASSUME SlabShape, SlabInv, NEW k \in 1 .. Len(slabs), NEW s \in [1 .. Len(slabs) - 1 -> Pages],
           \A j \in 1 .. Len(slabs) - 1 : s[j] = slabs[IF j < k THEN j ELSE j + 1]
    PROVE  /\ s \in Seq(Pages) /\ Len(s) = Len(slabs) - 1
           /\ \A q : q \in Slice!Ring \ {slabs[k]} <=> \E j \in 1 .. Len(s) : s[j] = q
           /\ \A i, j \in 1 .. Len(s) : s[i] = s[j] => i = j
           /\ \A i, j \in 1 .. Len(s) : i < j /\ chunks[s[i]] = {} => chunks[s[j]] = {}
<1> DEFINE At(j) == IF j < k THEN j ELSE j + 1
<1>1. Len(slabs) \in Nat /\ Len(slabs) - 1 \in Nat /\ k \in Nat BY DEF SlabShape
<1>2. \A j \in 1 .. Len(slabs) - 1 : At(j) \in 1 .. Len(slabs) /\ At(j) # k /\ s[j] = slabs[At(j)]
  BY <1>1
<1>3. \A i, j \in 1 .. Len(slabs) - 1 : (i < j => At(i) < At(j)) /\ (At(i) = At(j) => i = j)
  BY <1>1
<1>4. \A m \in 1 .. Len(slabs) : m # k => \E j \in 1 .. Len(slabs) - 1 : At(j) = m
  <2>1. ASSUME NEW m \in 1 .. Len(slabs), m # k PROVE \E j \in 1 .. Len(slabs) - 1 : At(j) = m
    <3>1. CASE m < k
      <4>1. m \in 1 .. Len(slabs) - 1 BY <1>1, <3>1
      <4> QED BY <3>1, <4>1
    <3>2. CASE ~(m < k)
      <4>1. m - 1 \in 1 .. Len(slabs) - 1 /\ ~(m - 1 < k) /\ (m - 1) + 1 = m BY <1>1, <2>1, <3>2
      <4> QED BY <4>1
    <3> QED BY <3>1, <3>2
  <2> QED BY <2>1
<1>5. s \in Seq(Pages) /\ Len(s) = Len(slabs) - 1
  <2>3. \A n \in Nat : \A f \in [1 .. n -> Pages] : f \in Seq(Pages) BY IsSequence
  <2>4. s \in Seq(Pages) BY <1>1, <2>3
  <2> QED BY <1>1, <2>4
<1> HIDE DEF At
<1>6. \A i, j \in 1 .. Len(slabs) : slabs[i] = slabs[j] => i = j BY DEF SlabInv
<1>7. \A q : q \in Slice!Ring \ {slabs[k]} <=> \E j \in 1 .. Len(s) : s[j] = q
  <2>1. ASSUME NEW q \in Slice!Ring \ {slabs[k]} PROVE \E j \in 1 .. Len(s) : s[j] = q
    <3>1. PICK m \in 1 .. Len(slabs) : slabs[m] = q BY DEF Slice!Ring
    <3> QED BY <1>2, <1>4, <1>5, <2>1, <3>1
  <2>2. ASSUME NEW j \in 1 .. Len(s) PROVE s[j] \in Slice!Ring \ {slabs[k]}
    <3>1. At(j) \in 1 .. Len(slabs) /\ At(j) # k /\ s[j] = slabs[At(j)] BY <1>2, <1>5, <2>2
    <3>2. slabs[At(j)] # slabs[k] BY <1>6, <3>1
    <3> QED BY <3>1, <3>2 DEF Slice!Ring
  <2> QED BY <2>1, <2>2
<1>8. \A i, j \in 1 .. Len(s) : s[i] = s[j] => i = j BY <1>2, <1>3, <1>5, <1>6
<1>9. \A i, j \in 1 .. Len(s) : i < j /\ chunks[s[i]] = {} => chunks[s[j]] = {}
  <2>1. ASSUME NEW i \in 1 .. Len(s), NEW j \in 1 .. Len(s), i < j, chunks[s[i]] = {}
        PROVE  chunks[s[j]] = {}
    <3>1. At(i) \in 1 .. Len(slabs) /\ At(j) \in 1 .. Len(slabs) /\ s[i] = slabs[At(i)] /\ s[j] = slabs[At(j)]
      BY <1>2, <1>5, <2>1
    <3>2. At(i) < At(j) BY <1>3, <1>5, <2>1
    <3>3. \A a, b \in 1 .. Len(slabs) : a < b /\ chunks[slabs[a]] = {} => chunks[slabs[b]] = {}
      BY DEF SlabInv, Slice!RingSorted
    <3>4. chunks[slabs[At(i)]] = {} BY <2>1, <3>1
    <3>5. chunks[slabs[At(j)]] = {} BY <3>1, <3>2, <3>3, <3>4
    <3> QED BY <3>1, <3>5
  <2> QED BY <2>1
<1> QED BY <1>5, <1>7, <1>8, <1>9

LEMMA FreeChunkKeeps ==
    ASSUME SliceInv, NEW c \in Chunks, c \in Slice!Outside, Slice!FreeChunk(c),
           Slice!Outside' = Slice!Outside \ {c}
    PROVE  SlabShape' /\ SlabInv'
<1> DEFINE p == c[1]
           Free == chunks[p]
           Out == {d \in Slice!Outside : d[1] = p}
<1>0. SlabShape /\ SlabInv /\ Distinct BY DEF SliceInv, SliceShape, SlabInv, SlabShape, Distinct
<1>1. p \in Pages BY DEF Chunks
<1>2. p \in Slice!Ring BY <1>0, <1>1 DEF SlabInv, Page
<1>3. /\ Cardinality(Free) = PageSize - n_allocated[p] /\ Free \cup Out = {p} \X (1 .. PageSize)
      /\ Free \cap Slice!Outside = {} /\ n_allocated[p] \in Int /\ Free \in SUBSET Chunks
  BY <1>0, <1>1, <1>2 DEF SlabInv, Page, SlabShape
<1>4. PICK k \in 1 .. Len(slabs) : slabs[k] = p BY <1>2 DEF Slice!Ring
<1>a. PICK s : s = [j \in 1 .. Len(slabs) - 1 |-> slabs[IF j < k THEN j ELSE j + 1]] OBVIOUS
<1>5. /\ slabs' = IF n_allocated[p] = 1 THEN s ELSE IF Free = {} THEN <<p>> \o s ELSE slabs
      /\ chunks' = [chunks EXCEPT ![p] = IF n_allocated[p] = 1 THEN {} ELSE @ \cup {c}]
      /\ n_allocated' = [n_allocated EXCEPT ![p] = @ - 1]
  <2>1. k = CHOOSE j \in 1 .. Len(slabs) : slabs[j] = p BY <1>0, <1>4 DEF Distinct
  <2> QED BY <1>a, <2>1 DEF Slice!FreeChunk
<1>6. /\ s \in Seq(Pages) /\ Len(s) = Len(slabs) - 1
      /\ \A q : q \in Slice!Ring \ {p} <=> \E j \in 1 .. Len(s) : s[j] = q
      /\ \A i, j \in 1 .. Len(s) : s[i] = s[j] => i = j
      /\ \A i, j \in 1 .. Len(s) : i < j /\ chunks[s[i]] = {} => chunks[s[j]] = {}
  <2> HIDE DEF p
  <2>2. s \in [1 .. Len(slabs) - 1 -> Pages]
    <3>1. \A j \in 1 .. Len(slabs) - 1 : (IF j < k THEN j ELSE j + 1) \in 1 .. Len(slabs)
      BY <1>0 DEF SlabShape
    <3>2. \A j \in 1 .. Len(slabs) : slabs[j] \in Pages BY <1>0 DEF SlabShape
    <3> QED BY <1>a, <3>1, <3>2
  <2>3. \A j \in 1 .. Len(slabs) - 1 : s[j] = slabs[IF j < k THEN j ELSE j + 1] BY <1>a
  <2>1. /\ s \in Seq(Pages) /\ Len(s) = Len(slabs) - 1
        /\ \A q : q \in Slice!Ring \ {slabs[k]} <=> \E j \in 1 .. Len(s) : s[j] = q
        /\ \A i, j \in 1 .. Len(s) : s[i] = s[j] => i = j
        /\ \A i, j \in 1 .. Len(s) : i < j /\ chunks[s[i]] = {} => chunks[s[j]] = {}
    BY <1>0, <2>2, <2>3, OthersShape
  <2> QED BY <1>4, <2>1
<1> HIDE DEF p
<1>7. Len(slabs) \in Nat /\ Len(s) \in Nat BY <1>0, <1>6 DEF SlabShape
<1>8. \A j \in 1 .. Len(s) : s[j] \in Pages /\ s[j] # p /\ s[j] \in Slice!Ring BY <1>6
<1>9. c[1] = p /\ c \in Out /\ c \notin Free BY <1>3 DEF p
<1>10. /\ n_allocated'[p] = n_allocated[p] - 1
       /\ chunks'[p] = IF n_allocated[p] = 1 THEN {} ELSE Free \cup {c}
       /\ \A q \in Pages \ {p} : chunks'[q] = chunks[q] /\ n_allocated'[q] = n_allocated[q]
  BY <1>0, <1>1, <1>5 DEF SlabShape
<1>11. {d \in Slice!Outside' : d[1] = p} = Out \ {c} OBVIOUS
<1>12. (n_allocated[p] = 1) => Out = {c}
  <2>1. ASSUME n_allocated[p] = 1, NEW d \in Out, d # c PROVE FALSE
    <3>1. {p} \X (1 .. PageSize) \in SUBSET Chunks /\ {p} \X (1 .. PageSize) = Free \cup Out
      BY <1>1, <1>3 DEF Chunks
    <3> DEFINE all == {p} \X (1 .. PageSize)
    <3>2. Cardinality(all) = PageSize /\ all \in SUBSET Chunks /\ all = Free \cup Out
      BY <1>1, <3>1, PageCardinality
    <3> HIDE DEF all
    <3>3. c \in all /\ d \in all /\ d \notin Free BY <1>3, <1>9, <2>1, <3>2
    <3>4. Cardinality(all \ {c}) = Cardinality(all) - 1 BY <3>2, <3>3, OneChunk
    <3>5. Cardinality((all \ {c}) \ {d}) = Cardinality(all \ {c}) - 1
      <4>1. all \ {c} \in SUBSET Chunks /\ d \in all \ {c} /\ d \in Chunks BY <2>1, <3>2, <3>3
      <4> QED BY <4>1, OneChunk
    <3>6. IsFiniteSet((all \ {c}) \ {d}) /\ Free \subseteq (all \ {c}) \ {d}
      <4>1. (all \ {c}) \ {d} \in SUBSET Chunks BY <3>2
      <4>2. Free \subseteq (all \ {c}) \ {d} BY <1>9, <3>2, <3>3
      <4> QED BY <4>1, <4>2, ChunksFinite
    <3>7. Cardinality(Free) <= Cardinality((all \ {c}) \ {d}) BY <3>6, FS_Subset
    <3> QED BY <1>3, <2>1, <3>2, <3>4, <3>5, <3>7, PagesAssumption
  <2> QED BY <1>9, <2>1
<1>13. SlabShape'
  <2>1. slabs' \in Seq(Pages) BY <1>0, <1>1, <1>5, <1>6 DEF SlabShape
  <2> QED BY <1>0, <1>1, <1>5, <2>1 DEF SlabShape
<1>14. ASSUME NEW q \in Pages, q # p, q \in Slice!Ring' <=> q \in Slice!Ring PROVE Page(q)'
  <2>1. chunks'[q] = chunks[q] /\ n_allocated'[q] = n_allocated[q] BY <1>10, <1>14
  <2>2. Page(q) BY <1>0 DEF SlabInv
  <2>3. {d \in Slice!Outside' : d[1] = q} = {d \in Slice!Outside : d[1] = q} BY <1>9, <1>14
  <2>4. CASE q \in Slice!Ring BY <1>14, <2>1, <2>2, <2>3, <2>4 DEF Page
  <2>5. CASE q \notin Slice!Ring BY <1>14, <2>1, <2>2, <2>5 DEF Page
  <2> QED BY <2>4, <2>5
<1>15. CASE n_allocated[p] = 1
  <2>1. slabs' = s /\ chunks'[p] = {} /\ n_allocated'[p] = 0 BY <1>5, <1>10, <1>15
  <2>2. \A q : q \in Slice!Ring' <=> q \in Slice!Ring \ {p}
    <3>1. \A q : q \in Slice!Ring' <=> \E j \in 1 .. Len(slabs') : slabs'[j] = q BY DEF Slice!Ring
    <3> QED BY <1>6, <2>1, <3>1
  <2>3. Page(p)'
    <3>1. p \notin Slice!Ring' BY <2>2
    <3>2. {d \in Slice!Outside' : d[1] = p} = {} BY <1>11, <1>12, <1>15
    <3>3. \A d \in Slice!Outside' : d[1] # p BY <3>2
    <3> QED BY <2>1, <3>1, <3>3 DEF Page
  <2>4. Slice!RingSorted'
    <3>1. \A j \in 1 .. Len(s) : chunks'[s[j]] = chunks[s[j]] BY <1>8, <1>10
    <3>2. \A i, j \in 1 .. Len(s) : i < j /\ chunks[s[i]] = {} => chunks[s[j]] = {} BY <1>6
    <3>3. \A i, j \in 1 .. Len(s) : i < j /\ chunks'[s[i]] = {} => chunks'[s[j]] = {} BY <3>1, <3>2
    <3>4. slabs' = s BY <2>1
    <3> QED BY <3>3, <3>4 DEF Slice!RingSorted
  <2>5. \A j, m \in 1 .. Len(slabs') : slabs'[j] = slabs'[m] => j = m BY <1>6, <2>1
  <2>6. \A q \in Pages : Page(q)' BY <1>14, <2>2, <2>3
  <2> QED BY <1>13, <2>4, <2>5, <2>6 DEF SlabInv
<1>16. CASE n_allocated[p] # 1
  <2>1. chunks'[p] = Free \cup {c} BY <1>10, <1>16
  <2>2. Slice!Ring' = Slice!Ring /\ Slice!RingSorted' /\ \A j, m \in 1 .. Len(slabs') : slabs'[j] = slabs'[m] => j = m
    <3>1. CASE Free = {}
      <4>1. /\ slabs' = <<p>> \o s BY <1>5, <1>16, <3>1
      <4>2. /\ Len(slabs') = Len(s) + 1 /\ slabs'[1] = p
            /\ \A j \in 1 .. Len(s) : j + 1 \in 1 .. Len(slabs') /\ slabs'[j + 1] = s[j]
        BY <1>6, <1>7, <4>1
      <4>3. \A j \in 1 .. Len(slabs') : j = 1 \/ (j - 1 \in 1 .. Len(s) /\ slabs'[j] = s[j - 1])
        BY <1>7, <4>2
      <4>4. 1 \in 1 .. Len(slabs') BY <1>7, <4>2
      <4>5. Slice!Ring' = Slice!Ring
        <5>1. \A q : q \in Slice!Ring' <=> \E j \in 1 .. Len(slabs') : slabs'[j] = q BY DEF Slice!Ring
        <5>2. ASSUME NEW q \in Slice!Ring' PROVE q \in Slice!Ring BY <1>2, <1>8, <4>2, <4>3, <5>1, <5>2
        <5>3. ASSUME NEW q \in Slice!Ring PROVE q \in Slice!Ring' BY <1>6, <4>2, <4>4, <5>1, <5>3
        <5> QED BY <5>2, <5>3
      <4>6. \A j, m \in 1 .. Len(slabs') : slabs'[j] = slabs'[m] => j = m
        <5>1. \A j, m \in 1 .. Len(slabs') : j - 1 = m - 1 => j = m BY <1>7
        <5>2. ASSUME NEW j \in 1 .. Len(slabs'), NEW m \in 1 .. Len(slabs'), slabs'[j] = slabs'[m] PROVE j = m
          <6>1. CASE j = 1 \/ m = 1 BY <1>8, <4>2, <4>3, <5>2, <6>1
          <6>2. CASE j # 1 /\ m # 1
            <7>1. /\ j - 1 \in 1 .. Len(s) /\ slabs'[j] = s[j - 1]
                  /\ m - 1 \in 1 .. Len(s) /\ slabs'[m] = s[m - 1]
              BY <4>3, <6>2
            <7>2. j - 1 = m - 1 BY <1>6, <5>2, <7>1
            <7> QED BY <5>1, <7>2
          <6> QED BY <6>1, <6>2
        <5> QED BY <5>2
      <4>7. Slice!RingSorted'
        <5>1. ASSUME NEW j \in 1 .. Len(slabs'), NEW m \in 1 .. Len(slabs'), j < m, chunks'[slabs'[j]] = {}
              PROVE  chunks'[slabs'[m]] = {}
          <6>1. slabs'[j] # p BY <2>1, <5>1
          <6>2. j # 1 /\ m # 1 /\ j - 1 < m - 1 BY <1>7, <4>2, <5>1, <6>1
          <6>3. /\ j - 1 \in 1 .. Len(s) /\ slabs'[j] = s[j - 1]
                /\ m - 1 \in 1 .. Len(s) /\ slabs'[m] = s[m - 1]
            BY <4>3, <6>2
          <6>4. chunks'[s[j - 1]] = chunks[s[j - 1]] /\ chunks'[s[m - 1]] = chunks[s[m - 1]]
            BY <1>8, <1>10, <6>3
          <6>5. chunks[s[j - 1]] = {} BY <5>1, <6>3, <6>4
          <6>6. chunks[s[m - 1]] = {} BY <1>6, <6>2, <6>3, <6>5
          <6> QED BY <6>3, <6>4, <6>6
        <5> QED BY <5>1 DEF Slice!RingSorted
      <4> QED BY <4>5, <4>6, <4>7
    <3>2. CASE Free # {}
      <4>1. slabs' = slabs BY <1>5, <1>16, <3>2
      <4>2. \A q \in Pages : chunks'[q] = {} <=> chunks[q] = {} BY <1>10, <2>1, <3>2
      <4>3. \A j \in 1 .. Len(slabs) : slabs[j] \in Pages BY <1>0 DEF SlabShape
      <4>4. Slice!Ring' = Slice!Ring BY <4>1 DEF Slice!Ring
      <4>5. Slice!RingSorted'
        <5>1. \A j \in 1 .. Len(slabs) : chunks'[slabs[j]] = {} <=> chunks[slabs[j]] = {} BY <4>2, <4>3
        <5> QED BY <1>0, <4>1, <5>1 DEF SlabInv, Slice!RingSorted
      <4>6. \A j, m \in 1 .. Len(slabs') : slabs'[j] = slabs'[m] => j = m BY <1>0, <4>1 DEF Distinct
      <4> QED BY <4>4, <4>5, <4>6
    <3> QED BY <3>1, <3>2
  <2>3. Page(p)'
    <3>1. Cardinality(Free \cup {c}) = Cardinality(Free) + 1 BY <1>3, <1>9, OneChunk
    <3>2. Cardinality(chunks'[p]) = PageSize - n_allocated'[p] BY <1>3, <1>10, <2>1, <3>1, PagesAssumption
    <3>3. chunks'[p] \cup {d \in Slice!Outside' : d[1] = p} = {p} \X (1 .. PageSize)
      BY <1>3, <1>9, <1>11, <2>1
    <3>4. chunks'[p] \cap Slice!Outside' = {} BY <1>3, <2>1
    <3> QED BY <1>2, <2>2, <3>2, <3>3, <3>4 DEF Page
  <2>4. \A q \in Pages : Page(q)' BY <1>14, <2>2, <2>3
  <2> QED BY <1>13, <2>2, <2>4 DEF SlabInv
<1> QED BY <1>15, <1>16

LEMMA AllocFromSlabsKeeps ==
    ASSUME SliceInv, NEW t \in Threads, Slice!AllocFromSlabs(t) PROVE SliceInv'
<1>0. /\ SliceShape /\ Phases /\ Counts /\ slicePc[t] = "slab" /\ slab_mutex' = t /\ Slice!OnePlace
      /\ UNCHANGED <<cache, magazine1, magazine2, inUse, slicePc, mem, threshold>>
  BY DEF SliceInv, Slice!AllocFromSlabs
<1>1. Counts' BY <1>0 DEF Counts, Exact
<1>2. CASE \E p \in Pages : Slice!AddSlab(p) /\ UNCHANGED <<transit, taken>>
  <2>1. Slice!OnePlace' /\ Slice!Outside' = Slice!Outside BY <1>0, <1>2, NothingMoves
  <2>2. SlabShape' /\ SlabInv' BY <1>2, <2>1, AddSlabKeeps
  <2>3. SliceShape' BY <1>0, <1>2, <2>2 DEF SliceShape, SlabShape
  <2>4. Phases' BY <1>0, <1>2 DEF Phases, Phase
  <2> QED BY <1>1, <2>1, <2>2, <2>3, <2>4 DEF SliceInv
<1>3. CASE \E c \in Slice!Available : /\ Slice!AllocChunk(c)
                                     /\ transit' = [transit EXCEPT ![t] = @ \cup {c}]
                                     /\ taken' = [taken EXCEPT ![t] = @ + 1]
  <2>1. PICK c : /\ Slice!AllocChunk(c) /\ transit' = [transit EXCEPT ![t] = @ \cup {c}]
                 /\ taken' = [taken EXCEPT ![t] = @ + 1]
    BY <1>3
  <2>2. /\ c \in Chunks /\ c \notin Slice!Outside
        /\ Slice!Outside' = Slice!Outside \cup {c} => SlabShape' /\ SlabInv'
    BY <2>1, AllocChunkKeeps
  <2>3. Slice!OnePlace' /\ Slice!Outside' = Slice!Outside \cup {c} /\ c \notin transit[t]
    BY <1>0, <2>1, <2>2, Gained
  <2>4. SliceShape' BY <1>0, <2>1, <2>2, <2>3 DEF SliceShape, SlabShape
  <2>5. Phases'
    <3>1. /\ transit'[t] = transit[t] \cup {c} /\ taken'[t] = taken[t] + 1
          /\ \A u \in Threads \ {t} : transit'[u] = transit[u] /\ taken'[u] = taken[u]
      BY <1>0, <2>1 DEF SliceShape
    <3>2. transit[t] \in SUBSET Chunks /\ taken[t] = Cardinality(transit[t]) /\ Phase(t)
      BY <1>0 DEF SliceShape, Phases, Phase
    <3>3. Cardinality(transit'[t]) = taken'[t] BY <2>2, <2>3, <3>1, <3>2, OneChunk
    <3>4. Phase(t)' BY <1>0, <3>2, <3>3 DEF Phase
    <3>5. ASSUME NEW u \in Threads \ {t} PROVE Phase(u)' BY <1>0, <3>1 DEF Phases, Phase
    <3> QED BY <3>4, <3>5 DEF Phases
  <2> QED BY <1>1, <2>2, <2>3, <2>4, <2>5 DEF SliceInv
<1> QED BY <1>2, <1>3 DEF Slice!AllocFromSlabs

LEMMA FreeTrashKeeps ==
    ASSUME SliceInv, NEW t \in Threads, Slice!FreeTrash(t) PROVE SliceInv'
<1>0. /\ SliceShape /\ Phases /\ Counts /\ slicePc[t] \in {"trash", "trash1", "trash2"} /\ slab_mutex' = t
      /\ UNCHANGED <<cache, magazine1, magazine2, inUse, slicePc, mem, threshold, taken>>
  BY DEF SliceInv, Slice!FreeTrash
<1>1. PICK c \in transit[t] : Slice!FreeChunk(c) /\ transit' = [transit EXCEPT ![t] = @ \ {c}]
  BY DEF Slice!FreeTrash
<1>2. Slice!OnePlace' /\ Slice!Outside' = Slice!Outside \ {c} /\ c \in Slice!Outside /\ c \in Chunks
  BY <1>0, <1>1, Returned
<1>3. SlabShape' /\ SlabInv' BY <1>1, <1>2, FreeChunkKeeps
<1>4. SliceShape' BY <1>0, <1>1, <1>3 DEF SliceShape, SlabShape
<1>5. Phases'
  <2>1. \A u \in Threads \ {t} : transit'[u] = transit[u] BY <1>0, <1>1 DEF SliceShape
  <2>2. ASSUME NEW u \in Threads PROVE Phase(u)' BY <1>0, <2>1 DEF Phases, Phase
  <2> QED BY <2>2 DEF Phases
<1>6. Counts' BY <1>0 DEF Counts, Exact
<1> QED BY <1>2, <1>3, <1>4, <1>5, <1>6 DEF SliceInv

LEMMA SliceStart == Slice!Init => SliceInv
<1> SUFFICES ASSUME Slice!Init PROVE SliceInv OBVIOUS
<1> USE DEF Slice!Init
<1>1. SliceShape BY NoChunksExact DEF SliceShape
<1>2. Phases BY NoChunksExact DEF Phases, Phase
<1>3. Slice!Cached = {} /\ \A t \in Threads : Slice!Own(t) = {}
  BY NoChunksExact DEF Slice!Cached, Slice!Own
<1>4. Slice!Outside = {} BY <1>3 DEF Slice!Outside
<1>5. Slice!OnePlace BY <1>3, NoChunksExact DEF Slice!OnePlace, Slice!OwnApart, Slice!CacheApart
<1>6. SlabInv BY <1>4 DEF SlabInv, Page, Slice!Ring, Slice!RingSorted
<1>7. Counts BY NoChunksExact DEF Counts
<1> QED BY <1>1, <1>2, <1>5, <1>6, <1>7 DEF SliceInv

LEMMA SliceStep == SliceInv /\ [Slice!Next]_(Slice!vars) => SliceInv'
<1> SUFFICES ASSUME SliceInv, [Slice!Next]_(Slice!vars) PROVE SliceInv' OBVIOUS
<1>1. CASE Slice!Next
  <2>1. PICK t \in Threads :
           \/ Slice!Alloc(t) \/ Slice!PopMagazine(t) \/ Slice!AllocFromSlabs(t) \/ Slice!Reload(t)
           \/ \E c \in inUse : Slice!Free1(t, c)
           \/ Slice!Unload(t) \/ Slice!FreeTrash(t) \/ Slice!TrashFreed(t)
           \/ Slice!Exit(t) \/ Slice!CleanUp1(t) \/ Slice!CleanUp2(t)
    BY <1>1 DEF Slice!Next
  <2> QED BY <2>1, AllocKeeps, PopMagazineKeeps, AllocFromSlabsKeeps, ReloadKeeps, Free1Keeps, UnloadKeeps,
             FreeTrashKeeps, TrashFreedKeeps, ExitKeeps, CleanUp1Keeps, CleanUp2Keeps
<1>2. CASE UNCHANGED Slice!vars
  <2>1. UNCHANGED <<slabs, chunks, n_allocated, slab_mutex, cache, magazine1, magazine2, inUse, slicePc, mem,
                    transit, threshold, taken>>
    BY <1>2 DEF Slice!vars, Slice!slabVars, Slice!loopVars
  <2>2. SliceShape' /\ Phases' /\ Counts' BY <2>1 DEF SliceInv, SliceShape, Phases, Phase, Counts, Exact
  <2>3. Slice!OnePlace' /\ Slice!Outside' = Slice!Outside BY <2>1, NothingMoves DEF SliceInv
  <2> QED BY <2>1, <2>2, <2>3, SliceParts
<1> QED BY <1>1, <1>2

LEMMA Conserved == SliceInv => Slice!ChunksConserved
<1> SUFFICES ASSUME SliceInv PROVE Slice!ChunksConserved OBVIOUS
<1>1. Slice!OnePlace /\ Slice!RingSorted BY DEF SliceInv, SlabInv
<1>2. Slice!PagesKept
  <2>1. \A p \in Pages : Page(p) BY DEF SliceInv, SlabInv
  <2> QED BY <2>1, SliceCardinality DEF Slice!PagesKept, Page
<1>3. Slice!CountsExact
  BY SliceCardinality DEF Slice!CountsExact, Slice!Exact, SliceInv, Counts, Exact
<1> QED BY <1>1, <1>2, <1>3 DEF Slice!ChunksConserved

(* a_slice_alloc() and a_slice_free1(), for any number of threads that     *)
(* begin and end, and any pages: no chunk is lost and none is given out    *)
(* twice, the counts of the magazines and of the pages are exact, and the  *)
(* ring of pages keeps those with free chunks in front.                    *)
THEOREM SliceConservesChunks == Slice!Spec => []ChunksConserved
<1>1. Slice!Spec => []SliceInv BY SliceStart, SliceStep, PTL DEF Slice!Spec
<1> QED BY <1>1, Conserved, PTL DEF ChunksConserved
=============================================================================
