---------------------------- MODULE SourceLists ----------------------------
(***************************************************************************)
(* main/ArrayStorage.c: the event sources by priority.  prioIndex is the   *)
(* sorted array of the priorities in use; each priority has an array of    *)
(* sources, datas, of which the first count are in use.  Removing a source *)
(* moves the following ones down and leaves the last slot as it was, so    *)
(* the slots beyond count hold old pointers; NULL is a slot never used.    *)
(*                                                                         *)
(* The iterator is a pair of integers that nextIter() moves through these  *)
(* arrays: whoever changes them meanwhile changes what it will find.       *)
(***************************************************************************)
EXTENDS Integers, Sequences, FiniteSets, SequencesExt

CONSTANTS Priorities, NULL

ASSUME PrioritiesAssumption == Priorities \subseteq Int

NoLists == [prioIndex |-> <<>>,
            datas |-> [p \in Priorities |-> <<>>],
            count |-> [p \in Priorities |-> 0]]

(* Slot n of an array of pointers that is initially NULL.                  *)
Slot(slots, n) == IF n \in 1 .. Len(slots) THEN slots[n] ELSE NULL

(* The slots of an array of n sources after the source at place k is moved *)
(* out: the others move down, slot n keeps its old content.                *)
MovedDown(slots, k, n) ==
    [i \in 1 .. Len(slots) |-> IF k <= i /\ i < n THEN slots[i + 1] ELSE slots[i]]

(* addIndex(): the priority is added and the array sorted, unless it is    *)
(* there.  The array was sorted: the new one goes in front of those that   *)
(* are greater.                                                            *)
AddIndex(prioIndex, p) ==
    LET n == Len(prioIndex)
        k == Min({i \in 1 .. n : p < prioIndex[i]} \cup {n + 1})
    IN  IF p \in ToSet(prioIndex) THEN prioIndex
        ELSE [i \in 1 .. n + 1 |-> IF i < k THEN prioIndex[i]
                                   ELSE IF i = k THEN p ELSE prioIndex[i - 1]]

(* removeIndex(): the priorities behind p move up.                         *)
RemoveIndex(prioIndex, p) ==
    LET k == CHOOSE i \in 1 .. Len(prioIndex) : prioIndex[i] = p
    IN  [i \in 1 .. Len(prioIndex) - 1 |-> prioIndex[IF i < k THEN i ELSE i + 1]]

AddToSourceList(lists, s, p) ==
    LET n == lists.count[p] + 1 IN
    [lists EXCEPT !.datas[p] = IF n <= Len(@) THEN [@ EXCEPT ![n] = s] ELSE Append(@, s),
                  !.count[p] = n,
                  !.prioIndex = AddIndex(@, p)]

Listed(lists, p) == {lists.datas[p][i] : i \in 1 .. lists.count[p]}

(* removeFromSourceList() of a source that is in the list of priority p.   *)
RemoveFromSourceList(lists, s, p) ==
    LET n == lists.count[p]
        k == CHOOSE i \in 1 .. n :
                 lists.datas[p][i] = s /\ \A j \in 1 .. i - 1 : lists.datas[p][j] # s
    IN  [lists EXCEPT !.datas[p] = MovedDown(@, k, n),
                      !.count[p] = n - 1,
                      !.prioIndex = IF n = 1 THEN RemoveIndex(@, p) ELSE @]

(* removeAll() takes the sources out one by one, in the order of the hash  *)
(* table.  When m are left, slot m keeps the last of them: what the slots  *)
(* hold in the end depends on that order.                                  *)
LeftBehind(slots, n) ==
    {[i \in 1 .. Len(slots) |-> IF i <= n THEN slots[last[i]] ELSE slots[i]] :
        last \in {f \in [1 .. n -> 1 .. n] :
                    \A m \in 1 .. n : m <= f[m] /\ \A i \in 1 .. m : f[i] <= f[m]}}

Emptied(lists) ==
    {[prioIndex |-> <<>>, datas |-> d, count |-> [p \in Priorities |-> 0]] :
        d \in {f \in [Priorities -> UNION {LeftBehind(lists.datas[p], lists.count[p]) : p \in Priorities}] :
                 \A p \in Priorities : f[p] \in LeftBehind(lists.datas[p], lists.count[p])}}

(* initIter(), and nextIter() as three operators: whether there is a next  *)
(* source, the source, and the iterator afterwards.                        *)
InitIter == [value |-> 1, count |-> 0]

HasNext(lists, iter) == iter.value <= Len(lists.prioIndex)

NextSource(lists, iter) ==
    Slot(lists.datas[lists.prioIndex[iter.value]], iter.count + 1)

(* Faulty variant: goes one behind the last source of a priority.          *)
NextIterPastCount(lists, iter) ==
    IF iter.count + 1 > lists.count[lists.prioIndex[iter.value]]
    THEN [value |-> iter.value + 1, count |-> 0]
    ELSE [iter EXCEPT !.count = @ + 1]

NextIter(lists, iter) ==
    IF iter.count + 1 >= lists.count[lists.prioIndex[iter.value]]
    THEN [value |-> iter.value + 1, count |-> 0]
    ELSE [iter EXCEPT !.count = @ + 1]
=============================================================================
