------------------------------- MODULE AQueue -------------------------------
(***************************************************************************)
(* The operations of util/AQueue.c on the sequence of its items, head      *)
(* first.  A comparison callback stands for the order of integer keys: it  *)
(* is negative for (a, b) when key[a] < key[b], zero when they are equal.  *)
(***************************************************************************)
EXTENDS Integers, FiniteSets, Sequences, SequencesExt

PushHead(q, x) == <<x>> \o q
Push(q, x) == Append(q, x)

(* insertSorted: in front of the first item that may follow the new one.   *)
InsertSorted(q, x, key) ==
    LET places == {i \in 1 .. Len(q) : key[x] <= key[q[i]]} \cup {Len(q) + 1}
    IN  InsertAt(q, Min(places), x)

(* sort: a merge sort that keeps equal items in the order they were in.    *)
(* SortPlace is where each item goes: behind those that belong before it.  *)
SortPlace(q, key) ==
    [j \in 1 .. Len(q) |->
        Cardinality({i \in 1 .. Len(q) :
                        \/ key[q[i]] < key[q[j]]
                        \/ key[q[i]] = key[q[j]] /\ i <= j})]

SortQueue(q, key) ==
    [k \in 1 .. Len(q) |-> q[CHOOSE j \in 1 .. Len(q) : SortPlace(q, key)[j] = k]]

(* remove: the first occurrence from the head.                             *)
RemoveItem(q, x) == RemoveFirst(q, x)
=============================================================================
