------------------------------- MODULE AQSort -------------------------------
(***************************************************************************)
(* lang/AQSort.c: sorting an array of elements.  Large elements are sorted *)
(* indirectly: an array of pointers is sorted, and then each element is    *)
(* moved to its place along the cycles of the permutation, with room for   *)
(* one element beside the array.                                           *)
(***************************************************************************)
EXTENDS MergeSort, AQueue

CONSTANTS Elements, rank

VARIABLES array,
          input           \* history: the array before the sort, or <<>>

vars == <<array, input>>

Arrays == UNION {{s \in [1 .. n -> Elements] : IsInjective(s)} : n \in 2 .. Cardinality(Elements)}

Init == array \in Arrays /\ input = <<>>
-----------------------------------------------------------------------------
(* One round of the do loop: the element that tp[j] points to, b[k], goes  *)
(* to j; at the end of the cycle the one that was saved does.              *)
RECURSIVE FollowCycle(_, _, _, _)
FollowCycle(b, tp, i, j) ==
    LET k == tp[j] IN
    IF k = i THEN [b |-> [b EXCEPT ![j] = b[0]], tp |-> [tp EXCEPT ![j] = j]]
    ELSE FollowCycle([b EXCEPT ![j] = b[k]], [tp EXCEPT ![j] = j], i, k)

(* Faulty variant: tp[] is not corrected on the way.                       *)
RECURSIVE PlaceAgain(_, _, _)
PlaceAgain(b, tp, i) ==
    IF i > Len(tp) THEN b
    ELSE IF tp[i] = i THEN PlaceAgain(b, tp, i + 1)
    ELSE PlaceAgain(FollowCycle([b EXCEPT ![0] = b[i]], tp, i, i).b, tp, i + 1)

(* b[0] is tmp_storage.                                                    *)
RECURSIVE PlaceFrom(_, _, _)
PlaceFrom(b, tp, i) ==
    IF i > Len(tp) THEN b
    ELSE IF tp[i] = i THEN PlaceFrom(b, tp, i + 1)
    ELSE LET r == FollowCycle([b EXCEPT ![0] = b[i]], tp, i, i)
         IN  PlaceFrom(r.b, r.tp, i + 1)

SortIndirect(a) ==
    LET pointerRank == [i \in 1 .. Len(a) |-> rank[a[i]]]
        tp == MergeSorted([i \in 1 .. Len(a) |-> i], pointerRank)
        b == PlaceFrom([i \in 0 .. Len(a) |-> IF i = 0 THEN a[1] ELSE a[i]], tp, 1)
    IN  [i \in 1 .. Len(a) |-> b[i]]

(* msort_r(), for small and for large elements.                            *)
Sort == /\ input = <<>>
        /\ input' = array
        /\ \/ array' = MergeSorted(array, rank)
           \/ array' = SortIndirect(array)

Next == Sort

Spec == Init /\ [][Next]_vars
-----------------------------------------------------------------------------
(* Both ways sort, keep every element, and keep equal ones in their order: *)
(* the result is the one that AQueue defines by the place of each element. *)
SortedStably == input # <<>> => array = SortQueue(input, rank)
=============================================================================
