----------------------------- MODULE MergeSort -----------------------------
(***************************************************************************)
(* The merge sort of lang/AQSort.c (msort_with_tmp) and of util/AList.c    *)
(* (sortReal, sortMerge): the same split and the same comparison, on the   *)
(* elements of an array or the nodes of a list.  key is the order that the *)
(* comparison callback stands for.                                         *)
(***************************************************************************)
EXTENDS Integers, Sequences

RECURSIVE Merge(_, _, _)
Merge(a, b, key) ==
    IF a = <<>> THEN b
    ELSE IF b = <<>> THEN a
    ELSE IF key[Head(a)] <= key[Head(b)]
    THEN <<Head(a)>> \o Merge(Tail(a), b, key)
    ELSE <<Head(b)>> \o Merge(a, Tail(b), key)

RECURSIVE MergeSorted(_, _)
MergeSorted(s, key) ==
    LET half == Len(s) \div 2
    IN  IF Len(s) <= 1 THEN s
        ELSE Merge(MergeSorted(SubSeq(s, 1, half), key),
                   MergeSorted(SubSeq(s, half + 1, Len(s)), key), key)
=============================================================================
