--------------------------- MODULE APriorityQueue ---------------------------
(***************************************************************************)
(* util/APriorityQueue.c: a heap in an array that is extended when it is   *)
(* full.  compareFunc(a, b), "a goes behind b", stands for the order of    *)
(* the ranks.  push() and pop() move items along one path of the heap:     *)
(* each round of their loops is an action, in which an item is copied into *)
(* the hole, place k of the code, or the item that looks for its place is. *)
(*                                                                         *)
(* Whoever calls pop() or top() knows that the queue is not empty: pop()   *)
(* of an empty queue would move finish in front of start.                  *)
(***************************************************************************)
EXTENDS Integers, FiniteSets, Sequences

CONSTANTS Items, rank,
          MaxLength,      \* bound on the items in the queue
          None            \* no item

VARIABLES heap,           \* the array from start to finish, from index 1
          op,             \* the call that is under way, or "none"
          hole, moving,   \* its k, and the item that goes there; or 0 and None
          content         \* history: how often each item was pushed and not popped

vars == <<heap, op, hole, moving, content>>

Init == /\ heap = <<>>
        /\ op = "none" /\ hole = 0 /\ moving = None
        /\ content = [x \in Items |-> 0]

compareFunc(a, b) == rank[a] > rank[b]

Fill == /\ heap' = [heap EXCEPT ![hole] = moving]
        /\ op' = "none" /\ hole' = 0 /\ moving' = None

MoveHole(from) == /\ heap' = [heap EXCEPT ![hole] = heap[from]]
                  /\ hole' = from
                  /\ UNCHANGED <<op, moving>>
-----------------------------------------------------------------------------
(* push(): the slot behind finish is the first hole.                       *)
Push(x) == /\ op = "none" /\ Len(heap) < MaxLength
           /\ heap' = Append(heap, x)
           /\ op' = "push" /\ hole' = Len(heap) + 1 /\ moving' = x
           /\ content' = [content EXCEPT ![x] = @ + 1]

(* A round of its loop, or the assignment behind it.                       *)
SiftUp == /\ op = "push"
          /\ LET parent == hole \div 2
             IN  IF hole = 1 \/ compareFunc(moving, heap[parent]) THEN Fill
                 ELSE MoveHole(parent)
          /\ UNCHANGED content

(* pop() returns the first item; the last one must find another place.     *)
Pop == /\ op = "none" /\ heap # <<>>
       /\ heap' = SubSeq(heap, 1, Len(heap) - 1)
       /\ IF Len(heap) = 1 THEN UNCHANGED <<op, hole, moving>>
          ELSE op' = "pop" /\ hole' = 1 /\ moving' = heap[Len(heap)]
       /\ content' = [content EXCEPT ![heap[1]] = @ - 1]

Child == LET left == 2 * hole
             right == 2 * hole + 1
         IN  IF right <= Len(heap) /\ compareFunc(heap[left], heap[right])
             THEN right ELSE left

(* Faulty variant: the last node that has a child is not looked at.        *)
SiftDownShort ==
    /\ op = "pop"
    /\ IF 2 * hole >= Len(heap) \/ ~compareFunc(moving, heap[Child]) THEN Fill
       ELSE MoveHole(Child)
    /\ UNCHANGED content

(* As long as there is a child that goes in front of the item.             *)
SiftDown == /\ op = "pop"
            /\ IF 2 * hole > Len(heap) \/ ~compareFunc(moving, heap[Child]) THEN Fill
               ELSE MoveHole(Child)
            /\ UNCHANGED content

Next == Pop \/ SiftUp \/ SiftDown \/ \E x \in Items : Push(x)

Spec == Init /\ [][Next]_vars
-----------------------------------------------------------------------------
TypeOK == /\ heap \in Seq(Items) /\ Len(heap) <= MaxLength
          /\ \/ op = "none" /\ hole = 0 /\ moving = None
             \/ op \in {"push", "pop"} /\ hole \in 1 .. Len(heap) /\ moving \in Items
          /\ content \in [Items -> Nat]

(* The array with the item in the hole.                                    *)
Filled == [i \in 1 .. Len(heap) |-> IF i = hole THEN moving ELSE heap[i]]

(* push(), pop(), top() and validData(): the array and the item on its way *)
(* are what was pushed and not popped, nothing lost or doubled while items *)
(* move; and when no call is under way every node goes in front of its     *)
(* children, and top() is an item that no other one goes in front of.      *)
TopIsLeast ==
    /\ \A x \in Items : Cardinality({i \in 1 .. Len(heap) : Filled[i] = x}) = content[x]
    /\ op = "none" =>
          /\ \A i \in 2 .. Len(heap) : ~compareFunc(heap[i \div 2], heap[i])
          /\ heap # <<>> => \A x \in Items : content[x] > 0 => ~compareFunc(heap[1], x)
=============================================================================
