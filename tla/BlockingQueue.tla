--------------------------- MODULE BlockingQueue ---------------------------
(***************************************************************************)
(* What util/AAsyncQueue.c promises the threads that share it: push() and  *)
(* pop() take effect at once, items leave from the tail in the order they  *)
(* entered at the head, a thread in pop() waits only while there is no     *)
(* item, only a timed pop() may come back without one, and an item in the  *)
(* queue is taken when somebody waits for it.                              *)
(***************************************************************************)
EXTENDS AQueue

CONSTANTS Threads, Items, MaxLength,
          rank,           \* the priority a sort function gives to each item
          None            \* NULL, what pop() returns when it has no item

VARIABLES queue,          \* the items, head first
          waiting,        \* whether each thread waits in pop(), and how
          got             \* what the last pop() of each thread returned

vars == <<queue, waiting, got>>

Waits == {"no", "forever", "timed"}

compare_cb == [x \in Items |-> -rank[x]]

Init == /\ queue = <<>>
        /\ waiting = [t \in Threads |-> "no"]
        /\ got = [t \in Threads |-> None]

Put == \E x \in Items :
          /\ Len(queue) < MaxLength
          /\ queue' \in {PushHead(queue, x), Push(queue, x),
                         InsertSorted(queue, x, compare_cb)}
          /\ UNCHANGED <<waiting, got>>

Rearrange == /\ \/ queue' = SortQueue(queue, compare_cb)
                \/ \E x \in ToSet(queue) : queue' = RemoveItem(queue, x)
             /\ UNCHANGED <<waiting, got>>

Receive(t) == /\ queue # <<>>
              /\ queue' = Front(queue)
              /\ got' = [got EXCEPT ![t] = Last(queue)]
              /\ waiting' = [waiting EXCEPT ![t] = "no"]

Take(t) == waiting[t] = "no" /\ Receive(t)

WaiterTakes(t) == waiting[t] # "no" /\ Receive(t)

StartWaiting(t) == /\ waiting[t] = "no" /\ queue = <<>>
                   /\ \E how \in Waits \ {"no"} :
                         waiting' = [waiting EXCEPT ![t] = how]
                   /\ UNCHANGED <<queue, got>>

(* tryPop(), or a timed pop() whose time is over.                          *)
GiveUp(t) == /\ waiting[t] # "forever" /\ queue = <<>>
             /\ got' = [got EXCEPT ![t] = None]
             /\ waiting' = [waiting EXCEPT ![t] = "no"]
             /\ UNCHANGED queue

Next == \/ Put
        \/ Rearrange
        \/ \E t \in Threads : \/ Take(t) \/ WaiterTakes(t)
                              \/ StartWaiting(t) \/ GiveUp(t)

SafeSpec == Init /\ [][Next]_vars

(* An item is not left in the queue while threads wait for one.            *)
Spec == SafeSpec /\ WF_vars(\E t \in Threads : WaiterTakes(t))
=============================================================================
