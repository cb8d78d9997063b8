---------------------------- MODULE AAsyncQueue ----------------------------
(***************************************************************************)
(* util/AAsyncQueue.c: a queue shared by threads, one mutex, one condition *)
(* variable.  What happens between lock() and unlock() is one action: the  *)
(* mutex is a lock (theorem MutexImplementsLock).  cond.wait() is not: it  *)
(* releases the mutex, sleeps in the kernel unless the condition word has  *)
(* changed since it was sampled, and takes the mutex again.  A thread is   *)
(*    gap       between the release of the mutex and FUTEX_WAIT            *)
(*    asleep    in the kernel                                              *)
(*    woken     on its way back to the mutex, wait() will return TRUE      *)
(*    timedout  on its way back to the mutex, wait() will return FALSE     *)
(* signal() is always called with the mutex held here; the increment of    *)
(* the condition word makes the FUTEX_WAIT of every thread in the gap      *)
(* return at once, and FUTEX_WAKE wakes one of the threads asleep.         *)
(***************************************************************************)
EXTENDS AQueue

CONSTANTS Threads, Items,
          MaxLength,      \* bound on the length of the queue
          rank,           \* the priority a sort function gives to each item
          None            \* NULL

ASSUME ThreadsAssumption == IsFiniteSet(Threads)
ASSUME NoneAssumption == None \notin Items
ASSUME RankAssumption == rank \in [Items -> Int]

VARIABLES queue,
          waitingThreads,
          pc,             \* where each thread is in pop()
          timed,          \* whether the pop() of each thread has an endTime
          got,            \* what the last pop() of each thread returned
          orderly         \* history: no unsorted push since the last sort

vars == <<queue, waitingThreads, pc, timed, got, orderly>>

InWait == {"gap", "asleep", "woken", "timedout"}

Init == /\ queue = <<>>
        /\ waitingThreads = 0
        /\ pc = [t \in Threads |-> "idle"]
        /\ timed = [t \in Threads |-> FALSE]
        /\ got = [t \in Threads |-> None]
        /\ orderly = TRUE

(* The comparison callback of the queue negates the caller's, because      *)
(* items are popped from the tail.                                         *)
compare_cb == [x \in Items |-> -rank[x]]
-----------------------------------------------------------------------------
(* ACond.signal() with the mutex held.                                     *)
signal == \E w \in SUBSET {t \in Threads : pc[t] = "asleep"} :
             /\ IF \E t \in Threads : pc[t] = "asleep"
                THEN Cardinality(w) = 1 ELSE w = {}
             /\ pc' = [t \in Threads |-> IF pc[t] = "gap" \/ t \in w
                                         THEN "woken" ELSE pc[t]]

(* Faulty variant: the item is announced only to a queue that was empty.   *)
AnnounceFirstItem(q) ==
    /\ IF waitingThreads > 0 /\ queue = <<>> THEN signal ELSE UNCHANGED pc
    /\ queue' = q
    /\ UNCHANGED <<waitingThreads, timed, got>>

(* The common end of every push: the item is in the queue, and one of the  *)
(* threads that wait is told.                                              *)
Announce(q) ==
    /\ IF waitingThreads > 0 THEN signal ELSE UNCHANGED pc
    /\ queue' = q
    /\ UNCHANGED <<waitingThreads, timed, got>>

(* push(): a thread inside pop() does nothing else.                        *)
PushData(t, x) == /\ pc[t] = "idle" /\ Len(queue) < MaxLength
                  /\ Announce(PushHead(queue, x))
                  /\ orderly' = (queue = <<>>)

(* pushFront(): the item is the next one to be popped.                     *)
PushFront(t, x) == /\ pc[t] = "idle" /\ Len(queue) < MaxLength
                   /\ Announce(Push(queue, x))
                   /\ orderly' = (queue = <<>>)

(* Faulty variant: the caller's comparison is not negated.                 *)
PushSortedUpwards(t, x) ==
    /\ pc[t] = "idle" /\ Len(queue) < MaxLength
    /\ Announce(InsertSorted(queue, x, rank))
    /\ UNCHANGED orderly

PushSorted(t, x) == /\ pc[t] = "idle" /\ Len(queue) < MaxLength
                    /\ Announce(InsertSorted(queue, x, compare_cb))
                    /\ UNCHANGED orderly

Sort(t) == /\ pc[t] = "idle"
           /\ queue' = SortQueue(queue, compare_cb)
           /\ orderly' = TRUE
           /\ UNCHANGED <<waitingThreads, pc, timed, got>>

(* remove(): FALSE and no change when the item is not in the queue.        *)
RemoveData(t, x) == /\ pc[t] = "idle" /\ x \in ToSet(queue)
                    /\ queue' = RemoveItem(queue, x)
                    /\ UNCHANGED <<waitingThreads, pc, timed, got, orderly>>
-----------------------------------------------------------------------------
(* The end of popUnlocked(): popLast() of a queue that may be empty.       *)
PopLast(t) == /\ IF queue = <<>>
                 THEN /\ got' = [got EXCEPT ![t] = None]
                      /\ UNCHANGED queue
                 ELSE /\ got' = [got EXCEPT ![t] = Last(queue)]
                      /\ queue' = Front(queue)
              /\ pc' = [pc EXCEPT ![t] = "idle"]
              /\ UNCHANGED orderly

(* pop() that finds an item, tryPop(), and a timed pop() that finds the    *)
(* queue empty after its endTime: wait() returns FALSE without waiting.    *)
PopAtOnce(t) == /\ pc[t] = "idle"
                /\ PopLast(t)
                /\ UNCHANGED <<waitingThreads, timed>>

(* pop() that finds the queue empty: the condition word is sampled and the *)
(* mutex released.                                                         *)
PopWaits(t, hasEnd) == /\ pc[t] = "idle" /\ queue = <<>>
                       /\ waitingThreads' = waitingThreads + 1
                       /\ pc' = [pc EXCEPT ![t] = "gap"]
                       /\ timed' = [timed EXCEPT ![t] = hasEnd]
                       /\ UNCHANGED <<queue, got, orderly>>

(* FUTEX_WAIT of a thread whose sample is still the condition word.        *)
FutexWait(t) == /\ pc[t] = "gap"
                /\ pc' = [pc EXCEPT ![t] = "asleep"]
                /\ UNCHANGED <<queue, waitingThreads, timed, got, orderly>>

(* FUTEX_WAIT ends without a wake-up: a signal handler ran.                *)
Interrupted(t) == /\ pc[t] = "asleep"
                  /\ pc' = [pc EXCEPT ![t] = "woken"]
                  /\ UNCHANGED <<queue, waitingThreads, timed, got, orderly>>

Timeout(t) == /\ pc[t] = "asleep" /\ timed[t]
              /\ pc' = [pc EXCEPT ![t] = "timedout"]
              /\ UNCHANGED <<queue, waitingThreads, timed, got, orderly>>

(* Back from wait() with the mutex held and still no item: wait again.     *)
WaitsAgain(t) == /\ pc[t] = "woken" /\ queue = <<>>
                 /\ pc' = [pc EXCEPT ![t] = "gap"]
                 /\ UNCHANGED <<queue, waitingThreads, timed, got, orderly>>

(* Faulty variant: the queue is not looked at again after wait().          *)
LeavesOnWakeup(t) == /\ pc[t] \in {"woken", "timedout"}
                     /\ waitingThreads' = waitingThreads - 1
                     /\ PopLast(t)
                     /\ UNCHANGED timed

(* Faulty variant: a pop() that times out is not taken off the count.      *)
LeavesUncounted(t) == /\ \/ pc[t] = "woken" /\ (queue # <<>> \/ timed[t])
                         \/ pc[t] = "timedout"
                      /\ waitingThreads' = IF pc[t] = "woken" THEN waitingThreads - 1
                                           ELSE waitingThreads
                      /\ PopLast(t)
                      /\ UNCHANGED timed

(* The loop ends: there is an item, or the time is over.  The endTime may  *)
(* have passed on the way back to the mutex, so a woken timed pop() may    *)
(* give up as well.                                                        *)
PopLeaves(t) == /\ \/ pc[t] = "woken" /\ (queue # <<>> \/ timed[t])
                   \/ pc[t] = "timedout"
                /\ waitingThreads' = waitingThreads - 1
                /\ PopLast(t)
                /\ UNCHANGED timed
-----------------------------------------------------------------------------
Caller(t) == \/ \E x \in Items : \/ PushData(t, x) \/ PushFront(t, x)
                                 \/ PushSorted(t, x) \/ RemoveData(t, x)
             \/ Sort(t)
             \/ PopAtOnce(t)
             \/ \E hasEnd \in BOOLEAN : PopWaits(t, hasEnd)

Waiter(t) == \/ FutexWait(t) \/ Interrupted(t) \/ Timeout(t)
             \/ WaitsAgain(t) \/ PopLeaves(t)

Next == \E t \in Threads : Caller(t) \/ Waiter(t)

SafeSpec == Init /\ [][Next]_vars

(* A thread that is awake inside pop() gets the mutex and goes on.         *)
Fairness == \A t \in Threads : /\ WF_vars(FutexWait(t))
                               /\ WF_vars(WaitsAgain(t) \/ PopLeaves(t))

Spec == SafeSpec /\ Fairness
-----------------------------------------------------------------------------
TypeOK == /\ queue \in Seq(Items)
          /\ waitingThreads \in Nat
          /\ pc \in [Threads -> InWait \cup {"idle"}]
          /\ timed \in [Threads -> BOOLEAN]
          /\ got \in [Threads -> Items \cup {None}]
          /\ orderly \in BOOLEAN

Waiters == {t \in Threads : pc[t] # "idle"}
Woken == {t \in Threads : pc[t] = "woken"}

(* length(): what it subtracts is the number of threads inside wait(), the *)
(* ones that timed out and the ones already woken included; AThreadPool    *)
(* decides from it whether a thread is free.                               *)
WaitingCounted == waitingThreads = Cardinality(Waiters)

(* push(), pushFront() and pushSorted() against pop(): while a thread      *)
(* sleeps there is, for every item in the queue, a thread on its way to it *)
(* (one that timed out does not count: it was not woken for an item).      *)
NoLostWakeup == (\E t \in Threads : pc[t] \in {"gap", "asleep"})
                    => Len(queue) <= Cardinality(Woken)

(* pushSorted() and sort(): as long as nothing was pushed past the sort    *)
(* function, the next item popped is one of the smallest.                  *)
PopsInOrder == orderly =>
    \A i \in 1 .. Len(queue) : rank[queue[i]] >= rank[queue[Len(queue)]]

(* AAsyncQueue is the blocking queue: in particular only a pop() with an   *)
(* endTime, or tryPop(), returns NULL (the assertion at the end of         *)
(* popUnlocked()), and an item in the queue is taken when threads wait.    *)
Waiting == [t \in Threads |-> IF pc[t] = "idle" THEN "no"
                              ELSE IF timed[t] THEN "timed" ELSE "forever"]
Abstract == INSTANCE BlockingQueue WITH waiting <- Waiting
ImplementsQueue == Abstract!Spec
=============================================================================
