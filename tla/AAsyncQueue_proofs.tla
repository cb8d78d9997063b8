------------------------- MODULE AAsyncQueue_proofs -------------------------
(***************************************************************************)
(* Proofs about the queue shared by threads, for any finite set of         *)
(* threads, any items, any priorities and any length; the last part shows  *)
(* that every step of it is one of the blocking queue or invisible.        *)
(***************************************************************************)
EXTENDS AAsyncQueue, AQueue_proofs

OrderlyOK == orderly => Ordered(queue, compare_cb)

(* WaitingCounted is what lets a push rely on waitingThreads > 0 to know   *)
(* that somebody waits; with it NoLostWakeup is inductive.                 *)
IInv == TypeOK /\ WaitingCounted /\ NoLostWakeup /\ OrderlyOK

LEMMA CompareType == compare_cb \in [Items -> Int]
  BY RankAssumption DEF compare_cb

LEMMA ThreadSets ==
    /\ IsFiniteSet(Waiters) /\ Cardinality(Waiters) \in Nat
    /\ IsFiniteSet(Woken) /\ Cardinality(Woken) \in Nat
<1>1. Waiters \subseteq Threads /\ Woken \subseteq Threads
  BY DEF Waiters, Woken
<1> QED
  BY <1>1, ThreadsAssumption, FS_Subset, FS_CardinalityType

LEMMA ThreadSetsNext ==
    /\ IsFiniteSet(Waiters') /\ Cardinality(Waiters') \in Nat
    /\ IsFiniteSet(Woken') /\ Cardinality(Woken') \in Nat
<1>1. Waiters' \subseteq Threads /\ Woken' \subseteq Threads
  BY DEF Waiters, Woken
<1> QED
  BY <1>1, ThreadsAssumption, FS_Subset, FS_CardinalityType

(* A push wakes a sleeping thread for the item it adds.                    *)
LEMMA AnnounceStep ==
    ASSUME IInv, NEW q \in Seq(Items), Announce(q), Len(q) = Len(queue) + 1
    PROVE  /\ queue' = q /\ pc' \in [Threads -> InWait \cup {"idle"}]
           /\ UNCHANGED <<waitingThreads, timed, got>>
           /\ WaitingCounted' /\ NoLostWakeup'
<1> USE DEF IInv, TypeOK, InWait
<1>1. queue' = q /\ UNCHANGED <<waitingThreads, timed, got>>
  BY DEF Announce
<1>2. CASE waitingThreads > 0
  <2>1. PICK w \in SUBSET {t \in Threads : pc[t] = "asleep"} :
           /\ IF \E t \in Threads : pc[t] = "asleep"
              THEN Cardinality(w) = 1 ELSE w = {}
           /\ pc' = [t \in Threads |-> IF pc[t] = "gap" \/ t \in w
                                       THEN "woken" ELSE pc[t]]
    BY <1>2 DEF Announce, signal
  <2>2. pc' \in [Threads -> InWait \cup {"idle"}]
    BY <2>1
  <2>3. Waiters' = Waiters
    BY <2>1 DEF Waiters
  <2>4. ASSUME NEW t \in Threads, pc'[t] \in {"gap", "asleep"}
        PROVE  Len(q) <= Cardinality(Woken')
    <3>1. pc[t] = "asleep"
      BY <2>1, <2>4
    <3>2. IsFiniteSet(w) /\ Cardinality(w) = 1
      <4>1. w \in SUBSET Threads
        OBVIOUS
      <4> QED
        BY <2>1, <3>1, <4>1, ThreadsAssumption, FS_Subset
    <3>3. PICK u : w = {u}
      BY <3>2, FS_Singleton
    <3>4. u \in Threads /\ pc[u] = "asleep"
      BY <3>3
    <3>5. u \notin Woken /\ Woken \cup {u} \subseteq Woken'
      BY <2>1, <3>3, <3>4 DEF Woken
    <3>6. /\ IsFiniteSet(Woken \cup {u})
          /\ Cardinality(Woken \cup {u}) = Cardinality(Woken) + 1
      BY <3>5, ThreadSets, FS_AddElement
    <3>7. Cardinality(Woken) + 1 <= Cardinality(Woken')
      BY <3>5, <3>6, ThreadSetsNext, FS_Subset
    <3>8. Len(queue) <= Cardinality(Woken)
      BY <3>1 DEF NoLostWakeup
    <3>9. Len(queue) \in Nat
      OBVIOUS
    <3> QED
      BY <3>7, <3>8, <3>9, ThreadSets, ThreadSetsNext
  <2> QED
    BY <1>1, <2>2, <2>3, <2>4 DEF WaitingCounted, NoLostWakeup
<1>3. CASE ~ (waitingThreads > 0)
  <2>1. pc' = pc
    BY <1>3 DEF Announce
  <2>2. Waiters = {}
    <3>1. Cardinality(Waiters) = 0
      BY <1>3, ThreadSets DEF WaitingCounted
    <3> QED
      BY <3>1, ThreadSets, FS_EmptySet
  <2>3. \A t \in Threads : pc[t] = "idle"
    BY <2>2 DEF Waiters
  <2> QED
    BY <1>1, <2>1, <2>3 DEF WaitingCounted, Waiters, NoLostWakeup
<1> QED
  BY <1>2, <1>3

(* popLast() of a thread that was not waiting, or after it was counted     *)
(* off: the queue gets shorter unless it was empty.                        *)
LEMMA PopLastStep ==
    ASSUME IInv, NEW t \in Threads, PopLast(t)
    PROVE  /\ queue' \in Seq(Items)
           /\ got' \in [Threads -> Items \cup {None}]
           /\ IF queue = <<>> THEN Len(queue') = 0 ELSE Len(queue') = Len(queue) - 1
           /\ OrderlyOK'
<1> USE DEF IInv, TypeOK
<1>1. CASE queue = <<>>
  BY <1>1 DEF PopLast, OrderlyOK, Ordered
<1>2. CASE queue # <<>>
  <2>1. queue' = Front(queue) /\ got' = [got EXCEPT ![t] = Last(queue)]
        /\ orderly' = orderly
    BY <1>2 DEF PopLast
  <2>2. /\ Front(queue) \in Seq(Items)
        /\ Len(queue) \in Nat \ {0}
        /\ Len(Front(queue)) = Len(queue) - 1
        /\ \A i \in 1 .. Len(queue) - 1 : Front(queue)[i] = queue[i]
        /\ Last(queue) \in Items
    BY <1>2, FrontShape
  <2>3. ASSUME Ordered(queue, compare_cb) PROVE Ordered(Front(queue), compare_cb)
    <3>1. ASSUME NEW i \in 1 .. Len(queue) - 1, NEW j \in 1 .. Len(queue) - 1, i <= j
          PROVE  compare_cb[Front(queue)[i]] <= compare_cb[Front(queue)[j]]
      <4>1. i \in 1 .. Len(queue) /\ j \in 1 .. Len(queue)
        BY <2>2
      <4>2. Front(queue)[i] = queue[i] /\ Front(queue)[j] = queue[j]
        BY <2>2
      <4> QED
        BY <2>3, <3>1, <4>1, <4>2 DEF Ordered
    <3> QED
      BY <2>2, <3>1 DEF Ordered
  <2>4. OrderlyOK'
    <3>1. Ordered(queue, compare_cb)' <=> Ordered(Front(queue), compare_cb)
      BY <2>1 DEF Ordered, compare_cb
    <3> QED
      BY <2>1, <2>3, <3>1 DEF OrderlyOK
  <2> QED
    BY <1>2, <2>1, <2>2, <2>4
<1> QED
  BY <1>1, <1>2

(* A push in any place: what is left to show is the order of the items.    *)
LEMMA PushStep ==
    ASSUME IInv, NEW q \in Seq(Items), Announce(q), Len(q) = Len(queue) + 1,
           orderly' \in BOOLEAN, orderly' => Ordered(q, compare_cb)
    PROVE  IInv'
<1>1. /\ queue' = q /\ pc' \in [Threads -> InWait \cup {"idle"}]
      /\ UNCHANGED <<waitingThreads, timed, got>>
      /\ WaitingCounted' /\ NoLostWakeup'
  BY AnnounceStep
<1>2. TypeOK'
  BY <1>1 DEF IInv, TypeOK
<1>3. OrderlyOK'
  BY <1>1 DEF OrderlyOK, Ordered, compare_cb
<1> QED
  BY <1>1, <1>2, <1>3 DEF IInv

(* A queue of one item is in order.                                        *)
LEMMA SingleItemOrdered ==
    ASSUME NEW q \in Seq(Items), Len(q) = 1
    PROVE  Ordered(q, compare_cb)
<1>1. q[1] \in Items
  OBVIOUS
<1>2. compare_cb[q[1]] \in Int
  BY <1>1, CompareType
<1> QED
  BY <1>2 DEF Ordered

LEMMA CallerStep ==
    ASSUME IInv, NEW t \in Threads, Caller(t)
    PROVE  IInv'
<1> USE DEF IInv, TypeOK
<1>0. queue \in Seq(Items) /\ (queue = <<>> => Len(queue) = 0)
  OBVIOUS
<1>1. ASSUME NEW x \in Items, PushData(t, x) PROVE IInv'
  <2>1. PushHead(queue, x) \in Seq(Items) /\ Len(PushHead(queue, x)) = Len(queue) + 1
    BY <1>0, PushHeadShape
  <2>2. orderly' => Ordered(PushHead(queue, x), compare_cb)
    <3>1. orderly' => queue = <<>>
      BY <1>1, Zenon DEF PushData
    <3>2. queue = <<>> => Len(PushHead(queue, x)) = 1
      BY <1>0, <2>1
    <3> QED
      BY <2>1, <3>1, <3>2, SingleItemOrdered
  <2>3. orderly' \in BOOLEAN /\ Announce(PushHead(queue, x))
    BY <1>1 DEF PushData
  <2> QED
    BY <2>1, <2>2, <2>3, PushStep
<1>2. ASSUME NEW x \in Items, PushFront(t, x) PROVE IInv'
  <2>1. Push(queue, x) \in Seq(Items) /\ Len(Push(queue, x)) = Len(queue) + 1
    BY <1>0 DEF Push
  <2>2. orderly' => Ordered(Push(queue, x), compare_cb)
    <3>1. orderly' => queue = <<>>
      BY <1>2, Zenon DEF PushFront
    <3>2. queue = <<>> => Len(Push(queue, x)) = 1
      BY <1>0, <2>1
    <3> QED
      BY <2>1, <3>1, <3>2, SingleItemOrdered
  <2>3. orderly' \in BOOLEAN /\ Announce(Push(queue, x))
    BY <1>2 DEF PushFront
  <2> QED
    BY <2>1, <2>2, <2>3, PushStep
<1>3. ASSUME NEW x \in Items, PushSorted(t, x) PROVE IInv'
  <2> DEFINE q == InsertSorted(queue, x, compare_cb)
  <2>1. /\ q \in Seq(Items) /\ Len(q) = Len(queue) + 1
        /\ Ordered(queue, compare_cb) => Ordered(q, compare_cb)
    BY <1>0, CompareType, InsertSortedShape
  <2>2. orderly' => Ordered(q, compare_cb)
    BY <1>3, <2>1 DEF PushSorted, OrderlyOK
  <2>3. orderly' \in BOOLEAN /\ Announce(q)
    BY <1>3 DEF PushSorted
  <2> QED
    BY <2>1, <2>2, <2>3, PushStep
<1>4. ASSUME Sort(t) PROVE IInv'
  <2>1. /\ queue' = SortQueue(queue, compare_cb)
        /\ queue' \in Seq(Items) /\ Len(queue') = Len(queue)
        /\ Ordered(SortQueue(queue, compare_cb), compare_cb)
    BY <1>0, <1>4, CompareType, SortQueueShape DEF Sort
  <2>2. UNCHANGED <<waitingThreads, pc, timed, got>> /\ orderly' \in BOOLEAN
    BY <1>4 DEF Sort
  <2>3. OrderlyOK'
    BY <2>1 DEF OrderlyOK, Ordered, compare_cb
  <2>4. WaitingCounted' /\ NoLostWakeup'
    BY <2>1, <2>2 DEF WaitingCounted, NoLostWakeup, Waiters, Woken
  <2> QED
    BY <2>1, <2>2, <2>3, <2>4
<1>5. ASSUME NEW x \in Items, RemoveData(t, x) PROVE IInv'
  <2>1. /\ queue' = RemoveItem(queue, x)
        /\ queue' \in Seq(Items) /\ Len(queue) \in Nat \ {0}
        /\ Len(queue') = Len(queue) - 1
        /\ Ordered(queue, compare_cb) => Ordered(queue', compare_cb)
    BY <1>0, <1>5, CompareType, RemoveItemShape DEF RemoveData
  <2>2. UNCHANGED <<waitingThreads, pc, timed, got, orderly>>
    BY <1>5 DEF RemoveData
  <2>3. OrderlyOK'
    BY <2>1, <2>2 DEF OrderlyOK, Ordered, compare_cb
  <2>4. WaitingCounted'
    BY <2>2 DEF WaitingCounted, Waiters
  <2>5. NoLostWakeup'
    BY <2>1, <2>2, ThreadSets DEF NoLostWakeup, Woken
  <2> QED
    BY <2>1, <2>2, <2>3, <2>4, <2>5
<1>6. ASSUME PopAtOnce(t) PROVE IInv'
  <2>1. /\ queue' \in Seq(Items)
        /\ got' \in [Threads -> Items \cup {None}]
        /\ Len(queue') <= Len(queue) /\ Len(queue) \in Nat /\ Len(queue') \in Nat
        /\ OrderlyOK'
    BY <1>0, <1>6, PopLastStep DEF PopAtOnce
  <2>2. pc' = pc /\ UNCHANGED <<waitingThreads, timed, orderly>>
    BY <1>6 DEF PopAtOnce, PopLast
  <2>3. WaitingCounted'
    BY <2>2 DEF WaitingCounted, Waiters
  <2>4. NoLostWakeup'
    BY <2>1, <2>2, ThreadSets DEF NoLostWakeup, Woken
  <2> QED
    BY <2>1, <2>2, <2>3, <2>4
<1>7. ASSUME NEW hasEnd \in BOOLEAN, PopWaits(t, hasEnd) PROVE IInv'
  <2>1. TypeOK'
    BY <1>7 DEF PopWaits, InWait
  <2>2. OrderlyOK'
    BY <1>7 DEF PopWaits, OrderlyOK, Ordered, compare_cb
  <2>3. Waiters' = Waiters \cup {t} /\ t \notin Waiters
    BY <1>7 DEF PopWaits, Waiters
  <2>4. Cardinality(Waiters') = Cardinality(Waiters) + 1
    BY <2>3, ThreadSets, FS_AddElement
  <2>5. WaitingCounted'
    BY <1>7, <2>4 DEF PopWaits, WaitingCounted
  <2>6. NoLostWakeup'
    BY <1>0, <1>7, ThreadSetsNext DEF PopWaits, NoLostWakeup
  <2> QED
    BY <2>1, <2>2, <2>5, <2>6
<1> QED
  BY <1>1, <1>2, <1>3, <1>4, <1>5, <1>6, <1>7 DEF Caller

LEMMA WaiterStep ==
    ASSUME IInv, NEW t \in Threads, Waiter(t)
    PROVE  IInv'
<1> USE DEF IInv, TypeOK, InWait
<1>0. queue \in Seq(Items) /\ (queue = <<>> => Len(queue) = 0) /\ Len(queue) \in Nat
  OBVIOUS
<1>1. ASSUME FutexWait(t) PROVE IInv'
  <2>1. TypeOK'
    BY <1>1 DEF FutexWait
  <2>2. OrderlyOK'
    BY <1>1 DEF FutexWait, OrderlyOK, Ordered, compare_cb
  <2>3. Waiters' = Waiters /\ Woken' = Woken
    BY <1>1 DEF FutexWait, Waiters, Woken
  <2>4. WaitingCounted' /\ NoLostWakeup'
    BY <1>1, <2>3 DEF FutexWait, WaitingCounted, NoLostWakeup
  <2> QED
    BY <2>1, <2>2, <2>4
<1>2. ASSUME Interrupted(t) PROVE IInv'
  <2>1. TypeOK'
    BY <1>2 DEF Interrupted
  <2>2. OrderlyOK'
    BY <1>2 DEF Interrupted, OrderlyOK, Ordered, compare_cb
  <2>3. Waiters' = Waiters /\ Woken \subseteq Woken'
    BY <1>2 DEF Interrupted, Waiters, Woken
  <2>4. Cardinality(Woken) <= Cardinality(Woken')
    BY <2>3, ThreadSets, ThreadSetsNext, FS_Subset
  <2>5. WaitingCounted'
    BY <1>2, <2>3 DEF Interrupted, WaitingCounted
  <2>6. Len(queue) <= Cardinality(Woken)
    BY <1>2 DEF Interrupted, NoLostWakeup
  <2>7. NoLostWakeup'
    BY <1>0, <1>2, <2>4, <2>6, ThreadSets, ThreadSetsNext DEF Interrupted, NoLostWakeup
  <2> QED
    BY <2>1, <2>2, <2>5, <2>7
<1>3. ASSUME Timeout(t) PROVE IInv'
  <2>1. TypeOK'
    BY <1>3 DEF Timeout
  <2>2. OrderlyOK'
    BY <1>3 DEF Timeout, OrderlyOK, Ordered, compare_cb
  <2>3. Waiters' = Waiters /\ Woken' = Woken
    BY <1>3 DEF Timeout, Waiters, Woken
  <2>4. WaitingCounted' /\ NoLostWakeup'
    BY <1>3, <2>3 DEF Timeout, WaitingCounted, NoLostWakeup
  <2> QED
    BY <2>1, <2>2, <2>4
<1>4. ASSUME WaitsAgain(t) PROVE IInv'
  <2>1. TypeOK'
    BY <1>4 DEF WaitsAgain
  <2>2. OrderlyOK'
    BY <1>4 DEF WaitsAgain, OrderlyOK, Ordered, compare_cb
  <2>3. Waiters' = Waiters
    BY <1>4 DEF WaitsAgain, Waiters
  <2>4. WaitingCounted'
    BY <1>4, <2>3 DEF WaitsAgain, WaitingCounted
  <2>5. NoLostWakeup'
    BY <1>0, <1>4, ThreadSetsNext DEF WaitsAgain, NoLostWakeup
  <2> QED
    BY <2>1, <2>2, <2>4, <2>5
<1>5. ASSUME PopLeaves(t) PROVE IInv'
  <2>1. /\ queue' \in Seq(Items)
        /\ got' \in [Threads -> Items \cup {None}]
        /\ IF queue = <<>> THEN Len(queue') = 0 ELSE Len(queue') = Len(queue) - 1
        /\ OrderlyOK'
    BY <1>5, PopLastStep DEF PopLeaves
  <2>2. /\ pc' = [pc EXCEPT ![t] = "idle"] /\ UNCHANGED <<timed, orderly>>
        /\ waitingThreads' = waitingThreads - 1
        /\ pc[t] \in {"woken", "timedout"}
    BY <1>5 DEF PopLeaves, PopLast
  <2>3. Waiters' = Waiters \ {t} /\ t \in Waiters
    BY <2>2 DEF Waiters
  <2>4. Cardinality(Waiters') = Cardinality(Waiters) - 1
    BY <2>3, ThreadSets, FS_RemoveElement
  <2>5. WaitingCounted' /\ waitingThreads' \in Nat
    BY <2>2, <2>4, ThreadSetsNext DEF WaitingCounted
  <2>6. TypeOK'
    BY <2>1, <2>2, <2>5
  <2>7. ASSUME NEW u \in Threads, pc'[u] \in {"gap", "asleep"}
        PROVE  Len(queue') <= Cardinality(Woken')
    <3>1. pc[u] \in {"gap", "asleep"}
      BY <2>2, <2>7
    <3>2. Len(queue) <= Cardinality(Woken)
      BY <3>1 DEF NoLostWakeup
    <3>3. CASE queue = <<>>
      BY <2>1, <3>3, ThreadSetsNext
    <3>4. CASE queue # <<>> /\ pc[t] = "woken"
      <4>1. Woken' = Woken \ {t} /\ t \in Woken
        BY <2>2, <3>4 DEF Woken
      <4>2. Cardinality(Woken') = Cardinality(Woken) - 1
        BY <4>1, ThreadSets, FS_RemoveElement
      <4> QED
        BY <1>0, <2>1, <3>2, <3>4, <4>2, ThreadSets
    <3>5. CASE queue # <<>> /\ pc[t] = "timedout"
      <4>1. Woken' = Woken
        BY <2>2, <3>5 DEF Woken
      <4> QED
        BY <1>0, <2>1, <3>2, <3>5, <4>1, ThreadSets
    <3> QED
      BY <2>2, <3>3, <3>4, <3>5
  <2>8. NoLostWakeup'
    BY <2>7 DEF NoLostWakeup
  <2> QED
    BY <2>1, <2>5, <2>6, <2>8
<1> QED
  BY <1>1, <1>2, <1>3, <1>4, <1>5 DEF Waiter

LEMMA InitIInv == Init => IInv
<1> SUFFICES ASSUME Init PROVE IInv
  OBVIOUS
<1>1. Waiters = {} /\ Woken = {}
  BY DEF Init, Waiters, Woken
<1>2. Cardinality({}) = 0
  BY FS_EmptySet
<1>3. TypeOK /\ OrderlyOK
  BY DEF Init, TypeOK, InWait, OrderlyOK, Ordered
<1>4. WaitingCounted /\ NoLostWakeup
  BY <1>1, <1>2 DEF Init, WaitingCounted, NoLostWakeup
<1> QED
  BY <1>3, <1>4 DEF IInv

(* AAsyncQueue: every reachable state satisfies the inductive invariant.   *)
THEOREM Invariance == SafeSpec => []IInv
<1>1. IInv /\ [Next]_vars => IInv'
  <2> SUFFICES ASSUME IInv, [Next]_vars PROVE IInv'
    OBVIOUS
  <2>1. CASE Next
    BY <2>1, CallerStep, WaiterStep DEF Next
  <2>2. CASE UNCHANGED vars
    BY <2>2 DEF vars, IInv, TypeOK, WaitingCounted, Waiters, NoLostWakeup, Woken,
                OrderlyOK, Ordered, compare_cb
  <2> QED
    BY <2>1, <2>2
<1> QED
  BY <1>1, InitIInv, PTL DEF SafeSpec

(* length() subtracts the number of threads inside wait(), whatever made   *)
(* them leave it.                                                          *)
THEOREM QueueCountsWaiters == SafeSpec => []WaitingCounted
<1>1. IInv => WaitingCounted
  BY DEF IInv
<1> QED
  BY <1>1, Invariance, PTL

(* push() against pop(): no item waits for a thread that sleeps, for any   *)
(* number of threads.                                                      *)
THEOREM QueueWakesForEachItem == SafeSpec => []NoLostWakeup
<1>1. IInv => NoLostWakeup
  BY DEF IInv
<1> QED
  BY <1>1, Invariance, PTL

(* pushSorted() and sort(): the next item popped is one of the smallest.   *)
THEOREM QueuePopsInOrder == SafeSpec => []PopsInOrder
<1>1. ASSUME IInv, orderly, NEW i \in 1 .. Len(queue)
      PROVE  rank[queue[i]] >= rank[queue[Len(queue)]]
  <2>1. Len(queue) \in 1 .. Len(queue) /\ i <= Len(queue)
    BY <1>1 DEF IInv, TypeOK
  <2>2. queue[i] \in Items /\ queue[Len(queue)] \in Items
    BY <1>1, <2>1 DEF IInv, TypeOK
  <2>3. compare_cb[queue[i]] <= compare_cb[queue[Len(queue)]]
    BY <1>1, <2>1 DEF IInv, OrderlyOK, Ordered
  <2> QED
    BY <2>2, <2>3, RankAssumption DEF compare_cb
<1>2. IInv => PopsInOrder
  BY <1>1 DEF PopsInOrder
<1> QED
  BY <1>2, Invariance, PTL
-----------------------------------------------------------------------------
(* The refinement.  Only a pop() with an endTime can time out.             *)
TimeoutsTimed == \A t \in Threads : pc[t] = "timedout" => timed[t]

(* Both sides use the operations of AQueue.                                *)
LEMMA SameOperations ==
    ASSUME NEW q, NEW x, NEW key
    PROVE  /\ PushHead(q, x) = Abstract!PushHead(q, x) /\ Push(q, x) = Abstract!Push(q, x)
           /\ InsertSorted(q, x, key) = Abstract!InsertSorted(q, x, key)
           /\ SortQueue(q, key) = Abstract!SortQueue(q, key)
           /\ RemoveItem(q, x) = Abstract!RemoveItem(q, x)
           /\ Front(q) = Abstract!Front(q) /\ Last(q) = Abstract!Last(q)
           /\ ToSet(q) = Abstract!ToSet(q)
<1>1. PushHead(q, x) = Abstract!PushHead(q, x) /\ Push(q, x) = Abstract!Push(q, x)
  BY DEF PushHead, Abstract!PushHead, Push, Abstract!Push
<1>2. InsertSorted(q, x, key) = Abstract!InsertSorted(q, x, key)
  BY DEF InsertSorted, Abstract!InsertSorted, InsertAt, Abstract!InsertAt, Min, Abstract!Min
<1>3. SortQueue(q, key) = Abstract!SortQueue(q, key)
  <2>1. ASSUME NEW T PROVE Cardinality(T) = Abstract!Cardinality(T)
    BY Zenon DEF Cardinality, Abstract!Cardinality
  <2>2. SortPlace(q, key) = Abstract!SortPlace(q, key)
    BY <2>1, Zenon DEF SortPlace, Abstract!SortPlace
  <2> QED
    BY <2>2 DEF SortQueue, Abstract!SortQueue
<1>4. RemoveItem(q, x) = Abstract!RemoveItem(q, x)
  <2>1. ASSUME NEW T PROVE Min(T) = Abstract!Min(T)
    BY Zenon DEF Min, Abstract!Min
  <2>2. ASSUME NEW i PROVE RemoveAt(q, i) = Abstract!RemoveAt(q, i)
    BY DEF RemoveAt, Abstract!RemoveAt
  <2> DEFINE places == {i \in 1 .. Len(q) : q[i] = x}
             p == IF places # {} THEN Min(places) ELSE 0
             found == \E i \in 1 .. Len(q) : q[i] = x
  <2>3. RemoveItem(q, x) = IF found THEN RemoveAt(q, p) ELSE q
    BY DEF RemoveItem, RemoveFirst, SelectInSeq
  <2>4. Abstract!RemoveItem(q, x) = IF found THEN Abstract!RemoveAt(q, p) ELSE q
    BY <2>1 DEF Abstract!RemoveItem, Abstract!RemoveFirst, Abstract!SelectInSeq
  <2> HIDE DEF p, found
  <2> QED
    BY <2>2, <2>3, <2>4
<1>5. Front(q) = Abstract!Front(q) /\ Last(q) = Abstract!Last(q) /\ ToSet(q) = Abstract!ToSet(q)
  BY DEF Front, Abstract!Front, Last, Abstract!Last, ToSet, Abstract!ToSet
<1> QED
  BY <1>1, <1>2, <1>3, <1>4, <1>5

LEMMA SignalKeepsWaiting ==
    ASSUME TypeOK, TimeoutsTimed, NEW q, Announce(q)
    PROVE  Waiting' = Waiting /\ TimeoutsTimed' /\ queue' = q /\ got' = got
<1>1. timed' = timed /\ queue' = q /\ got' = got
  BY DEF Announce
<1>2. /\ \A t \in Threads : pc'[t] = "idle" <=> pc[t] = "idle"
      /\ \A t \in Threads : pc'[t] = "timedout" => pc[t] = "timedout"
  <2>1. CASE signal
    BY <2>1 DEF signal
  <2>2. CASE UNCHANGED pc
    BY <2>2
  <2> QED
    BY <2>1, <2>2 DEF Announce
<1> QED
  BY <1>1, <1>2 DEF Waiting, TimeoutsTimed

LEMMA CallerImplements ==
    ASSUME TypeOK, TimeoutsTimed, NEW t \in Threads, Caller(t)
    PROVE  Abstract!Next /\ TimeoutsTimed'
<1>0. compare_cb = Abstract!compare_cb
  BY DEF compare_cb, Abstract!compare_cb
<1>1. ASSUME NEW x \in Items, PushData(t, x) \/ PushFront(t, x) \/ PushSorted(t, x)
      PROVE  Abstract!Next /\ TimeoutsTimed'
  <2>1. PICK q \in {PushHead(queue, x), Push(queue, x), InsertSorted(queue, x, compare_cb)} :
           Announce(q)
    BY <1>1 DEF PushData, PushFront, PushSorted
  <2>2. Waiting' = Waiting /\ TimeoutsTimed' /\ queue' = q /\ got' = got
    BY <2>1, SignalKeepsWaiting
  <2>3. Len(queue) < MaxLength
    BY <1>1 DEF PushData, PushFront, PushSorted
  <2>4. q \in {Abstract!PushHead(queue, x), Abstract!Push(queue, x),
              Abstract!InsertSorted(queue, x, Abstract!compare_cb)}
    BY <1>0, SameOperations
  <2>5. Abstract!Put
    BY <2>2, <2>3, <2>4 DEF Abstract!Put
  <2> QED
    BY <2>2, <2>5 DEF Abstract!Next
<1>2. ASSUME NEW x \in Items, RemoveData(t, x) PROVE Abstract!Next /\ TimeoutsTimed'
  <2>1. UNCHANGED <<pc, timed, got>> /\ x \in ToSet(queue) /\ queue' = RemoveItem(queue, x)
    BY <1>2 DEF RemoveData
  <2>2. Waiting' = Waiting /\ TimeoutsTimed'
    BY <2>1 DEF Waiting, TimeoutsTimed
  <2>3. x \in Abstract!ToSet(queue) /\ queue' = Abstract!RemoveItem(queue, x)
    BY <2>1, SameOperations
  <2>4. Abstract!Rearrange
    BY <2>1, <2>2, <2>3 DEF Abstract!Rearrange
  <2> QED
    BY <2>2, <2>4 DEF Abstract!Next
<1>3. ASSUME Sort(t) PROVE Abstract!Next /\ TimeoutsTimed'
  <2>1. UNCHANGED <<pc, timed, got>> /\ queue' = SortQueue(queue, compare_cb)
    BY <1>3 DEF Sort
  <2>2. Waiting' = Waiting /\ TimeoutsTimed'
    BY <2>1 DEF Waiting, TimeoutsTimed
  <2>3. queue' = Abstract!SortQueue(queue, Abstract!compare_cb)
    BY <1>0, <2>1, SameOperations
  <2>4. Abstract!Rearrange
    BY <2>1, <2>2, <2>3 DEF Abstract!Rearrange
  <2> QED
    BY <2>2, <2>4 DEF Abstract!Next
<1>4. ASSUME PopAtOnce(t) PROVE Abstract!Next /\ TimeoutsTimed'
  <2>1. pc[t] = "idle" /\ PopLast(t) /\ UNCHANGED <<pc, timed>>
    BY <1>4 DEF PopAtOnce, PopLast, TypeOK
  <2>2. Waiting' = Waiting /\ Waiting[t] = "no" /\ TimeoutsTimed'
    BY <2>1 DEF Waiting, TimeoutsTimed
  <2>3. Waiting' = [Waiting EXCEPT ![t] = "no"]
    BY <2>2 DEF Waiting
  <2>4. CASE queue = <<>>
    BY <2>1, <2>2, <2>3, <2>4 DEF PopLast, Abstract!GiveUp, Abstract!Next
  <2>5. CASE queue # <<>>
    <3>1. queue' = Abstract!Front(queue) /\ got' = [got EXCEPT ![t] = Abstract!Last(queue)]
      BY <2>1, <2>5, SameOperations DEF PopLast
    <3> QED
      BY <2>2, <2>3, <2>5, <3>1 DEF Abstract!Take, Abstract!Receive, Abstract!Next
  <2> QED
    BY <2>2, <2>4, <2>5
<1>5. ASSUME NEW hasEnd \in BOOLEAN, PopWaits(t, hasEnd) PROVE Abstract!Next /\ TimeoutsTimed'
  <2>1. /\ pc[t] = "idle" /\ queue = <<>> /\ UNCHANGED <<queue, got>>
        /\ pc' = [pc EXCEPT ![t] = "gap"] /\ timed' = [timed EXCEPT ![t] = hasEnd]
    BY <1>5 DEF PopWaits
  <2>2. TimeoutsTimed'
    BY <2>1 DEF TypeOK, TimeoutsTimed
  <2> DEFINE how == IF hasEnd THEN "timed" ELSE "forever"
  <2>3. Waiting[t] = "no" /\ Waiting' = [Waiting EXCEPT ![t] = how]
    BY <2>1 DEF Waiting, TypeOK
  <2>4. how \in Abstract!Waits \ {"no"}
    BY DEF Abstract!Waits
  <2> HIDE DEF how
  <2>5. Abstract!StartWaiting(t)
    BY <2>1, <2>3, <2>4 DEF Abstract!StartWaiting
  <2> QED
    BY <2>2, <2>5 DEF Abstract!Next
<1> QED
  BY <1>1, <1>2, <1>3, <1>4, <1>5 DEF Caller

(* Inside wait() nothing happens that a user of the queue could see.       *)
LEMMA WaiterImplements ==
    ASSUME TypeOK, TimeoutsTimed, NEW t \in Threads, Waiter(t)
    PROVE  (Abstract!Next \/ UNCHANGED Abstract!vars) /\ TimeoutsTimed'
<1>1. CASE FutexWait(t) \/ Interrupted(t) \/ Timeout(t) \/ WaitsAgain(t)
  <2>1. UNCHANGED <<queue, got, timed>>
    BY <1>1 DEF FutexWait, Interrupted, Timeout, WaitsAgain
  <2>2. /\ pc[t] # "idle"
        /\ \E label \in {"asleep", "woken", "timedout", "gap"} :
              pc' = [pc EXCEPT ![t] = label] /\ (label = "timedout" => timed[t])
    BY <1>1 DEF FutexWait, Interrupted, Timeout, WaitsAgain
  <2>3. TimeoutsTimed'
    BY <2>1, <2>2 DEF TypeOK, TimeoutsTimed
  <2>4. Waiting' = Waiting
    BY <2>1, <2>2 DEF Waiting, TypeOK
  <2> QED
    BY <2>1, <2>3, <2>4 DEF Abstract!vars
<1>2. CASE PopLeaves(t)
  <2>1. /\ pc[t] # "idle" /\ (queue # <<>> \/ timed[t])
        /\ PopLast(t) /\ timed' = timed /\ pc' = [pc EXCEPT ![t] = "idle"]
    BY <1>2 DEF PopLeaves, PopLast, TimeoutsTimed
  <2>2. TimeoutsTimed'
    BY <2>1 DEF TypeOK, TimeoutsTimed
  <2>3. /\ Waiting[t] # "no" /\ (queue = <<>> => Waiting[t] # "forever")
        /\ Waiting' = [Waiting EXCEPT ![t] = "no"]
    BY <2>1 DEF Waiting, TypeOK
  <2>4. CASE queue = <<>>
    BY <2>1, <2>2, <2>3, <2>4 DEF PopLast, Abstract!GiveUp, Abstract!Next
  <2>5. CASE queue # <<>>
    <3>1. queue' = Abstract!Front(queue) /\ got' = [got EXCEPT ![t] = Abstract!Last(queue)]
      BY <2>1, <2>5, SameOperations DEF PopLast
    <3> QED
      BY <2>2, <2>3, <2>5, <3>1 DEF Abstract!WaiterTakes, Abstract!Receive, Abstract!Next
  <2> QED
    BY <2>4, <2>5
<1> QED
  BY <1>1, <1>2 DEF Waiter

(* The safety part of ImplementsQueue: what the threads see of push() and  *)
(* pop() is a step of the blocking queue; none gets NULL from a pop()      *)
(* without endTime (the assertion at the end of popUnlocked()).            *)
THEOREM QueueImplementsBlockingQueue == SafeSpec => Abstract!SafeSpec
<1>1. Init => Abstract!Init /\ TimeoutsTimed
  BY DEF Init, Abstract!Init, TimeoutsTimed, Waiting
<1>2. TypeOK /\ TimeoutsTimed /\ [Next]_vars
          => [Abstract!Next]_(Abstract!vars) /\ TimeoutsTimed'
  <2> SUFFICES ASSUME TypeOK, TimeoutsTimed, [Next]_vars
               PROVE  (Abstract!Next \/ UNCHANGED Abstract!vars) /\ TimeoutsTimed'
    OBVIOUS
  <2>1. CASE Next
    BY <2>1, CallerImplements, WaiterImplements DEF Next
  <2>2. CASE UNCHANGED vars
    BY <2>2 DEF vars, Abstract!vars, Waiting, TimeoutsTimed
  <2> QED
    BY <2>1, <2>2
<1>3. IInv => TypeOK
  BY DEF IInv
<1> QED
  BY <1>1, <1>2, <1>3, Invariance, PTL DEF SafeSpec, Abstract!SafeSpec
=============================================================================
