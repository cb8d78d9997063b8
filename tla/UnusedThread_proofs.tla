------------------------ MODULE UnusedThread_proofs ------------------------
(***************************************************************************)
(* Proofs about the pool of unused threads, for any threads, pools,        *)
(* callers and limits: its counter is right, no accepted request for a     *)
(* thread is stranded, each step is one of the global pool or none, and    *)
(* the limit is obeyed if one thread at a time changes it.                 *)
(***************************************************************************)
EXTENDS UnusedThread, AQueue_proofs

(* The threads between the two updates of unusedThreads in waitPool().     *)
Inside == {t \in Threads : pc[t] \notin {"out", "readIdle", "readSerial", "count"}}
InsideCounted == unusedThreads = Cardinality(Inside)

(* stopUnusedThreads() sets back a limit that it has read.                 *)
RestoresLimit == \A c \in Callers :
    cpc[c] \in {"stop", "restore"} => restore[c] \in Nat \cup {-1}

IInv == TypeOK /\ InsideCounted /\ RestoresLimit /\ PoolReachable

LEMMA FiniteParts ==
    /\ IsFiniteSet(Waiters) /\ Cardinality(Waiters) \in Nat
    /\ IsFiniteSet(Inside) /\ Cardinality(Inside) \in Nat
<1>1. Waiters \subseteq Threads /\ Inside \subseteq Threads
  BY DEF Waiters, Inside
<1> QED
  BY <1>1, ThreadsAssumption, FS_Subset, FS_CardinalityType

LEMMA InitIInv == Init => IInv
<1> SUFFICES ASSUME Init PROVE IInv
  OBVIOUS
<1>1. TypeOK
  <2>1. maxUnusedThreads \in Nat \cup {-1}
    BY LimitsAssumption DEF Init
  <2>2. seen \in [Threads -> [max : Nat \cup {-1}, idle : Nat, serial : Nat]]
    BY DEF Init, NothingSeen
  <2> QED
    BY <2>1, <2>2 DEF Init, TypeOK
<1>2. InsideCounted
  <2>1. Inside = {}
    BY DEF Init, Inside
  <2> QED
    BY <2>1, FS_EmptySet DEF InsideCounted, Init
<1>3. RestoresLimit
  BY DEF Init, RestoresLimit
<1>4. PoolReachable
  BY DEF Init, PoolReachable
<1> QED
  BY <1>1, <1>2, <1>3, <1>4 DEF IInv
-----------------------------------------------------------------------------
(* A thread goes to another place in waitPool().                           *)
LEMMA Moves ==
    ASSUME TypeOK, NEW t \in Threads, NEW label, Goto(t, label)
    PROVE  /\ Waiters' = IF label = "pop" THEN Waiters \cup {t} ELSE Waiters \ {t}
           /\ Inside' = IF label \in {"out", "readIdle", "readSerial", "count"}
                        THEN Inside \ {t} ELSE Inside \cup {t}
  BY DEF TypeOK, Goto, Waiters, Inside

LEMMA StaysInside ==
    ASSUME TypeOK, InsideCounted, UNCHANGED unusedThreads, NEW t \in Inside,
           NEW label \in {"test", "poll", "pop", "marker", "relay", "mayDie",
                          "refreshMax", "refreshIdle", "leave"},
           Goto(t, label)
    PROVE  InsideCounted'
<1>1. t \in Threads
  BY DEF Inside
<1>2. Inside' = Inside
  BY <1>1, Moves
<1> QED
  BY <1>2 DEF InsideCounted

LEMMA StaysOutside ==
    ASSUME TypeOK, InsideCounted, UNCHANGED unusedThreads, NEW t \in Threads \ Inside,
           NEW label \in {"out", "readIdle", "readSerial", "count"},
           Goto(t, label)
    PROVE  InsideCounted'
<1>1. Inside' = Inside
  BY Moves
<1> QED
  BY <1>1 DEF InsideCounted

LEMMA CountedStep ==
    ASSUME TypeOK, InsideCounted, Next
    PROVE  InsideCounted'
<1>1. ASSUME NEW c \in Callers, Caller(c) PROVE InsideCounted'
  <2>1. UNCHANGED <<pc, unusedThreads>>
    BY <1>1 DEF Caller, SetMaxUnusedThreads, StopUnusedThreads, StopZero, StopRestore,
                SetMax, ReadUnused, SetKill, IncSerial, PushMarkers, SetMaxIdleTime,
                ReadIdlers, waiters
  <2> QED
    BY <2>1 DEF InsideCounted, Inside
<1>2. ASSUME NEW p \in Pools, AddPool(p) PROVE InsideCounted'
  BY <1>2 DEF AddPool, waiters, InsideCounted, Inside
<1>3. ASSUME NEW t \in Threads, ReadMax(t) PROVE InsideCounted'
  BY <1>3, StaysOutside DEF ReadMax, Inside
<1>4. ASSUME NEW t \in Threads, ReadIdle(t) PROVE InsideCounted'
  <2>1. CASE pc[t] = "readIdle"
    BY <1>4, <2>1, StaysOutside DEF ReadIdle, Inside
  <2>2. CASE pc[t] = "refreshIdle"
    BY <1>4, <2>2, StaysInside DEF ReadIdle, Inside
  <2> QED
    BY <1>4, <2>1, <2>2 DEF ReadIdle
<1>5. ASSUME NEW t \in Threads, ReadSerial(t) PROVE InsideCounted'
  BY <1>5, StaysOutside DEF ReadSerial, Inside
<1>6. ASSUME NEW t \in Threads, Count(t) PROVE InsideCounted'
  <2>1. Inside' = Inside \cup {t} /\ t \notin Inside
    BY <1>6, Moves DEF Count, Inside
  <2>2. Cardinality(Inside') = Cardinality(Inside) + 1
    BY <2>1, FiniteParts, FS_AddElement
  <2> QED
    BY <1>6, <2>2 DEF Count, InsideCounted
<1>7. ASSUME NEW t \in Threads, Leave(t) PROVE InsideCounted'
  <2>1. Inside' = Inside \ {t} /\ t \in Inside
    BY <1>7, Moves DEF Leave, Inside
  <2>2. Cardinality(Inside') = Cardinality(Inside) - 1
    BY <2>1, FiniteParts, FS_RemoveElement
  <2> QED
    BY <1>7, <2>2 DEF Leave, InsideCounted
<1>8. ASSUME NEW t \in Threads, Test(t) PROVE InsideCounted'
  BY <1>8, StaysInside DEF Test, Inside
<1>9. ASSUME NEW t \in Threads, Wait(t) PROVE InsideCounted'
  BY <1>9, StaysInside DEF Wait, Inside
<1>10. ASSUME NEW t \in Threads, Pop(t) PROVE InsideCounted'
  BY <1>10, StaysInside DEF Pop, Inside
<1>11. ASSUME NEW t \in Threads, PopTimesOut(t) PROVE InsideCounted'
  BY <1>11, StaysInside DEF PopTimesOut, Inside
<1>12. ASSUME NEW t \in Threads, ReadMarker(t) PROVE InsideCounted'
  BY <1>12, StaysInside DEF ReadMarker, Inside
<1>13. ASSUME NEW t \in Threads, Relay(t) PROVE InsideCounted'
  BY <1>13, StaysInside DEF Relay, Inside
<1>14. ASSUME NEW t \in Threads, MayDie(t) PROVE InsideCounted'
  BY <1>14, StaysInside DEF MayDie, Inside
<1>15. ASSUME NEW t \in Threads, RefreshMax(t) PROVE InsideCounted'
  BY <1>15, StaysInside DEF RefreshMax, Inside
<1> QED
  BY <1>1, <1>2, <1>3, <1>4, <1>5, <1>6, <1>7, <1>8, <1>9, <1>10, <1>11, <1>12,
     <1>13, <1>14, <1>15 DEF Next, Goes
-----------------------------------------------------------------------------
(* Requests keep their distance to the end that is popped when something   *)
(* is put before them, in setMaxUnusedThreads() and in waitPool().         *)
LEMMA MarkersPrepended ==
    ASSUME TypeOK, PoolReachable, NEW n \in Nat,
           unusedQueue' = [i \in 1 .. n |-> Marker] \o unusedQueue,
           Waiters' = Waiters
    PROVE  PoolReachable'
<1> DEFINE m == [i \in 1 .. n |-> Marker]
           S == Pools \cup {Marker}
<1>1. m \in Seq(S) /\ Len(m) = n /\ \A i \in 1 .. n : m[i] = Marker
  OBVIOUS
<1>2. unusedQueue \in Seq(S) /\ Len(unusedQueue) \in Nat
  BY DEF TypeOK
<1> HIDE DEF m, S
<1>3. /\ Len(unusedQueue') = n + Len(unusedQueue)
      /\ \A i \in 1 .. n + Len(unusedQueue) :
            unusedQueue'[i] = IF i <= n THEN m[i] ELSE unusedQueue[i - n]
  BY <1>1, <1>2, ConcatProperties DEF m
<1>4. ASSUME NEW k \in 1 .. n + Len(unusedQueue), unusedQueue'[k] \in Pools
      PROVE  n + Len(unusedQueue) - k < Cardinality(Waiters)
  <2>1. k > n
    BY <1>1, <1>3, <1>4, TokensAssumption
  <2>2. k - n \in 1 .. Len(unusedQueue) /\ unusedQueue[k - n] \in Pools
    BY <1>2, <1>3, <1>4, <2>1
  <2>3. Len(unusedQueue) - (k - n) < Cardinality(Waiters)
    BY <2>2 DEF PoolReachable
  <2> QED
    BY <1>2, <2>3
<1> QED
  BY <1>3, <1>4 DEF PoolReachable

(* waitPool() relays one marker.                                           *)
LEMMA MarkerPushed ==
    ASSUME TypeOK, PoolReachable, unusedQueue' = PushHead(unusedQueue, Marker),
           Waiters' = Waiters
    PROVE  PoolReachable'
<1>1. <<Marker>> = [i \in 1 .. 1 |-> Marker]
  OBVIOUS
<1> QED
  BY <1>1, MarkersPrepended DEF PushHead

(* addPool(): there is a waiting thread for the new request.               *)
LEMMA PoolAdded ==
    ASSUME TypeOK, PoolReachable, NEW p \in Pools, AddPool(p)
    PROVE  PoolReachable'
<1>1. /\ Len(unusedQueue') = Len(unusedQueue) + 1 /\ Len(unusedQueue) \in Nat
      /\ \A i \in 1 .. Len(unusedQueue) : unusedQueue'[i + 1] = unusedQueue[i]
  <2> DEFINE S == Pools \cup {Marker}
  <2>1. unusedQueue \in Seq(S) /\ p \in S
    BY DEF TypeOK
  <2>2. unusedQueue' = PushHead(unusedQueue, p)
    BY DEF AddPool
  <2>3. /\ Len(PushHead(unusedQueue, p)) = Len(unusedQueue) + 1
        /\ \A i \in 1 .. Len(unusedQueue) :
              PushHead(unusedQueue, p)[i + 1] = unusedQueue[i]
    <3> HIDE DEF S
    <3> QED
      BY <2>1, PushHeadShape
  <2> QED
    BY <2>1, <2>2, <2>3
<1>2. Waiters' = Waiters
  BY DEF AddPool, Waiters, waiters
<1>3. ASSUME NEW k \in 1 .. Len(unusedQueue) + 1, unusedQueue'[k] \in Pools
      PROVE  Len(unusedQueue) + 1 - k < Cardinality(Waiters)
  <2>1. CASE k = 1
    BY <1>1, <2>1 DEF AddPool
  <2>2. CASE k > 1
    <3>1. k - 1 \in 1 .. Len(unusedQueue) /\ unusedQueue[k - 1] \in Pools
      BY <1>1, <1>3, <2>2
    <3>2. Len(unusedQueue) - (k - 1) < Cardinality(Waiters)
      BY <3>1 DEF PoolReachable
    <3> QED
      BY <1>1, <3>2
  <2> QED
    BY <2>1, <2>2
<1> QED
  BY <1>1, <1>2, <1>3 DEF PoolReachable

(* pop(): a thread takes the last item, with it at most one waiter is gone. *)
LEMMA ItemPopped ==
    ASSUME TypeOK, PoolReachable, NEW t \in Threads, Pop(t)
    PROVE  PoolReachable'
<1>1. /\ Len(unusedQueue') = Len(unusedQueue) - 1 /\ Len(unusedQueue) \in Nat \ {0}
      /\ \A i \in 1 .. Len(unusedQueue) - 1 : unusedQueue'[i] = unusedQueue[i]
  BY FrontShape DEF Pop, TypeOK
<1>2. Waiters' = Waiters \ {t}
  BY Moves DEF Pop
<1>3. Cardinality(Waiters') >= Cardinality(Waiters) - 1
  <2>1. Cardinality(Waiters \ {t}) = IF t \in Waiters THEN Cardinality(Waiters) - 1
                                     ELSE Cardinality(Waiters)
    BY FiniteParts, FS_RemoveElement
  <2> QED
    BY <1>2, <2>1, FiniteParts
<1>4. Cardinality(Waiters) \in Nat /\ Cardinality(Waiters') \in Nat
  BY <1>2, FiniteParts, FS_RemoveElement, FS_CardinalityType
<1>5. ASSUME NEW k \in 1 .. Len(unusedQueue) - 1, unusedQueue'[k] \in Pools
      PROVE  Len(unusedQueue) - 1 - k < Cardinality(Waiters')
  <2>1. k \in 1 .. Len(unusedQueue) /\ unusedQueue[k] \in Pools
    BY <1>1, <1>5
  <2>2. Len(unusedQueue) - k < Cardinality(Waiters)
    BY <2>1 DEF PoolReachable
  <2> QED
    BY <1>1, <1>3, <1>4, <2>2
<1> QED
  BY <1>1, <1>5 DEF PoolReachable

(* An empty queue has no request that could be stranded.                   *)
LEMMA NothingQueued ==
    ASSUME unusedQueue' = <<>> PROVE PoolReachable'
<1>1. Len(unusedQueue') = 0 /\ 1 .. 0 = {}
  OBVIOUS
<1> QED
  BY <1>1 DEF PoolReachable

LEMMA NothingPopped ==
    ASSUME PoolReachable, UNCHANGED unusedQueue, Waiters' = Waiters
    PROVE  PoolReachable'
  BY DEF PoolReachable

(* A thread that neither waits nor comes to wait.                          *)
LEMMA NoWaiter ==
    ASSUME TypeOK, NEW t \in Threads, pc[t] # "pop", NEW label, label # "pop",
           Goto(t, label)
    PROVE  Waiters' = Waiters
<1>1. t \notin Waiters
  BY DEF Waiters
<1> QED
  BY <1>1, Moves

LEMMA ReachableStep ==
    ASSUME TypeOK, PoolReachable, Next
    PROVE  PoolReachable'
<1>1. ASSUME NEW c \in Callers, Caller(c) PROVE PoolReachable'
  <2>1. Waiters' = Waiters
    BY <1>1 DEF Caller, SetMaxUnusedThreads, StopUnusedThreads, StopZero, StopRestore,
                SetMax, ReadUnused, SetKill, IncSerial, PushMarkers, SetMaxIdleTime,
                ReadIdlers, waiters, Waiters
  <2>2. CASE PushMarkers(c)
    <3>1. arg[c] \in Nat \cup {-1}
      BY DEF TypeOK
    <3>2. PICK n \in Nat : 1 .. n = 1 .. arg[c]
      BY <3>1
    <3>3. unusedQueue' = [i \in 1 .. n |-> Marker] \o unusedQueue
      BY <2>2, <3>2, Zenon DEF PushMarkers
    <3> QED
      BY <2>1, <3>3, MarkersPrepended
  <2>3. CASE UNCHANGED unusedQueue
    BY <2>1, <2>3, NothingPopped
  <2>4. PushMarkers(c) \/ UNCHANGED unusedQueue
    BY <1>1 DEF Caller, SetMaxUnusedThreads, StopUnusedThreads, StopZero, StopRestore,
                SetMax, ReadUnused, SetKill, IncSerial, SetMaxIdleTime, ReadIdlers
  <2> QED
    BY <2>2, <2>3, <2>4
<1>2. ASSUME NEW p \in Pools, AddPool(p) PROVE PoolReachable'
  BY <1>2, PoolAdded
<1>3. ASSUME NEW t \in Threads, Pop(t) PROVE PoolReachable'
  BY <1>3, ItemPopped
<1>4. ASSUME NEW t \in Threads, Wait(t) PROVE PoolReachable'
  BY <1>4, NothingQueued DEF Wait
<1>5. ASSUME NEW t \in Threads, PopTimesOut(t) PROVE PoolReachable'
  BY <1>5, NothingQueued DEF PopTimesOut
<1>6. ASSUME NEW t \in Threads, Relay(t) PROVE PoolReachable'
  BY <1>6, NoWaiter, MarkerPushed DEF Relay
<1>7. ASSUME NEW t \in Threads, ReadMax(t) PROVE PoolReachable'
  BY <1>7, NoWaiter, NothingPopped DEF ReadMax
<1>8. ASSUME NEW t \in Threads, ReadIdle(t) PROVE PoolReachable'
  BY <1>8, NoWaiter, NothingPopped DEF ReadIdle
<1>9. ASSUME NEW t \in Threads, ReadSerial(t) PROVE PoolReachable'
  BY <1>9, NoWaiter, NothingPopped DEF ReadSerial
<1>10. ASSUME NEW t \in Threads, Count(t) PROVE PoolReachable'
  BY <1>10, NoWaiter, NothingPopped DEF Count
<1>11. ASSUME NEW t \in Threads, Test(t) PROVE PoolReachable'
  BY <1>11, NoWaiter, NothingPopped DEF Test
<1>12. ASSUME NEW t \in Threads, ReadMarker(t) PROVE PoolReachable'
  BY <1>12, NoWaiter, NothingPopped DEF ReadMarker
<1>13. ASSUME NEW t \in Threads, MayDie(t) PROVE PoolReachable'
  BY <1>13, NoWaiter, NothingPopped DEF MayDie
<1>14. ASSUME NEW t \in Threads, RefreshMax(t) PROVE PoolReachable'
  BY <1>14, NoWaiter, NothingPopped DEF RefreshMax
<1>15. ASSUME NEW t \in Threads, Leave(t) PROVE PoolReachable'
  BY <1>15, NoWaiter, NothingPopped DEF Leave
<1> QED
  BY <1>1, <1>2, <1>3, <1>4, <1>5, <1>6, <1>7, <1>8, <1>9, <1>10, <1>11, <1>12,
     <1>13, <1>14, <1>15 DEF Next, Goes
-----------------------------------------------------------------------------
Limit == [max : Nat \cup {-1}, idle : Nat, serial : Nat]

LEMMA SeenSet ==
    ASSUME NEW s \in Limit
    PROVE  /\ \A v \in Nat \cup {-1} : [s EXCEPT !.max = v] \in Limit
           /\ \A v \in Nat : [s EXCEPT !.idle = v] \in Limit
           /\ \A v \in Nat : [s EXCEPT !.serial = v] \in Limit
  BY Zenon DEF Limit

(* Reading a limit into a local variable of waitPool().                    *)
LEMMA SeenType ==
    ASSUME TypeOK, NEW t \in Threads
    PROVE  /\ [seen EXCEPT ![t].max = maxUnusedThreads] \in [Threads -> Limit]
           /\ [seen EXCEPT ![t].idle = maxIdleTime] \in [Threads -> Limit]
           /\ [seen EXCEPT ![t].serial = wakeupSerial] \in [Threads -> Limit]
           /\ [seen EXCEPT ![t] = NothingSeen] \in [Threads -> Limit]
<1>1. seen \in [Threads -> Limit] /\ seen[t] \in Limit
  BY DEF TypeOK, Limit
<1>2. /\ [seen[t] EXCEPT !.max = maxUnusedThreads] \in Limit
      /\ [seen[t] EXCEPT !.idle = maxIdleTime] \in Limit
      /\ [seen[t] EXCEPT !.serial = wakeupSerial] \in Limit
  <2>1. maxUnusedThreads \in Nat \cup {-1} /\ maxIdleTime \in Nat /\ wakeupSerial \in Nat
    BY DEF TypeOK
  <2> QED
    BY <1>1, <2>1, SeenSet, Zenon
<1>3. NothingSeen \in Limit
  BY DEF NothingSeen, Limit
<1> QED
  BY <1>1, <1>2, <1>3, Zenon

(* What the setters may change, and what waitPool() may change.            *)
QueueType == unusedQueue \in Seq(Pools \cup {Marker})
CounterType == unusedThreads \in Nat
LimitsType == /\ maxUnusedThreads \in Nat \cup {-1} /\ wakeupSerial \in Nat
              /\ killUnusedThreads \in Int /\ maxIdleTime \in Nat
SetterType == /\ cpc \in [Callers -> {"ready", "stop", "restore", "readUnused", "kill",
                                      "serial", "markers", "readIdlers"}]
              /\ arg \in [Callers -> Nat \cup {-1}]
              /\ restore \in [Callers -> Nat \cup {-1, None}]
PlaceType == pc \in [Threads -> {"out", "readIdle", "readSerial", "count", "test",
                                 "poll", "pop", "marker", "relay", "mayDie",
                                 "refreshMax", "refreshIdle", "leave"}]
LocalType == /\ seen \in [Threads -> Limit]
             /\ relayed \in [Threads -> BOOLEAN]
             /\ got \in [Threads -> Pools \cup {None}]

LEMMA TypeParts ==
    TypeOK <=> /\ QueueType /\ CounterType /\ LimitsType
               /\ SetterType /\ PlaceType /\ LocalType
  BY DEF TypeOK, QueueType, CounterType, LimitsType, SetterType, PlaceType,
         LocalType, Limit

LEMMA QueueTypeStep ==
    ASSUME TypeOK, Next
    PROVE  QueueType'
<1> DEFINE S == Pools \cup {Marker}
<1>0. unusedQueue \in Seq(S) /\ Marker \in S /\ \A p \in Pools : p \in S
  BY DEF TypeOK
<1> HIDE DEF S
<1>1. ASSUME NEW c \in Callers, PushMarkers(c) PROVE unusedQueue' \in Seq(S)
  <2>1. arg[c] \in Nat \cup {-1}
    BY DEF TypeOK
  <2>2. PICK n \in Nat : 1 .. n = 1 .. arg[c]
    BY <2>1
  <2>3. [i \in 1 .. n |-> Marker] \in Seq(S)
    BY <1>0
  <2>4. unusedQueue' = [i \in 1 .. n |-> Marker] \o unusedQueue
    BY <1>1, <2>2, Zenon DEF PushMarkers
  <2> QED
    BY <1>0, <2>3, <2>4, ConcatProperties
<1>2. ASSUME NEW p \in Pools, AddPool(p) PROVE unusedQueue' \in Seq(S)
  BY <1>0, <1>2, PushHeadShape DEF AddPool
<1>3. ASSUME NEW t \in Threads, Relay(t) PROVE unusedQueue' \in Seq(S)
  BY <1>0, <1>3, PushHeadShape DEF Relay
<1>4. ASSUME NEW t \in Threads, Pop(t) PROVE unusedQueue' \in Seq(S)
  BY <1>0, <1>4, FrontShape DEF Pop
<1>5. \/ \E c \in Callers : PushMarkers(c)
      \/ \E p \in Pools : AddPool(p)
      \/ \E t \in Threads : Relay(t) \/ Pop(t)
      \/ UNCHANGED unusedQueue
  BY DEF Next, Caller, Goes, SetMaxUnusedThreads, StopUnusedThreads, StopZero,
         StopRestore, SetMax, ReadUnused, SetKill, IncSerial, SetMaxIdleTime,
         ReadIdlers, ReadMax, ReadIdle, ReadSerial, Count, Test, Wait, PopTimesOut,
         ReadMarker, MayDie, RefreshMax, Leave
<1>6. unusedQueue' \in Seq(S)
  BY <1>0, <1>1, <1>2, <1>3, <1>4, <1>5
<1> QED
  BY <1>6 DEF QueueType, S

LEMMA LimitsTypeStep ==
    ASSUME TypeOK, RestoresLimit, Next
    PROVE  LimitsType'
<1>1. ASSUME NEW c \in Callers, Caller(c) PROVE LimitsType'
  <2>1. ASSUME NEW n \in Nat \cup {-1}, SetMax(c, n) PROVE LimitsType'
    BY <2>1 DEF SetMax, TypeOK, LimitsType
  <2>2. CASE StopRestore(c)
    <3>1. restore[c] \in Nat \cup {-1}
      BY <2>2 DEF StopRestore, RestoresLimit
    <3> QED
      BY <2>2, <3>1 DEF StopRestore, TypeOK, LimitsType
  <2>3. CASE \E i \in IdleTimes : SetMaxIdleTime(c, i)
    BY <2>3, LimitsAssumption DEF SetMaxIdleTime, TypeOK, LimitsType
  <2>4. CASE SetKill(c)
    <3>1. arg[c] \in Int
      BY DEF TypeOK
    <3> QED
      BY <2>4, <3>1 DEF SetKill, TypeOK, LimitsType
  <2>5. CASE IncSerial(c)
    BY <2>5 DEF IncSerial, TypeOK, LimitsType
  <2>6. CASE UNCHANGED limits
    BY <2>6 DEF limits, TypeOK, LimitsType
  <2>7. \/ \E n \in Limits \cup {0} : SetMax(c, n)
        \/ StopRestore(c) \/ SetKill(c) \/ IncSerial(c)
        \/ \E i \in IdleTimes : SetMaxIdleTime(c, i)
        \/ UNCHANGED limits
    BY <1>1 DEF Caller, SetMaxUnusedThreads, StopUnusedThreads, StopZero, ReadUnused,
                PushMarkers, ReadIdlers
  <2>8. Limits \cup {0} \subseteq Nat \cup {-1}
    BY LimitsAssumption
  <2> QED
    BY <2>1, <2>2, <2>3, <2>4, <2>5, <2>6, <2>7, <2>8
<1>2. ASSUME NEW t \in Threads, MayDie(t) PROVE LimitsType'
  BY <1>2 DEF MayDie, TypeOK, LimitsType
<1>3. CASE UNCHANGED limits
  BY <1>3 DEF limits, TypeOK, LimitsType
<1> QED
  BY <1>1, <1>2, <1>3 DEF Next, Goes, AddPool, ReadMax, ReadIdle, ReadSerial, Count,
     Test, Wait, Pop, PopTimesOut, ReadMarker, Relay, RefreshMax, Leave

(* The limit that stopUnusedThreads() sets back is one that it has read.   *)
LEMMA SetterTypeStep ==
    ASSUME TypeOK, RestoresLimit, Next
    PROVE  SetterType' /\ RestoresLimit'
<1>1. ASSUME NEW c \in Callers, Caller(c) PROVE SetterType' /\ RestoresLimit'
  <2>0. /\ restore[c] \in Nat \cup {-1, None}
        /\ arg[c] \in Nat \cup {-1} /\ unusedThreads \in Nat
        /\ maxUnusedThreads \in Nat \cup {-1}
    BY DEF TypeOK
  <2>1. ASSUME NEW n \in Nat \cup {-1}, SetMax(c, n), UNCHANGED restore
        PROVE  SetterType' /\ RestoresLimit'
    BY <2>0, <2>1 DEF SetMax, CallerReturns, CallerGoto, TypeOK, SetterType, RestoresLimit
  <2>2. CASE StopRestore(c)
    <3>1. restore[c] \in Nat \cup {-1}
      BY <2>2 DEF StopRestore, RestoresLimit
    <3> QED
      BY <2>2, <3>1 DEF StopRestore, CallerGoto, TypeOK, SetterType, RestoresLimit
  <2>3. CASE StopUnusedThreads(c)
    BY <2>0, <2>3 DEF StopUnusedThreads, CallerGoto, TypeOK, SetterType, RestoresLimit
  <2>4. CASE ReadUnused(c)
    <3>1. unusedThreads - arg[c] \in Int
      BY <2>0
    <3>2. \/ /\ unusedThreads - arg[c] \in Nat
             /\ arg' = [arg EXCEPT ![c] = unusedThreads - arg[c]]
             /\ CallerGoto(c, "kill")
          \/ UNCHANGED arg /\ CallerReturns(c)
      BY <2>4, <3>1 DEF ReadUnused
    <3>3. UNCHANGED restore
      BY <2>4 DEF ReadUnused
    <3>4. SetterType'
      BY <3>2, <3>3 DEF CallerReturns, CallerGoto, TypeOK, SetterType
    <3>5. RestoresLimit'
      BY <2>0, <3>2, <3>3 DEF CallerReturns, CallerGoto, TypeOK, RestoresLimit
    <3> QED
      BY <3>4, <3>5
  <2>5. CASE SetKill(c) \/ IncSerial(c)
    BY <2>5 DEF SetKill, IncSerial, CallerGoto, TypeOK, SetterType, RestoresLimit
  <2>6. CASE PushMarkers(c)
    BY <2>0, <2>6 DEF PushMarkers, CallerReturns, CallerGoto, TypeOK, SetterType, RestoresLimit
  <2>7. CASE \E i \in IdleTimes : SetMaxIdleTime(c, i)
    BY <2>7 DEF SetMaxIdleTime, CallerGoto, TypeOK, SetterType, RestoresLimit
  <2>8. Limits \cup {0} \subseteq Nat \cup {-1}
    BY LimitsAssumption
  <2>9. CASE ReadIdlers(c)
    <3>1. PICK where \in {"serial", "ready"} : CallerGoto(c, where)
      BY <2>9 DEF ReadIdlers
    <3>2. arg' \in [Callers -> Nat \cup {-1}] /\ UNCHANGED restore
      BY <2>0, <2>9 DEF ReadIdlers, TypeOK
    <3>3. SetterType'
      BY <3>1, <3>2 DEF CallerGoto, TypeOK, SetterType
    <3>4. RestoresLimit'
      BY <3>1, <3>2 DEF CallerGoto, TypeOK, RestoresLimit
    <3> QED
      BY <3>3, <3>4
  <2>10. \/ \E n \in Limits \cup {0} : SetMax(c, n) /\ UNCHANGED restore
        \/ StopRestore(c) \/ StopUnusedThreads(c) \/ ReadUnused(c)
        \/ SetKill(c) \/ IncSerial(c) \/ PushMarkers(c)
        \/ (\E i \in IdleTimes : SetMaxIdleTime(c, i)) \/ ReadIdlers(c)
    BY <1>1 DEF Caller, SetMaxUnusedThreads, StopZero
  <2> QED
    BY <2>1, <2>2, <2>3, <2>4, <2>5, <2>6, <2>7, <2>8, <2>9, <2>10
<1>2. CASE UNCHANGED callers
  BY <1>2 DEF callers, TypeOK, SetterType, RestoresLimit
<1> QED
  BY <1>1, <1>2 DEF Next, Goes, AddPool, ReadMax, ReadIdle, ReadSerial, Count, Test,
     Wait, Pop, PopTimesOut, ReadMarker, Relay, MayDie, RefreshMax, Leave

(* waitPool().                                                             *)
LEMMA LocalTypeStep ==
    ASSUME TypeOK, Next
    PROVE  PlaceType' /\ LocalType'
<1>0. PlaceType /\ LocalType
  BY TypeParts
<1>1. CASE UNCHANGED waiters
  BY <1>0, <1>1 DEF waiters, PlaceType, LocalType
<1>2. ASSUME NEW t \in Threads, ReadMax(t) \/ Goes(t) \/ PopTimesOut(t)
      PROVE  PlaceType'
  BY <1>0, <1>2 DEF PlaceType, Goto, Goes, ReadMax, ReadIdle, ReadSerial, Count, Test, Wait,
     Pop, PopTimesOut, ReadMarker, Relay, MayDie, RefreshMax, Leave
<1>3. ASSUME NEW t \in Threads, ReadMax(t) \/ Goes(t) \/ PopTimesOut(t)
      PROVE  seen' \in [Threads -> Limit]
  <2>1. \/ UNCHANGED seen
        \/ seen' = [seen EXCEPT ![t].max = maxUnusedThreads]
        \/ seen' = [seen EXCEPT ![t].idle = maxIdleTime]
        \/ seen' = [seen EXCEPT ![t].serial = wakeupSerial]
        \/ seen' = [seen EXCEPT ![t] = NothingSeen]
    BY <1>3, Zenon DEF Goes, ReadMax, ReadIdle, ReadSerial, Count, Test, Wait,
       Pop, PopTimesOut, ReadMarker, Relay, MayDie, RefreshMax, Leave
  <2>2. seen \in [Threads -> Limit]
    BY <1>0 DEF LocalType
  <2> QED
    BY <2>1, <2>2, SeenType, Zenon
<1>4. ASSUME NEW t \in Threads, ReadMax(t) \/ Goes(t) \/ PopTimesOut(t)
      PROVE  relayed' \in [Threads -> BOOLEAN]
  <2>1. \/ UNCHANGED relayed
        \/ relayed' = [relayed EXCEPT ![t] = TRUE]
        \/ relayed' = [relayed EXCEPT ![t] = FALSE]
    BY <1>4, Zenon DEF Goes, ReadMax, ReadIdle, ReadSerial, Count, Test, Wait,
       Pop, PopTimesOut, ReadMarker, Relay, MayDie, RefreshMax, Leave
  <2> QED
    BY <1>0, <2>1 DEF LocalType
<1>5. ASSUME NEW t \in Threads, ReadMax(t) \/ Goes(t) \/ PopTimesOut(t)
      PROVE  got' \in [Threads -> Pools \cup {None}]
  <2>1. CASE Pop(t)
    <3>1. Last(unusedQueue) \in Pools \cup {Marker}
      <4> DEFINE S == Pools \cup {Marker}
      <4>1. unusedQueue \in Seq(S) /\ unusedQueue # <<>>
        BY <2>1 DEF Pop, TypeOK
      <4> HIDE DEF S
      <4>2. Last(unusedQueue) \in S
        BY <4>1, FrontShape
      <4> QED
        BY <4>2 DEF S
    <3> QED
      BY <1>0, <2>1, <3>1 DEF Pop, LocalType
  <2>2. CASE got' = [got EXCEPT ![t] = None] \/ UNCHANGED got
    BY <1>0, <2>2 DEF LocalType
  <2> QED
    BY <1>5, <2>1, <2>2 DEF Goes, ReadMax, ReadIdle, ReadSerial, Count, Test, Wait,
       PopTimesOut, ReadMarker, Relay, MayDie, RefreshMax, Leave
<1>6. \/ \E t \in Threads : ReadMax(t) \/ Goes(t) \/ PopTimesOut(t)
      \/ UNCHANGED waiters
  BY DEF Next, AddPool, Caller, SetMaxUnusedThreads, StopUnusedThreads, StopZero,
     StopRestore, SetMax, ReadUnused, SetKill, IncSerial, PushMarkers, SetMaxIdleTime,
     ReadIdlers
<1> QED
  BY <1>1, <1>2, <1>3, <1>4, <1>5, <1>6 DEF LocalType
-----------------------------------------------------------------------------
THEOREM UnusedInvariance == SafeSpec => []IInv
<1>1. IInv /\ [Next]_vars => IInv'
  <2> SUFFICES ASSUME IInv, [Next]_vars PROVE IInv'
    OBVIOUS
  <2>1. CASE Next
    <3>1. TypeOK /\ InsideCounted /\ RestoresLimit /\ PoolReachable
      BY DEF IInv
    <3>2. InsideCounted' /\ PoolReachable' /\ RestoresLimit'
      BY <2>1, <3>1, CountedStep, ReachableStep, SetterTypeStep
    <3>3. CounterType'
      <4>1. Cardinality(Inside)' \in Nat
        <5>1. Inside' \subseteq Threads
          BY DEF Inside
        <5> QED
          BY <5>1, ThreadsAssumption, FS_Subset, FS_CardinalityType
      <4> QED
        BY <3>2, <4>1 DEF InsideCounted, CounterType
    <3>4. TypeOK'
      <4>1. QueueType' /\ LimitsType' /\ SetterType' /\ PlaceType' /\ LocalType'
        BY <2>1, <3>1, QueueTypeStep, LimitsTypeStep, SetterTypeStep, LocalTypeStep
      <4> QED
        BY <3>3, <4>1 DEF TypeOK, QueueType, CounterType, LimitsType, SetterType,
           PlaceType, LocalType, Limit
    <3> QED
      BY <3>2, <3>4 DEF IInv
  <2>2. CASE UNCHANGED vars
    BY <2>2 DEF vars, limits, waiters, callers, IInv, TypeOK, InsideCounted, Inside,
                RestoresLimit, PoolReachable, Waiters
  <2> QED
    BY <2>1, <2>2
<1> QED
  BY <1>1, InitIInv, PTL DEF SafeSpec

(* waitPool() against the setters: unusedThreads never goes below zero,    *)
(* and stopUnusedThreads() sets back a limit and nothing else.             *)
THEOREM UnusedTypes == SafeSpec => []TypeOK
<1>1. IInv => TypeOK
  BY DEF IInv
<1> QED
  BY <1>1, UnusedInvariance, PTL

(* addPool() against every way a thread stops waiting: the request that is *)
(* accepted has a waiting thread, for any number of threads and pools.     *)
THEOREM NoRequestStranded == SafeSpec => []PoolReachable
<1>1. IInv => PoolReachable
  BY DEF IInv
<1> QED
  BY <1>1, UnusedInvariance, PTL
-----------------------------------------------------------------------------
(* The refinement: the pools in the queue are the requests.  First how     *)
(* many there are up to a place, for any finite set of places.             *)
LEMMA UptoFinite ==
    ASSUME NEW S, IsFiniteSet(S), NEW i
    PROVE  /\ IsFiniteSet(Upto(S, i)) /\ Cardinality(Upto(S, i)) \in Nat
           /\ IsFiniteSet(S) /\ Cardinality(S) \in Nat
           /\ Cardinality(Upto(S, i)) <= Cardinality(S)
<1>1. Upto(S, i) \subseteq S
  BY DEF Upto
<1> QED
  BY <1>1, FS_Subset, FS_CardinalityType

LEMMA Ranked ==
    ASSUME NEW S, S \subseteq Int, IsFiniteSet(S)
    PROVE  /\ \A i \in S : /\ Cardinality(Upto(S, i)) \in 1 .. Cardinality(S)
                           /\ Nth(S, Cardinality(Upto(S, i))) = i
           /\ \A k \in 1 .. Cardinality(S) : /\ Nth(S, k) \in S
                                             /\ Cardinality(Upto(S, Nth(S, k))) = k
           /\ \A i, j \in S : i < j => Cardinality(Upto(S, i)) < Cardinality(Upto(S, j))
<1> DEFINE D == 1 .. Cardinality(S)
           rank == [i \in S |-> Cardinality(Upto(S, i))]
<1>1. ASSUME NEW i \in S, NEW j \in S, i < j
      PROVE  Cardinality(Upto(S, i)) < Cardinality(Upto(S, j))
  <2>0. i \in Int /\ j \in Int /\ j <= j /\ ~ (j <= i) /\ \A x \in S : x <= i => x <= j
    BY <1>1
  <2>1. Upto(S, i) \subseteq Upto(S, j) /\ j \in Upto(S, j) /\ j \notin Upto(S, i)
    BY <2>0, Zenon DEF Upto
  <2>2. /\ Cardinality(Upto(S, i)) <= Cardinality(Upto(S, j))
        /\ Cardinality(Upto(S, i)) # Cardinality(Upto(S, j))
    BY <2>1, UptoFinite, FS_Subset
  <2>3. Cardinality(Upto(S, i)) \in Nat /\ Cardinality(Upto(S, j)) \in Nat
    BY UptoFinite
  <2> QED
    BY <2>2, <2>3
<1>2. ASSUME NEW i \in S PROVE Cardinality(Upto(S, i)) \in D
  <2>1. i \in Upto(S, i)
    BY DEF Upto
  <2>2. Cardinality(Upto(S, i)) # 0
    BY <2>1, UptoFinite, FS_EmptySet
  <2>3. /\ Cardinality(Upto(S, i)) \in Nat /\ Cardinality(S) \in Nat
        /\ Cardinality(Upto(S, i)) <= Cardinality(S)
    BY UptoFinite
  <2> QED
    BY <2>2, <2>3
<1>3. ASSUME NEW i \in S, NEW j \in S, Cardinality(Upto(S, i)) = Cardinality(Upto(S, j))
      PROVE  i = j
  <2>1. i \in Int /\ j \in Int /\ Cardinality(Upto(S, i)) \in Nat
    BY UptoFinite
  <2>2. i < j \/ j < i \/ i = j
    BY <2>1
  <2> QED
    BY <1>1, <1>3, <2>1, <2>2
<1>4. \A i \in S : Nth(S, Cardinality(Upto(S, i))) = i
  BY <1>3 DEF Nth
<1>5. IsFiniteSet(D) /\ Cardinality(D) = Cardinality(S)
  <2>1. Cardinality(S) \in Nat
    BY FS_CardinalityType
  <2>2. \A n \in Nat : 1 \in Int /\ n \in Int /\ (IF 1 > n THEN 0 ELSE n - 1 + 1) = n
    OBVIOUS
  <2> QED
    BY <2>1, <2>2, FS_Interval
<1>6. rank \in Surjection(S, D)
  <2>1. rank \in [S -> D] /\ \A i \in S : rank[i] = Cardinality(Upto(S, i))
    BY <1>2
  <2> HIDE DEF rank, D
  <2>2. \A i, j \in S : rank[i] = rank[j] => i = j
    BY <1>3, <2>1
  <2>3. rank \in Injection(S, D)
    BY <2>1, <2>2 DEF Injection, IsInjective
  <2> QED
    BY <1>5, <2>3, FS_Injection
<1>7. ASSUME NEW k \in D PROVE Nth(S, k) \in S /\ Cardinality(Upto(S, Nth(S, k))) = k
  <2>1. PICK i \in S : rank[i] = k
    BY <1>6 DEF Surjection
  <2>2. Cardinality(Upto(S, i)) = k
    BY <2>1
  <2> QED
    BY <1>4, <2>2
<1> QED
  BY <1>1, <1>2, <1>4, <1>7

(* Places that all move by a.                                              *)
Shift(S, a) == {i + a : i \in S}

LEMMA Shifted ==
    ASSUME NEW S, S \subseteq Int, IsFiniteSet(S), NEW a \in Int
    PROVE  /\ Shift(S, a) \subseteq Int /\ IsFiniteSet(Shift(S, a))
           /\ Cardinality(Shift(S, a)) = Cardinality(S)
           /\ \A k \in 1 .. Cardinality(S) : Nth(Shift(S, a), k) = Nth(S, k) + a
<1> DEFINE T == {i + a : i \in S}
<1>0. Shift(S, a) = T
  BY DEF Shift
<1>1. ASSUME NEW P, P \subseteq S
      PROVE  IsFiniteSet({i + a : i \in P}) /\ Cardinality({i + a : i \in P}) = Cardinality(P)
  <2> DEFINE f == [i \in P |-> i + a]
             Q == {i + a : i \in P}
  <2>1. f \in [P -> Q] /\ (\A i, j \in P : f[i] = f[j] => i = j) /\ \A y \in Q : \E i \in P : f[i] = y
    BY <1>1
  <2>2. IsFiniteSet(P)
    BY <1>1, FS_Subset
  <2> HIDE DEF f, Q
  <2>3. f \in Bijection(P, Q)
    BY <2>1 DEF Bijection, Injection, IsInjective, Surjection
  <2>4. ExistsBijection(P, Q)
    BY <2>3 DEF ExistsBijection
  <2>5. IsFiniteSet(Q) /\ Cardinality(Q) = Cardinality(P)
    BY <2>2, <2>4, FS_Bijection
  <2> QED
    BY <2>5 DEF Q
<1>2. T \subseteq Int /\ IsFiniteSet(T) /\ Cardinality(T) = Cardinality(S)
  <2>1. S \subseteq S /\ \A i \in S : i + a \in Int
    OBVIOUS
  <2>2. IsFiniteSet({i + a : i \in S}) /\ Cardinality({i + a : i \in S}) = Cardinality(S)
    BY <1>1, <2>1
  <2> QED
    BY <2>1, <2>2
<1>3. ASSUME NEW i \in S PROVE Cardinality(Upto(T, i + a)) = Cardinality(Upto(S, i))
  <2>1. Upto(T, i + a) = {j + a : j \in Upto(S, i)} /\ Upto(S, i) \subseteq S
    BY DEF Upto
  <2> QED
    BY <1>1, <2>1
<1>4. ASSUME NEW k \in 1 .. Cardinality(S) PROVE Nth(T, k) = Nth(S, k) + a
  <2>1. Nth(S, k) \in S /\ Cardinality(Upto(S, Nth(S, k))) = k
    BY Ranked
  <2>2. Nth(S, k) + a \in T /\ Cardinality(Upto(T, Nth(S, k) + a)) = k
    BY <1>3, <2>1
  <2> QED
    BY <1>2, <2>2, Ranked
<1> QED
  BY <1>0, <1>2, <1>4

(* One more place, in front of the others or behind them.                  *)
LEMMA OneInFront ==
    ASSUME NEW S, S \subseteq Int, IsFiniteSet(S), NEW m \in Int, \A i \in S : m < i
    PROVE  /\ Cardinality(S \cup {m}) = Cardinality(S) + 1 /\ Nth(S \cup {m}, 1) = m
           /\ \A k \in 1 .. Cardinality(S) : Nth(S \cup {m}, k + 1) = Nth(S, k)
<1> DEFINE T == S \cup {m}
<1>1. m \notin S
  OBVIOUS
<1>2. T \subseteq Int /\ IsFiniteSet(T) /\ Cardinality(T) = Cardinality(S) + 1
  BY <1>1, FS_AddElement
<1>7. \A i \in T : Nth(T, Cardinality(Upto(T, i))) = i
  BY <1>2, Ranked
<1>3. Cardinality(Upto(T, m)) = 1
  <2>0. m <= m /\ \A i \in S : i \in Int /\ ~ (i <= m)
    OBVIOUS
  <2>1. Upto(T, m) = {m}
    BY <2>0, Zenon DEF Upto
  <2> QED
    BY <2>1, FS_Singleton
<1>4. ASSUME NEW i \in S PROVE Cardinality(Upto(T, i)) = Cardinality(Upto(S, i)) + 1
  <2>1. Upto(T, i) = Upto(S, i) \cup {m} /\ m \notin Upto(S, i)
    BY <1>1 DEF Upto
  <2> QED
    BY <2>1, UptoFinite, FS_AddElement
<1>5. ASSUME NEW k \in 1 .. Cardinality(S) PROVE Nth(T, k + 1) = Nth(S, k)
  <2>1. Nth(S, k) \in S /\ Cardinality(Upto(S, Nth(S, k))) = k
    BY Ranked
  <2>2. Nth(S, k) \in T /\ Cardinality(Upto(T, Nth(S, k))) = k + 1
    BY <1>4, <2>1
  <2> QED
    BY <1>7, <2>2
<1>6. Nth(T, 1) = m
  <2>1. m \in T
    OBVIOUS
  <2> QED
    BY <1>3, <1>7, <2>1
<1> QED
  BY <1>2, <1>5, <1>6

LEMMA OneBehind ==
    ASSUME NEW S, S \subseteq Int, IsFiniteSet(S), NEW m \in Int, \A i \in S : i < m
    PROVE  /\ Cardinality(S \cup {m}) = Cardinality(S) + 1
           /\ Nth(S \cup {m}, Cardinality(S) + 1) = m
           /\ \A k \in 1 .. Cardinality(S) : Nth(S \cup {m}, k) = Nth(S, k)
<1> DEFINE T == S \cup {m}
<1>1. m \notin S
  OBVIOUS
<1>2. T \subseteq Int /\ IsFiniteSet(T) /\ Cardinality(T) = Cardinality(S) + 1
  BY <1>1, FS_AddElement
<1>7. \A i \in T : Nth(T, Cardinality(Upto(T, i))) = i
  BY <1>2, Ranked
<1>3. ASSUME NEW i \in S PROVE Upto(T, i) = Upto(S, i)
  BY DEF Upto
<1>4. ASSUME NEW k \in 1 .. Cardinality(S) PROVE Nth(T, k) = Nth(S, k)
  <2>1. Nth(S, k) \in S /\ Cardinality(Upto(S, Nth(S, k))) = k
    BY Ranked
  <2>2. Nth(S, k) \in T /\ Cardinality(Upto(T, Nth(S, k))) = k
    BY <1>3, <2>1
  <2> QED
    BY <1>7, <2>2
<1>5. Nth(T, Cardinality(T)) = m
  <2>0. m <= m /\ \A i \in S : i \in Int /\ i <= m
    OBVIOUS
  <2>1. Upto(T, m) = T /\ m \in T
    BY <2>0, Zenon DEF Upto
  <2> QED
    BY <1>7, <2>1
<1> QED
  BY <1>2, <1>4, <1>5
-----------------------------------------------------------------------------
(* The requests when the queue changes.                                    *)
Items == Pools \cup {Marker}

LEMMA PlacesFinite ==
    ASSUME NEW q \in Seq(Items)
    PROVE  /\ Len(q) \in Nat /\ PoolPlaces(q) \subseteq 1 .. Len(q)
           /\ PoolPlaces(q) \subseteq Int /\ IsFiniteSet(PoolPlaces(q))
           /\ Cardinality(PoolPlaces(q)) \in Nat
<1>1. Len(q) \in Nat /\ PoolPlaces(q) \subseteq 1 .. Len(q)
  BY DEF PoolPlaces
<1>2. IsFiniteSet(1 .. Len(q)) /\ 1 .. Len(q) \subseteq Int
  BY <1>1, FS_Interval
<1> QED
  BY <1>1, <1>2, FS_Subset, FS_CardinalityType

LEMMA PoolsOfType ==
    ASSUME NEW q \in Seq(Items)
    PROVE  /\ PoolsOf(q) \in Seq(Pools) /\ Len(PoolsOf(q)) = Cardinality(PoolPlaces(q))
           /\ \A k \in 1 .. Cardinality(PoolPlaces(q)) : PoolsOf(q)[k] = q[Nth(PoolPlaces(q), k)]
<1> DEFINE n == Cardinality(PoolPlaces(q))
           f(k) == q[Nth(PoolPlaces(q), k)]
<1>1. n \in Nat
  BY PlacesFinite
<1>2. ASSUME NEW k \in 1 .. n PROVE f(k) \in Pools
  <2>1. Nth(PoolPlaces(q), k) \in PoolPlaces(q)
    BY PlacesFinite, Ranked
  <2> QED
    BY <2>1 DEF PoolPlaces
<1>3. PoolsOf(q) = [k \in 1 .. n |-> f(k)]
  BY DEF PoolsOf
<1> HIDE DEF n, f
<1>4. PoolsOf(q) \in Seq(Pools) /\ Len(PoolsOf(q)) = n /\ \A k \in 1 .. n : PoolsOf(q)[k] = f(k)
  BY <1>1, <1>2, <1>3
<1> QED
  BY <1>4 DEF n, f

LEMMA PlacesShifted ==
    ASSUME NEW q \in Seq(Items), NEW q2 \in Seq(Items), NEW a \in Nat,
           Len(q2) = Len(q) + a, \A i \in 1 .. Len(q) : q2[i + a] = q[i]
    PROVE  PoolPlaces(q2) = Shift(PoolPlaces(q), a) \cup {i \in 1 .. a : q2[i] \in Pools}
<1> DEFINE T == {i + a : i \in PoolPlaces(q)}
<1>1. ASSUME NEW j \in PoolPlaces(q2) PROVE j \in T \cup {i \in 1 .. a : q2[i] \in Pools}
  <2>1. j \in 1 .. Len(q) + a /\ q2[j] \in Pools /\ Len(q) \in Nat
    BY PlacesFinite DEF PoolPlaces
  <2>2. CASE j > a
    <3>1. j - a \in 1 .. Len(q) /\ (j - a) + a = j
      BY <2>1, <2>2
    <3>2. j - a \in PoolPlaces(q)
      BY <2>1, <3>1 DEF PoolPlaces
    <3> QED
      BY <3>1, <3>2
  <2>3. CASE j <= a
    BY <2>1, <2>3
  <2> QED
    BY <2>1, <2>2, <2>3
<1>2. ASSUME NEW i \in PoolPlaces(q) PROVE i + a \in PoolPlaces(q2)
  <2>1. i \in 1 .. Len(q) /\ q[i] \in Pools /\ Len(q) \in Nat
    BY PlacesFinite DEF PoolPlaces
  <2>2. i + a \in 1 .. Len(q2) /\ q2[i + a] = q[i]
    BY <2>1
  <2> QED
    BY <2>1, <2>2 DEF PoolPlaces
<1>3. ASSUME NEW i \in 1 .. a, q2[i] \in Pools PROVE i \in PoolPlaces(q2)
  <2>1. Len(q) \in Nat
    BY PlacesFinite
  <2>2. i \in 1 .. Len(q2)
    BY <2>1
  <2> QED
    BY <1>3, <2>2 DEF PoolPlaces
<1> QED
  BY <1>1, <1>2, <1>3 DEF Shift

(* Markers in front of the pools.                                          *)
LEMMA MarkersInFront ==
    ASSUME NEW q \in Seq(Items), NEW q2 \in Seq(Items), NEW a \in Nat,
           Len(q2) = Len(q) + a, \A i \in 1 .. Len(q) : q2[i + a] = q[i],
           \A i \in 1 .. a : q2[i] \notin Pools
    PROVE  PoolsOf(q2) = PoolsOf(q)
<1> DEFINE P == PoolPlaces(q)
           T == Shift(P, a)
<1>1. PoolPlaces(q2) = T
  <2>1. PoolPlaces(q2) = Shift(PoolPlaces(q), a) \cup {i \in 1 .. a : q2[i] \in Pools}
    BY PlacesShifted
  <2>2. {i \in 1 .. a : q2[i] \in Pools} = {}
    OBVIOUS
  <2> QED
    BY <2>1, <2>2
<1>2. P \subseteq Int /\ P \subseteq 1 .. Len(q) /\ IsFiniteSet(P) /\ a \in Int
  BY PlacesFinite
<1>3. Cardinality(T) = Cardinality(P) /\ \A k \in 1 .. Cardinality(P) : Nth(T, k) = Nth(P, k) + a
  <2> HIDE DEF P
  <2> QED
    BY <1>2, Shifted
<1>4. ASSUME NEW k \in 1 .. Cardinality(P) PROVE q2[Nth(T, k)] = q[Nth(P, k)]
  <2>1. Nth(P, k) \in P
    BY <1>2, Ranked
  <2>2. Nth(P, k) \in 1 .. Len(q)
    BY <1>2, <2>1
  <2> QED
    BY <1>3, <2>2
<1> HIDE DEF P, T
<1>5. PoolsOf(q) = [k \in 1 .. Cardinality(P) |-> q[Nth(P, k)]]
  BY DEF PoolsOf, P
<1>6. PoolsOf(q2) = [k \in 1 .. Cardinality(T) |-> q2[Nth(T, k)]]
  BY <1>1 DEF PoolsOf
<1> QED
  BY <1>3, <1>4, <1>5, <1>6

(* A pool in front of the others.                                          *)
LEMMA PoolInFront ==
    ASSUME NEW q \in Seq(Items), NEW p \in Pools
    PROVE  PoolsOf(PushHead(q, p)) = PushHead(PoolsOf(q), p)
<1> DEFINE q2 == PushHead(q, p)
           P == PoolPlaces(q)
           T == Shift(P, 1)
           s == PushHead(PoolsOf(q), p)
<1>1. /\ q2 \in Seq(Items) /\ Len(q2) = Len(q) + 1 /\ q2[1] = p
      /\ \A i \in 1 .. Len(q) : q2[i + 1] = q[i]
  <2>1. p \in Items
    BY DEF Items
  <2> QED
    BY <2>1, PushHeadShape
<1>2. P \subseteq Int /\ P \subseteq 1 .. Len(q) /\ IsFiniteSet(P) /\ Cardinality(P) \in Nat
  BY PlacesFinite
<1>3. PoolPlaces(q2) = T \cup {1}
  <2>1. PoolPlaces(q2) = T \cup {i \in 1 .. 1 : q2[i] \in Pools}
    <3> HIDE DEF q2
    <3> QED
      BY <1>1, PlacesShifted
  <2>2. {i \in 1 .. 1 : q2[i] \in Pools} = {1}
    <3> HIDE DEF q2
    <3>1. 1 .. 1 = {1}
      OBVIOUS
    <3> QED
      BY <1>1, <3>1
  <2> QED
    BY <2>1, <2>2
<1>4. /\ T \subseteq Int /\ IsFiniteSet(T) /\ Cardinality(T) = Cardinality(P)
      /\ \A k \in 1 .. Cardinality(P) : Nth(T, k) = Nth(P, k) + 1
  <2> HIDE DEF P
  <2>1. \A a \in Int : /\ Shift(P, a) \subseteq Int /\ IsFiniteSet(Shift(P, a))
                       /\ Cardinality(Shift(P, a)) = Cardinality(P)
                       /\ \A k \in 1 .. Cardinality(P) : Nth(Shift(P, a), k) = Nth(P, k) + a
    BY <1>2, Shifted
  <2>2. 1 \in Int
    OBVIOUS
  <2> QED
    BY <2>1, <2>2, Zenon
<1>5. \A i \in T : 1 < i
  BY <1>2 DEF Shift
<1>6. /\ Cardinality(T \cup {1}) = Cardinality(P) + 1 /\ Nth(T \cup {1}, 1) = 1
      /\ \A k \in 1 .. Cardinality(P) : Nth(T \cup {1}, k + 1) = Nth(P, k) + 1
  <2> HIDE DEF P, T
  <2>1. /\ Cardinality(T \cup {1}) = Cardinality(T) + 1 /\ Nth(T \cup {1}, 1) = 1
        /\ \A k \in 1 .. Cardinality(T) : Nth(T \cup {1}, k + 1) = Nth(T, k)
    <3>1. \A m \in Int : (\A i \in T : m < i) =>
             /\ Cardinality(T \cup {m}) = Cardinality(T) + 1 /\ Nth(T \cup {m}, 1) = m
             /\ \A k \in 1 .. Cardinality(T) : Nth(T \cup {m}, k + 1) = Nth(T, k)
      BY <1>4, OneInFront
    <3>2. 1 \in Int
      OBVIOUS
    <3> QED
      BY <1>5, <3>1, <3>2, Zenon
  <2> QED
    BY <1>4, <2>1
<1>7. /\ s \in Seq(Pools) /\ Len(s) = Cardinality(P) + 1 /\ s[1] = p
      /\ \A k \in 1 .. Cardinality(P) : s[k + 1] = q[Nth(P, k)]
  <2>1. /\ PoolsOf(q) \in Seq(Pools) /\ Len(PoolsOf(q)) = Cardinality(P)
        /\ \A k \in 1 .. Cardinality(P) : PoolsOf(q)[k] = q[Nth(P, k)]
    BY PoolsOfType
  <2> HIDE DEF P
  <2>2. /\ s \in Seq(Pools) /\ Len(s) = Len(PoolsOf(q)) + 1 /\ s[1] = p
        /\ \A k \in 1 .. Len(PoolsOf(q)) : s[k + 1] = PoolsOf(q)[k]
    <3>1. \A r \in Seq(Pools) : /\ PushHead(r, p) \in Seq(Pools)
                                /\ Len(PushHead(r, p)) = Len(r) + 1 /\ PushHead(r, p)[1] = p
                                /\ \A k \in 1 .. Len(r) : PushHead(r, p)[k + 1] = r[k]
      BY PushHeadShape
    <3> QED
      BY <2>1, <3>1, Zenon
  <2> HIDE DEF s
  <2> QED
    BY <2>1, <2>2
<1>8. /\ PoolsOf(q2) \in Seq(Pools) /\ Len(PoolsOf(q2)) = Cardinality(T \cup {1})
      /\ \A k \in 1 .. Cardinality(T \cup {1}) : PoolsOf(q2)[k] = q2[Nth(T \cup {1}, k)]
  <2> HIDE DEF q2, T
  <2> QED
    BY <1>1, <1>3, PoolsOfType
<1>9. ASSUME NEW k \in 1 .. Cardinality(P) PROVE q2[Nth(P, k) + 1] = q[Nth(P, k)]
  <2>1. Nth(P, k) \in P
    BY <1>2, Ranked
  <2>2. Nth(P, k) \in 1 .. Len(q)
    BY <1>2, <2>1
  <2> HIDE DEF q2, P
  <2> QED
    BY <1>1, <2>2
<1> HIDE DEF q2, P, T, s
<1>10. ASSUME NEW k \in 1 .. Cardinality(P) + 1 PROVE PoolsOf(q2)[k] = s[k]
  <2>1. CASE k = 1
    BY <1>1, <1>6, <1>7, <1>8, <2>1
  <2>2. CASE k # 1
    <3>1. PICK m \in 1 .. Cardinality(P) : k = m + 1
      <4>1. k - 1 \in 1 .. Cardinality(P) /\ k = (k - 1) + 1
        BY <1>2, <2>2
      <4> QED
        BY <4>1
    <3>2. PoolsOf(q2)[m + 1] = q2[Nth(P, m) + 1]
      <4>1. m + 1 \in 1 .. Cardinality(T \cup {1})
        BY <1>2, <1>6
      <4>2. Nth(T \cup {1}, m + 1) = Nth(P, m) + 1
        BY <1>6
      <4> QED
        BY <1>8, <4>1, <4>2
    <3> QED
      BY <1>7, <1>9, <3>1, <3>2
  <2> QED
    BY <2>1, <2>2
<1>11. PoolsOf(q2) = s
  BY <1>6, <1>7, <1>8, <1>10, SeqEqual
<1> QED
  BY <1>11 DEF q2, s

(* The item at the end is taken.                                           *)
LEMMA FrontPlaces ==
    ASSUME NEW q \in Seq(Items), q # <<>>
    PROVE  /\ Front(q) \in Seq(Items)
           /\ PoolPlaces(Front(q)) = PoolPlaces(q) \ {Len(q)}
           /\ Last(q) = q[Len(q)] /\ Len(q) \in 1 .. Len(q)
           /\ \A i \in PoolPlaces(Front(q)) : i < Len(q) /\ Front(q)[i] = q[i]
<1>1. /\ Front(q) \in Seq(Items) /\ Len(q) \in Nat \ {0} /\ Len(Front(q)) = Len(q) - 1
      /\ \A i \in 1 .. Len(q) - 1 : Front(q)[i] = q[i]
  BY FrontShape
<1>2. 1 .. Len(q) - 1 = (1 .. Len(q)) \ {Len(q)} /\ Len(q) \in 1 .. Len(q)
  BY <1>1
<1>3. PoolPlaces(Front(q)) = PoolPlaces(q) \ {Len(q)}
  BY <1>1, <1>2 DEF PoolPlaces
<1>4. Last(q) = q[Len(q)]
  BY DEF Last
<1>5. ASSUME NEW i \in PoolPlaces(Front(q)) PROVE i < Len(q) /\ Front(q)[i] = q[i]
  <2>1. i \in 1 .. Len(q) - 1
    BY <1>1, <1>5 DEF PoolPlaces
  <2> QED
    BY <1>1, <2>1
<1> QED
  BY <1>1, <1>2, <1>3, <1>4, <1>5

LEMMA MarkerTaken ==
    ASSUME NEW q \in Seq(Items), q # <<>>, Last(q) = Marker
    PROVE  PoolsOf(Front(q)) = PoolsOf(q)
<1> DEFINE P == PoolPlaces(q)
<1>1. PoolPlaces(Front(q)) = P
  <2>1. Len(q) \notin P
    BY FrontPlaces, TokensAssumption DEF PoolPlaces
  <2> QED
    BY <2>1, FrontPlaces
<1>2. ASSUME NEW k \in 1 .. Cardinality(P) PROVE Front(q)[Nth(P, k)] = q[Nth(P, k)]
  <2>1. Nth(P, k) \in P
    BY PlacesFinite, Ranked
  <2> QED
    BY <1>1, <2>1, FrontPlaces
<1> HIDE DEF P
<1>3. PoolsOf(q) = [k \in 1 .. Cardinality(P) |-> q[Nth(P, k)]]
  BY DEF PoolsOf, P
<1>4. PoolsOf(Front(q)) = [k \in 1 .. Cardinality(P) |-> Front(q)[Nth(P, k)]]
  BY <1>1 DEF PoolsOf
<1> QED
  BY <1>2, <1>3, <1>4

LEMMA PoolTaken ==
    ASSUME NEW q \in Seq(Items), q # <<>>, Last(q) \in Pools
    PROVE  /\ PoolsOf(q) # <<>> /\ Last(PoolsOf(q)) = Last(q)
           /\ Front(PoolsOf(q)) = PoolsOf(Front(q))
<1> DEFINE F == PoolPlaces(Front(q))
           m == Len(q)
           P == PoolPlaces(q)
           s == PoolsOf(q)
           r == PoolsOf(Front(q))
<1>1. P = F \cup {m}
  <2>1. m \in P
    BY FrontPlaces DEF PoolPlaces
  <2> QED
    BY <2>1, FrontPlaces
<1>2. /\ F \subseteq Int /\ IsFiniteSet(F) /\ Cardinality(F) \in Nat /\ m \in Int
      /\ \A i \in F : i < m
  BY FrontPlaces, PlacesFinite
<1>3. /\ Cardinality(P) = Cardinality(F) + 1 /\ Nth(P, Cardinality(F) + 1) = m
      /\ \A k \in 1 .. Cardinality(F) : Nth(P, k) = Nth(F, k)
  <2>1. /\ Cardinality(F \cup {m}) = Cardinality(F) + 1
        /\ Nth(F \cup {m}, Cardinality(F) + 1) = m
        /\ \A k \in 1 .. Cardinality(F) : Nth(F \cup {m}, k) = Nth(F, k)
    <3> HIDE DEF F, m
    <3> QED
      BY <1>2, OneBehind
  <2> QED
    BY <1>1, <2>1
<1>4. /\ s \in Seq(Pools) /\ Len(s) = Cardinality(P)
      /\ \A k \in 1 .. Cardinality(P) : s[k] = q[Nth(P, k)]
  BY PoolsOfType
<1>5. /\ r \in Seq(Pools) /\ Len(r) = Cardinality(F)
      /\ \A k \in 1 .. Cardinality(F) : r[k] = Front(q)[Nth(F, k)]
  BY FrontPlaces, PoolsOfType
<1>6. \A k \in 1 .. Cardinality(F) : Front(q)[Nth(F, k)] = q[Nth(F, k)]
  <2>1. \A k \in 1 .. Cardinality(F) : Nth(F, k) \in F
    BY <1>2, Ranked
  <2> QED
    BY <2>1, FrontPlaces
<1>7. Last(q) = q[m]
  BY FrontPlaces
<1> HIDE DEF F, m, P, s, r
<1>8. Len(s) = Cardinality(F) + 1 /\ s # <<>>
  BY <1>2, <1>3, <1>4
<1>9. Last(s) = Last(q)
  <2>1. Last(s) = s[Cardinality(F) + 1]
    BY <1>8 DEF Last
  <2>2. Cardinality(F) + 1 \in 1 .. Cardinality(P)
    BY <1>2, <1>3
  <2> QED
    BY <1>3, <1>4, <1>7, <2>1, <2>2
<1>10. Front(s) = r
  <2>1. /\ Front(s) \in Seq(Pools) /\ Len(Front(s)) = Cardinality(F)
        /\ \A k \in 1 .. Cardinality(F) : Front(s)[k] = s[k]
    <3>1. /\ Front(s) \in Seq(Pools) /\ Len(Front(s)) = Len(s) - 1
          /\ \A k \in 1 .. Len(s) - 1 : Front(s)[k] = s[k]
      BY <1>4, <1>8, FrontShape
    <3>2. Len(s) - 1 = Cardinality(F)
      BY <1>2, <1>8
    <3> QED
      BY <3>1, <3>2
  <2>2. ASSUME NEW k \in 1 .. Cardinality(F) PROVE Front(s)[k] = r[k]
    <3>1. k \in 1 .. Cardinality(P)
      BY <1>2, <1>3
    <3> QED
      BY <1>3, <1>4, <1>5, <1>6, <2>1, <3>1
  <2> QED
    BY <1>5, <2>1, <2>2, SeqEqual
<1> QED
  BY <1>8, <1>9, <1>10 DEF s, r

(* A waiter that takes a marker is not one that a request counts on: the   *)
(* first request has a waiter for each item behind it, the marker too.     *)
LEMMA SpareWaiter ==
    ASSUME TypeOK, PoolReachable, unusedQueue # <<>>, Last(unusedQueue) = Marker, Waiters # {}
    PROVE  Len(PoolsOf(unusedQueue)) < Cardinality(Waiters)
<1> DEFINE q == unusedQueue
           P == PoolPlaces(q)
<1>1. q \in Seq(Items)
  BY DEF TypeOK, Items
<1>2. Len(PoolsOf(q)) = Cardinality(P)
  BY <1>1, PoolsOfType
<1>3. /\ Len(q) \in Nat /\ P \subseteq 1 .. Len(q) /\ P \subseteq Int /\ IsFiniteSet(P)
      /\ Cardinality(P) \in Nat
  BY <1>1, PlacesFinite
<1>4. CASE P = {}
  BY <1>2, <1>4, FiniteParts, FS_EmptySet
<1>5. CASE P # {}
  <2>1. Cardinality(P) # 0
    BY <1>3, <1>5, FS_EmptySet
  <2>2. 1 \in 1 .. Cardinality(P)
    BY <1>3, <2>1
  <2> DEFINE i == Nth(P, 1)
  <2>3. i \in P /\ Cardinality(Upto(P, i)) = 1
    BY <1>3, <2>2, Ranked
  <2>4. \A j \in P : i <= j
    <3>1. ASSUME NEW j \in P, j < i PROVE FALSE
      <4>1. Cardinality(Upto(P, j)) < 1
        BY <1>3, <2>3, <3>1, Ranked
      <4>2. Cardinality(Upto(P, j)) \in 1 .. Cardinality(P)
        BY <1>3, Ranked
      <4> QED
        BY <4>1, <4>2
    <3>2. \A j \in P : i \in Int /\ j \in Int
      BY <1>3, <2>3
    <3> QED
      BY <3>1, <3>2
  <2>5. Len(q) \notin P
    BY <1>1, FrontPlaces, TokensAssumption DEF PoolPlaces
  <2>6. Len(q) - i < Cardinality(Waiters)
    BY <2>3 DEF PoolReachable, PoolPlaces
  <2> HIDE DEF i, P, q
  <2>7. i \in Int /\ i <= Len(q) - 1 /\ P \subseteq i .. Len(q) - 1
    <3>1. \A j \in P : j \in Int /\ j <= Len(q) /\ j # Len(q)
      BY <1>3, <2>5
    <3>2. \A j \in P : j \in Int /\ j <= Len(q) - 1
      BY <1>3, <3>1
    <3> QED
      BY <1>3, <2>3, <2>4, <3>2
  <2>8. IsFiniteSet(i .. Len(q) - 1) /\ Cardinality(i .. Len(q) - 1) = Len(q) - i
    <3>1. \A a, b \in Int : a <= b => (IF a > b THEN 0 ELSE b - a + 1) = b - a + 1
      OBVIOUS
    <3>2. Len(q) - 1 \in Int
      BY <1>3
    <3>3. IsFiniteSet(i .. Len(q) - 1) /\ Cardinality(i .. Len(q) - 1) = (Len(q) - 1) - i + 1
      BY <2>7, <3>1, <3>2, FS_Interval
    <3> QED
      BY <1>3, <2>7, <3>3
  <2>9. Cardinality(P) <= Len(q) - i
    <3>1. \A I : IsFiniteSet(I) /\ P \subseteq I => Cardinality(P) <= Cardinality(I)
      BY FS_Subset
    <3> QED
      BY <2>7, <2>8, <3>1
  <2> QED
    BY <1>2, <1>3, <2>6, <2>7, <2>9, FiniteParts DEF q
<1> QED
  BY <1>4, <1>5
-----------------------------------------------------------------------------
(* Both sides use the same operations and count in the same way.           *)
LEMMA SameOperations ==
    ASSUME NEW q, NEW x
    PROVE  /\ PushHead(q, x) = Abstract!PushHead(q, x)
           /\ Front(q) = Abstract!Front(q) /\ Last(q) = Abstract!Last(q)
           /\ Cardinality(q) = Abstract!Cardinality(q)
<1>1. PushHead(q, x) = Abstract!PushHead(q, x)
  BY DEF PushHead, Abstract!PushHead
<1>2. Front(q) = Abstract!Front(q) /\ Last(q) = Abstract!Last(q)
  BY DEF Front, Abstract!Front, Last, Abstract!Last
<1>3. Cardinality(q) = Abstract!Cardinality(q)
  BY Zenon DEF Cardinality, Abstract!Cardinality
<1> QED
  BY <1>1, <1>2, <1>3

(* A thread that has been given a pool does not wait.                      *)
GivenLeaves == \A t \in Threads : pc[t] \notin {"out", "leave"} => got[t] = None

Same == PoolsOf(unusedQueue)' = PoolsOf(unusedQueue) /\ Waiters' = Waiters /\ got' = got

LEMMA EmptyPools == PoolsOf(<<>>) = <<>> /\ Len(PoolsOf(<<>>)) = 0
<1>1. PoolPlaces(<<>>) = {}
  BY DEF PoolPlaces
<1>2. <<>> \in Seq(Items)
  OBVIOUS
<1>3. PoolsOf(<<>>) \in Seq(Pools) /\ Len(PoolsOf(<<>>)) = 0
  BY <1>1, <1>2, PoolsOfType, FS_EmptySet
<1> QED
  BY <1>3

LEMMA QueueOfItems == TypeOK => unusedQueue \in Seq(Items) /\ Marker \in Items
  BY DEF TypeOK, Items

LEMMA SetterImplements ==
    ASSUME TypeOK, NEW c \in Callers, Caller(c)
    PROVE  Same
<1>1. Waiters' = Waiters /\ got' = got
  BY DEF Caller, SetMaxUnusedThreads, StopUnusedThreads, StopZero, StopRestore,
         SetMax, ReadUnused, SetKill, IncSerial, PushMarkers, SetMaxIdleTime,
         ReadIdlers, waiters, Waiters
<1>2. PushMarkers(c) \/ UNCHANGED unusedQueue
  BY DEF Caller, SetMaxUnusedThreads, StopUnusedThreads, StopZero, StopRestore,
         SetMax, ReadUnused, SetKill, IncSerial, SetMaxIdleTime, ReadIdlers
<1>3. CASE UNCHANGED unusedQueue
  BY <1>1, <1>3 DEF Same
<1>4. CASE PushMarkers(c)
  <2>1. arg[c] \in Nat \cup {-1}
    BY DEF TypeOK
  <2>2. PICK n \in Nat : 1 .. n = 1 .. arg[c]
    BY <2>1
  <2> DEFINE m == [i \in 1 .. n |-> Marker]
             q == unusedQueue
             q2 == m \o q
  <2>3. unusedQueue' = q2
    BY <1>4, <2>2, Zenon DEF PushMarkers
  <2>4. q \in Seq(Items) /\ m \in Seq(Items) /\ Len(m) = n /\ Len(q) \in Nat
        /\ \A i \in 1 .. n : m[i] = Marker
    BY QueueOfItems
  <2> HIDE DEF m
  <2>5. /\ q2 \in Seq(Items) /\ Len(q2) = n + Len(q)
        /\ \A i \in 1 .. n + Len(q) : q2[i] = IF i <= n THEN m[i] ELSE q[i - n]
    BY <2>4, ConcatProperties
  <2>6. Len(q2) = Len(q) + n /\ \A i \in 1 .. Len(q) : q2[i + n] = q[i]
    <3>1. ASSUME NEW i \in 1 .. Len(q) PROVE q2[i + n] = q[i]
      <4>1. i + n \in 1 .. n + Len(q) /\ ~ (i + n <= n) /\ (i + n) - n = i
        BY <2>4
      <4> QED
        BY <2>5, <4>1
    <3> QED
      BY <2>4, <2>5, <3>1
  <2>7. \A i \in 1 .. n : q2[i] \notin Pools
    <3>1. ASSUME NEW i \in 1 .. n PROVE q2[i] = Marker
      <4>1. i \in 1 .. n + Len(q) /\ i <= n
        BY <2>4
      <4> QED
        BY <2>4, <2>5, <4>1
    <3> QED
      BY <3>1, TokensAssumption
  <2>8. PoolsOf(q2) = PoolsOf(q)
    <3> HIDE DEF q, q2
    <3> QED
      BY <2>4, <2>5, <2>6, <2>7, MarkersInFront
  <2> QED
    BY <1>1, <2>3, <2>8 DEF Same
<1> QED
  BY <1>2, <1>3, <1>4

LEMMA AddPoolImplements ==
    ASSUME TypeOK, NEW p \in Pools, AddPool(p)
    PROVE  Abstract!AddPool(p) /\ got' = got /\ pc' = pc
<1>1. /\ Len(unusedQueue) < Cardinality(Waiters) /\ unusedQueue' = PushHead(unusedQueue, p)
      /\ Waiters' = Waiters /\ got' = got /\ pc' = pc
  BY DEF AddPool, waiters, Waiters
<1>2. PoolsOf(unusedQueue)' = PushHead(PoolsOf(unusedQueue), p)
  BY <1>1, QueueOfItems, PoolInFront
<1>3. Len(PoolsOf(unusedQueue)) < Cardinality(Waiters)
  <2>1. unusedQueue \in Seq(Items)
    BY QueueOfItems
  <2>2. Len(PoolsOf(unusedQueue)) = Cardinality(PoolPlaces(unusedQueue))
    BY <2>1, PoolsOfType
  <2>3. /\ Len(unusedQueue) \in Nat /\ PoolPlaces(unusedQueue) \subseteq 1 .. Len(unusedQueue)
        /\ Cardinality(PoolPlaces(unusedQueue)) \in Nat
    BY <2>1, PlacesFinite
  <2>4. Cardinality(PoolPlaces(unusedQueue)) <= Len(unusedQueue)
    <3>1. \A n \in Nat : n \in Int /\ 1 \in Int /\ (IF 1 > n THEN 0 ELSE n - 1 + 1) = n
      OBVIOUS
    <3>2. IsFiniteSet(1 .. Len(unusedQueue))
          /\ Cardinality(1 .. Len(unusedQueue)) = Len(unusedQueue)
      BY <2>3, <3>1, FS_Interval
    <3> QED
      BY <2>3, <3>2, FS_Subset
  <2> QED
    BY <1>1, <2>2, <2>3, <2>4, FiniteParts
<1> QED
  BY <1>1, <1>2, <1>3, SameOperations DEF Abstract!AddPool

LEMMA RelayImplements ==
    ASSUME TypeOK, NEW t \in Threads, Relay(t)
    PROVE  Same
<1>1. /\ unusedQueue' = PushHead(unusedQueue, Marker) /\ Waiters' = Waiters /\ got' = got
  BY NoWaiter DEF Relay
<1> DEFINE q == unusedQueue
           q2 == PushHead(q, Marker)
<1>2. /\ q2 \in Seq(Items) /\ Len(q2) = Len(q) + 1 /\ q2[1] = Marker /\ q \in Seq(Items)
      /\ \A i \in 1 .. Len(q) : q2[i + 1] = q[i]
  BY QueueOfItems, PushHeadShape
<1>3. PoolsOf(q2) = PoolsOf(q)
  <2> HIDE DEF q, q2
  <2>1. \A a \in Nat : /\ Len(q2) = Len(q) + a /\ \A i \in 1 .. Len(q) : q2[i + a] = q[i]
                       /\ \A i \in 1 .. a : q2[i] \notin Pools
                       => PoolsOf(q2) = PoolsOf(q)
    BY <1>2, MarkersInFront
  <2>2. \A i \in 1 .. 1 : q2[i] \notin Pools
    <3>1. 1 .. 1 = {1}
      OBVIOUS
    <3> QED
      BY <1>2, <3>1, TokensAssumption
  <2>3. 1 \in Nat
    OBVIOUS
  <2> QED
    BY <1>2, <2>1, <2>2, <2>3, Zenon
<1> QED
  BY <1>1, <1>3 DEF Same

LEMMA PopImplements ==
    ASSUME TypeOK, PoolReachable, GivenLeaves, NEW t \in Threads, Pop(t)
    PROVE  Same \/ Abstract!Leave(t) \/ Abstract!Serve(t)
<1>1. /\ unusedQueue # <<>> /\ unusedQueue' = Front(unusedQueue) /\ pc[t] \in {"poll", "pop"}
      /\ unusedQueue \in Seq(Items)
  BY QueueOfItems DEF Pop
<1>2. Waiters' = Waiters \ {t} /\ (t \in Waiters <=> pc[t] = "pop")
  BY Moves DEF Pop, Waiters
<1>3. CASE Last(unusedQueue) = Marker
  <2>1. PoolsOf(unusedQueue)' = PoolsOf(unusedQueue) /\ got' = got
    BY <1>1, <1>3, MarkerTaken DEF Pop
  <2>2. CASE t \notin Waiters
    BY <1>2, <2>1, <2>2 DEF Same
  <2>3. CASE t \in Waiters
    <3>1. Len(PoolsOf(unusedQueue)) < Cardinality(Waiters)
      BY <1>1, <1>3, <2>3, SpareWaiter
    <3> QED
      BY <1>2, <2>1, <2>3, <3>1, SameOperations DEF Abstract!Leave
  <2> QED
    BY <2>2, <2>3
<1>4. CASE Last(unusedQueue) # Marker
  <2>1. Last(unusedQueue) \in Pools
    BY <1>1, <1>4, FrontShape DEF Items
  <2>2. /\ PoolsOf(unusedQueue) # <<>>
        /\ Last(PoolsOf(unusedQueue)) = Last(unusedQueue)
        /\ PoolsOf(unusedQueue)' = Front(PoolsOf(unusedQueue))
    BY <1>1, <2>1, PoolTaken
  <2>3. got[t] = None /\ got' = [got EXCEPT ![t] = Last(unusedQueue)]
    BY <1>1, <1>4 DEF Pop, GivenLeaves
  <2>4. /\ got' = [got EXCEPT ![t] = Abstract!Last(PoolsOf(unusedQueue))]
        /\ PoolsOf(unusedQueue)' = Abstract!Front(PoolsOf(unusedQueue))
    BY <2>2, <2>3, SameOperations
  <2> QED
    BY <1>2, <2>2, <2>3, <2>4 DEF Abstract!Serve
<1> QED
  BY <1>3, <1>4

LEMMA WaiterImplements ==
    ASSUME TypeOK, PoolReachable, GivenLeaves, NEW t \in Threads,
           ReadMax(t) \/ Goes(t) \/ PopTimesOut(t)
    PROVE  Same \/ Abstract!Next
<1>1. CASE ReadMax(t)
  <2>1. /\ UNCHANGED unusedQueue /\ Waiters' = Waiters /\ t \notin Waiters
        /\ got' = [got EXCEPT ![t] = None]
    BY <1>1, NoWaiter DEF ReadMax, Waiters
  <2> QED
    BY <2>1 DEF Abstract!Return, Abstract!Next
<1>2. CASE Pop(t)
  BY <1>2, PopImplements DEF Abstract!Next
<1>3. CASE Relay(t)
  BY <1>3, RelayImplements
<1>4. CASE Wait(t)
  <2>1. /\ UNCHANGED <<unusedQueue, got>> /\ Waiters' = Waiters \cup {t} /\ got[t] = None
    BY <1>4, Moves DEF Wait, GivenLeaves
  <2> QED
    BY <2>1 DEF Abstract!Wait, Abstract!Next
<1>5. CASE PopTimesOut(t)
  <2>1. /\ UNCHANGED <<unusedQueue, got>> /\ Waiters' = Waiters \ {t} /\ t \in Waiters
        /\ unusedQueue = <<>>
    BY <1>5, Moves DEF PopTimesOut, Waiters
  <2>2. Cardinality(Waiters) # 0 /\ Cardinality(Waiters) \in Nat
    BY <2>1, FiniteParts, FS_EmptySet
  <2>3. Len(PoolsOf(unusedQueue)) < Cardinality(Waiters)
    BY <2>1, <2>2, EmptyPools
  <2> QED
    BY <2>1, <2>3, SameOperations DEF Abstract!Leave, Abstract!Next
<1>6. CASE \/ ReadIdle(t) \/ ReadSerial(t) \/ Count(t) \/ Test(t) \/ ReadMarker(t)
           \/ MayDie(t) \/ RefreshMax(t) \/ Leave(t)
  <2>1. UNCHANGED <<unusedQueue, got>>
    BY <1>6 DEF ReadIdle, ReadSerial, Count, Test, ReadMarker, MayDie, RefreshMax, Leave
  <2>2. Waiters' = Waiters
    BY <1>6, NoWaiter DEF ReadIdle, ReadSerial, Count, Test, ReadMarker, MayDie, RefreshMax, Leave
  <2> QED
    BY <2>1, <2>2 DEF Same
<1> QED
  BY <1>1, <1>2, <1>3, <1>4, <1>5, <1>6 DEF Goes

LEMMA GivenLeavesStep ==
    ASSUME TypeOK, GivenLeaves, [Next]_vars
    PROVE  GivenLeaves'
<1> USE DEF GivenLeaves, TypeOK
<1>1. CASE UNCHANGED <<pc, got>>
  BY <1>1
<1>2. ASSUME NEW t \in Threads, ReadMax(t) \/ Goes(t) \/ PopTimesOut(t)
      PROVE  GivenLeaves'
  <2>1. CASE ReadMax(t)
    BY <2>1 DEF ReadMax, Goto
  <2>2. CASE Pop(t)
    BY <2>2 DEF Pop, Goto
  <2>3. CASE UNCHANGED got /\ pc[t] \notin {"out", "leave"}
    <3>1. \E label : pc' = [pc EXCEPT ![t] = label]
      BY <1>2, <2>3, Zenon DEF ReadMax, Goes, ReadIdle, ReadSerial, Count, Test, Wait, Pop,
         ReadMarker, Relay, MayDie, RefreshMax, Leave, PopTimesOut, Goto
    <3> QED
      BY <2>3, <3>1
  <2>4. CASE Leave(t)
    BY <2>4 DEF Leave, Goto
  <2> QED
    BY <1>2, <2>1, <2>2, <2>3, <2>4 DEF Goes, ReadIdle, ReadSerial, Count, Test, Wait,
       ReadMarker, Relay, MayDie, RefreshMax, PopTimesOut
<1>3. ASSUME NEW c \in Callers, Caller(c) PROVE UNCHANGED <<pc, got>>
  BY <1>3 DEF Caller, SetMaxUnusedThreads, StopUnusedThreads, StopZero, StopRestore,
     SetMax, ReadUnused, SetKill, IncSerial, PushMarkers, SetMaxIdleTime, ReadIdlers, waiters
<1>4. ASSUME NEW p \in Pools, AddPool(p) PROVE UNCHANGED <<pc, got>>
  BY <1>4 DEF AddPool, waiters
<1>5. CASE UNCHANGED vars
  BY <1>1, <1>5 DEF vars, waiters
<1> QED
  BY <1>1, <1>2, <1>3, <1>4, <1>5 DEF Next

(* The safety part of ImplementsGlobalPool: to the thread pools, the       *)
(* unused threads with their limits, markers and kills are those of        *)
(* GlobalPool: a waiting thread leaves only if no request counts on it,    *)
(* and the requests are served in the order in which they were accepted.   *)
THEOREM UnusedThreadsImplementPool == SafeSpec => Abstract!SafeSpec
<1>1. Init => Abstract!Init /\ GivenLeaves
  BY EmptyPools DEF Init, Abstract!Init, GivenLeaves, Waiters
<1>2. TypeOK /\ PoolReachable /\ GivenLeaves /\ [Next]_vars
          => [Abstract!Next]_(Abstract!vars) /\ GivenLeaves'
  <2> SUFFICES ASSUME TypeOK, PoolReachable, GivenLeaves, [Next]_vars
               PROVE  (Abstract!Next \/ UNCHANGED Abstract!vars) /\ GivenLeaves'
    OBVIOUS
  <2>1. Same => UNCHANGED Abstract!vars
    BY DEF Same, Abstract!vars
  <2>2. ASSUME NEW p \in Pools, AddPool(p) PROVE Abstract!Next
    BY <2>2, AddPoolImplements DEF Abstract!Next
  <2>3. CASE UNCHANGED vars
    <3>1. UNCHANGED Abstract!vars
      BY <2>3 DEF vars, waiters, Abstract!vars, Waiters
    <3> QED
      BY <3>1, GivenLeavesStep
  <2> QED
    BY <2>1, <2>2, <2>3, SetterImplements, WaiterImplements, GivenLeavesStep DEF Next
<1>3. IInv => TypeOK /\ PoolReachable
  BY DEF IInv
<1> QED
  BY <1>1, <1>2, <1>3, UnusedInvariance, PTL DEF SafeSpec, Abstract!SafeSpec
-----------------------------------------------------------------------------
(* The limit.  As long as one thread at a time changes the limits, those   *)
(* threads that would stay although they are too many are matched by kills *)
(* and by markers that will reach them.                                    *)
OneAtATime == \A c, d \in Callers : cpc[c] # "ready" /\ cpc[d] # "ready" => c = d

(* The threads that nothing they know keeps from waiting: not those about  *)
(* to compare unusedThreads with the present limit.                        *)
Staying == {"poll", "pop", "marker", "relay", "mayDie"}
Committed == {t \in Threads :
                 \/ pc[t] \in Staying
                 \/ pc[t] \in {"test", "refreshIdle"} /\ seen[t].max # maxUnusedThreads}
Handling == {"marker", "relay", "mayDie"}
Holders == {t \in Threads : pc[t] \in Handling}

Within(n) == Cardinality(Committed) <= maxUnusedThreads + n
TooMany == maxUnusedThreads # -1 /\ Cardinality(Committed) > maxUnusedThreads
OldSerials == \A t \in Committed : pc[t] # "mayDie" => seen[t].serial # wakeupSerial

(* What a setter that is under way knows, and what it leaves behind.       *)
Announces(c) ==
    \/ cpc[c] = "readUnused" /\ arg[c] = maxUnusedThreads
    \/ cpc[c] = "kill" /\ Within(arg[c])
    \/ cpc[c] = "serial" /\ Within(arg[c]) /\ Within(killUnusedThreads)
    \/ cpc[c] = "markers" /\ Within(arg[c]) /\ Within(killUnusedThreads) /\ OldSerials
Announced == /\ \A c \in Callers : cpc[c] \notin {"readUnused", "kill", "serial", "markers"}
             /\ Within(killUnusedThreads)
             /\ Within(Len(unusedQueue) + Cardinality(Holders))
             /\ OldSerials

ArriveWithLimit == ~raced => \A t \in Arriving : seen[t].max = maxUnusedThreads
SerialsSeen == \A t \in Threads : seen[t].serial <= wakeupSerial
Matched == ~raced /\ TooMany => (\E c \in Callers : Announces(c)) \/ Announced
LimitInv == ArriveWithLimit /\ SerialsSeen /\ Matched

LEMMA CountsFinite ==
    ASSUME InsideCounted
    PROVE  /\ IsFiniteSet(Committed) /\ Cardinality(Committed) \in Nat
           /\ IsFiniteSet(Holders) /\ Cardinality(Holders) \in Nat
           /\ Cardinality(Committed) <= unusedThreads
<1>1. Committed \in SUBSET Threads /\ Holders \in SUBSET Threads
  BY DEF Committed, Holders
<1>2. Committed \in SUBSET Inside
  BY DEF Committed, Inside, Staying
<1> QED
  BY <1>1, <1>2, ThreadsAssumption, FiniteParts, FS_Subset, FS_CardinalityType DEF InsideCounted

LEMMA CountsChange ==
    ASSUME InsideCounted, NEW t
    PROVE  /\ Cardinality(Committed \ {t})
                = Cardinality(Committed) - (IF t \in Committed THEN 1 ELSE 0)
           /\ Cardinality(Holders \ {t})
                = Cardinality(Holders) - (IF t \in Holders THEN 1 ELSE 0)
           /\ Cardinality(Holders \cup {t})
                = Cardinality(Holders) + (IF t \in Holders THEN 0 ELSE 1)
<1>1. /\ IsFiniteSet(Committed) /\ Cardinality(Committed) \in Nat
      /\ IsFiniteSet(Holders) /\ Cardinality(Holders) \in Nat
  BY CountsFinite
<1>2. /\ Cardinality(Committed \ {t})
           = IF t \in Committed THEN Cardinality(Committed) - 1 ELSE Cardinality(Committed)
      /\ Cardinality(Holders \ {t})
           = IF t \in Holders THEN Cardinality(Holders) - 1 ELSE Cardinality(Holders)
  BY <1>1, FS_RemoveElement, Zenon
<1>3. Cardinality(Holders \cup {t})
        = IF t \in Holders THEN Cardinality(Holders) ELSE Cardinality(Holders) + 1
  BY <1>1, FS_AddElement, Zenon
<1> QED
  BY <1>1, <1>2, <1>3

(* One thread goes on in waitPool() under unchanged limits.                *)
LEMMA OneGoesOn ==
    ASSUME TypeOK, NEW t \in Threads, NEW label, Goto(t, label), UNCHANGED maxUnusedThreads,
           \A u \in Threads : u # t => seen'[u] = seen[u]
    PROVE  /\ Committed' = IF \/ label \in Staying
                              \/ /\ label \in {"test", "refreshIdle"}
                                 /\ seen'[t].max # maxUnusedThreads
                           THEN Committed \cup {t} ELSE Committed \ {t}
           /\ Holders' = IF label \in Handling THEN Holders \cup {t} ELSE Holders \ {t}
           /\ \A u \in Threads : pc'[u] = IF u = t THEN label ELSE pc[u]
<1>1. \A u \in Threads : pc'[u] = IF u = t THEN label ELSE pc[u]
  BY DEF TypeOK, Goto
<1>2. Holders' = IF label \in Handling THEN Holders \cup {t} ELSE Holders \ {t}
  BY <1>1 DEF Holders
<1>3. \A u \in Threads : u # t => (u \in Committed' <=> u \in Committed)
  BY <1>1 DEF Committed
<1>4. t \in Committed' <=> \/ label \in Staying
                           \/ label \in {"test", "refreshIdle"} /\ seen'[t].max # maxUnusedThreads
  BY <1>1 DEF Committed
<1>5. Committed' \subseteq Threads /\ Committed \subseteq Threads
  BY DEF Committed
<1> QED
  BY <1>1, <1>2, <1>3, <1>4, <1>5

(* What keeps the match: nobody more stays, and as long as all serials are *)
(* old, a thread that stays no longer is matched by one item or by one     *)
(* holder of a marker less.                                                *)
LEMMA MatchKept ==
    ASSUME TypeOK, InsideCounted, InsideCounted', Matched,
           UNCHANGED <<maxUnusedThreads, wakeupSerial, killUnusedThreads, cpc, arg, raced>>,
           Committed' \subseteq Committed,
           OldSerials => /\ OldSerials'
                         /\ Len(unusedQueue') + Cardinality(Holders') - Cardinality(Committed')
                              >= Len(unusedQueue) + Cardinality(Holders) - Cardinality(Committed),
           Len(unusedQueue') \in Nat
    PROVE  Matched'
<1>1. Cardinality(Committed') <= Cardinality(Committed) /\ Cardinality(Committed') \in Nat
  BY CountsFinite, FS_Subset, FS_CardinalityType
<1>2. Len(unusedQueue) \in Nat /\ Cardinality(Holders) \in Nat /\ Cardinality(Committed) \in Nat
  BY CountsFinite DEF TypeOK
<1>3. Cardinality(Holders') \in Nat
  <2>1. Holders' \in SUBSET Threads
    BY DEF Holders
  <2> QED
    BY <2>1, ThreadsAssumption, FS_Subset, FS_CardinalityType
<1>4. maxUnusedThreads \in Int /\ killUnusedThreads \in Int /\ \A c \in Callers : arg[c] \in Int
  BY DEF TypeOK
<1>5. SUFFICES ASSUME ~raced', TooMany' PROVE (\E c \in Callers : Announces(c)') \/ Announced'
  BY DEF Matched
<1>6. ~raced /\ TooMany
  BY <1>1, <1>2, <1>4, <1>5 DEF TooMany
<1>7. \A n \in Int : Within(n) => Within(n)'
  BY <1>1, <1>2, <1>4 DEF Within
<1>8. ASSUME NEW c \in Callers, Announces(c) PROVE Announces(c)'
  BY <1>4, <1>7, <1>8 DEF Announces, Within
<1>9. ASSUME Announced PROVE Announced'
  <2>1. Within(Len(unusedQueue) + Cardinality(Holders))'
    BY <1>1, <1>2, <1>3, <1>4, <1>9 DEF Announced, Within
  <2> QED
    BY <1>4, <1>7, <1>9, <2>1 DEF Announced
<1> QED
  BY <1>6, <1>8, <1>9 DEF Matched

(* Once nobody is too many there is nothing to match.                      *)
LEMMA NothingToMatch == ASSUME ~TooMany' PROVE Matched'
  BY DEF Matched
-----------------------------------------------------------------------------
(* waitPool(): each step keeps the match.                                  *)
LEMMA SeenByOne ==
    ASSUME TypeOK, NEW t \in Threads
    PROVE  /\ \A v : seen' = [seen EXCEPT ![t] = v] =>
                 seen'[t] = v /\ \A u \in Threads : u # t => seen'[u] = seen[u]
           /\ \A v \in Nat \cup {-1} : seen' = [seen EXCEPT ![t].max = v] =>
                 /\ seen'[t].max = v /\ seen'[t].serial = seen[t].serial
                 /\ \A u \in Threads : u # t => seen'[u] = seen[u]
           /\ \A v \in Nat : seen' = [seen EXCEPT ![t].idle = v] =>
                 /\ seen'[t].max = seen[t].max /\ seen'[t].serial = seen[t].serial
                 /\ \A u \in Threads : u # t => seen'[u] = seen[u]
           /\ \A v \in Nat : seen' = [seen EXCEPT ![t].serial = v] =>
                 /\ seen'[t].max = seen[t].max /\ seen'[t].serial = v
                 /\ \A u \in Threads : u # t => seen'[u] = seen[u]
  BY DEF TypeOK

(* The common part of the steps that leave limits and setters alone.       *)
LimitsStay == UNCHANGED <<maxUnusedThreads, wakeupSerial, killUnusedThreads, cpc, arg, raced>>

(* Steps that change neither who is committed nor who holds a marker.      *)
LEMMA NobodyChanges ==
    ASSUME TypeOK, InsideCounted, InsideCounted', Matched, LimitsStay,
           Committed' = Committed, Holders' = Holders,
           \A u \in Committed : /\ seen'[u].serial = seen[u].serial
                                /\ pc[u] = "mayDie" => pc'[u] = "mayDie",
           Len(unusedQueue') \in Nat, Len(unusedQueue') >= Len(unusedQueue)
    PROVE  Matched'
<1>1. OldSerials => OldSerials'
  BY DEF OldSerials, LimitsStay
<1>2. Len(unusedQueue) \in Nat /\ Cardinality(Committed) \in Nat /\ Cardinality(Holders) \in Nat
  BY CountsFinite DEF TypeOK
<1> QED
  BY <1>1, <1>2, MatchKept DEF LimitsStay

(* Steps that leave a thread out that was committed, and maybe its marker. *)
LEMMA OneLess ==
    ASSUME TypeOK, InsideCounted, InsideCounted', Matched, LimitsStay, NEW t \in Committed,
           Committed' = Committed \ {t}, Holders' = Holders,
           seen' = seen, \A u \in Threads : u # t => pc'[u] = pc[u],
           Len(unusedQueue') \in Nat, Len(unusedQueue') >= Len(unusedQueue) - 1
    PROVE  Matched'
<1>1. OldSerials => OldSerials'
  BY DEF OldSerials, LimitsStay, Committed
<1>2. Len(unusedQueue) \in Nat /\ Cardinality(Committed) \in Nat /\ Cardinality(Holders) \in Nat
  BY CountsFinite DEF TypeOK
<1>3. Cardinality(Committed \ {t}) = Cardinality(Committed) - 1
  BY CountsChange
<1> QED
  BY <1>1, <1>2, <1>3, MatchKept DEF LimitsStay

LEMMA ArriverKeeps ==
    ASSUME TypeOK, InsideCounted, InsideCounted', LimitInv, NEW t \in Threads,
           ReadMax(t) \/ ReadIdle(t) \/ ReadSerial(t) \/ Count(t) \/ RefreshMax(t)
           \/ Leave(t) \/ Wait(t)
    PROVE  Matched'
<1>0. /\ maxUnusedThreads \in Nat \cup {-1} /\ maxIdleTime \in Nat /\ wakeupSerial \in Nat
      /\ Len(unusedQueue) \in Nat /\ unusedQueue' = unusedQueue /\ LimitsStay
  BY DEF TypeOK, ReadMax, ReadIdle, ReadSerial, Count, RefreshMax, Leave, Wait, limits,
         callers, LimitsStay
<1>1. SUFFICES ASSUME ~raced' PROVE Matched'
  BY DEF Matched
<1>2. ~raced /\ Matched
  BY <1>0, <1>1 DEF LimitsStay, LimitInv
<1>3. SUFFICES /\ Committed' = Committed /\ Holders' = Holders
               /\ \A u \in Committed : /\ seen'[u].serial = seen[u].serial
                                       /\ pc[u] = "mayDie" => pc'[u] = "mayDie"
  BY <1>0, <1>2, NobodyChanges
<1>4. \A u \in Committed : u \in Threads /\ (u = t => pc[t] \in Staying \cup {"test", "refreshIdle"})
  BY DEF Committed
<1>5. CASE ReadMax(t)
  <2>1. seen' = [seen EXCEPT ![t].max = maxUnusedThreads] /\ Goto(t, "readIdle") /\ pc[t] = "out"
    BY <1>5 DEF ReadMax
  <2> QED
    BY <1>0, <1>4, <2>1, OneGoesOn, SeenByOne DEF Committed, Holders, Staying, Handling, LimitsStay
<1>6. CASE ReadIdle(t)
  <2>1. seen' = [seen EXCEPT ![t].idle = maxIdleTime]
    BY <1>6 DEF ReadIdle
  <2>2. CASE pc[t] = "readIdle"
    <3>1. Goto(t, "readSerial")
      BY <1>6, <2>2 DEF ReadIdle
    <3> QED
      BY <1>0, <1>4, <2>1, <2>2, <3>1, OneGoesOn, SeenByOne
         DEF Committed, Holders, Staying, Handling, LimitsStay
  <2>3. CASE pc[t] = "refreshIdle"
    <3>1. Goto(t, "test")
      BY <1>6, <2>3 DEF ReadIdle
    <3> QED
      BY <1>0, <1>4, <2>1, <2>3, <3>1, OneGoesOn, SeenByOne
         DEF Committed, Holders, Staying, Handling, LimitsStay
  <2> QED
    BY <1>6, <2>2, <2>3 DEF ReadIdle
<1>7. CASE ReadSerial(t)
  <2>1. seen' = [seen EXCEPT ![t].serial = wakeupSerial] /\ Goto(t, "count") /\ pc[t] = "readSerial"
    BY <1>7 DEF ReadSerial
  <2> QED
    BY <1>0, <1>4, <2>1, OneGoesOn, SeenByOne DEF Committed, Holders, Staying, Handling, LimitsStay
<1>8. CASE Count(t)
  <2>1. seen' = seen /\ Goto(t, "test") /\ pc[t] = "count"
    BY <1>8 DEF Count
  <2>2. seen[t].max = maxUnusedThreads
    BY <1>2, <2>1 DEF LimitInv, ArriveWithLimit, Arriving
  <2> QED
    BY <1>0, <1>4, <2>1, <2>2, OneGoesOn DEF Committed, Holders, Staying, Handling, LimitsStay
<1>9. CASE RefreshMax(t)
  <2>1. /\ seen' = [seen EXCEPT ![t].max = maxUnusedThreads]
        /\ Goto(t, "refreshIdle") /\ pc[t] = "refreshMax"
    BY <1>9 DEF RefreshMax
  <2>2. t \notin Committed /\ t \notin Holders
    BY <2>1 DEF Committed, Holders, Staying, Handling
  <2>3. seen'[t].max = maxUnusedThreads /\ \A u \in Threads : u # t => seen'[u] = seen[u]
    BY <1>0, <2>1, SeenByOne
  <2>4. /\ Committed' = Committed \ {t} /\ Holders' = Holders \ {t}
        /\ \A u \in Threads : pc'[u] = IF u = t THEN "refreshIdle" ELSE pc[u]
    BY <1>0, <2>1, <2>3, OneGoesOn DEF Staying, Handling, LimitsStay
  <2> QED
    BY <1>4, <2>2, <2>3, <2>4
<1>10. CASE Leave(t)
  <2>1. seen' = [seen EXCEPT ![t] = NothingSeen] /\ Goto(t, "out") /\ pc[t] = "leave"
    BY <1>10 DEF Leave
  <2> QED
    BY <1>0, <1>4, <2>1, OneGoesOn, SeenByOne DEF Committed, Holders, Staying, Handling, LimitsStay
<1>11. CASE Wait(t)
  <2>1. seen' = seen /\ Goto(t, "pop") /\ pc[t] = "poll"
    BY <1>11 DEF Wait
  <2> QED
    BY <1>0, <1>4, <2>1, OneGoesOn DEF Committed, Holders, Staying, Handling, LimitsStay
<1> QED
  BY <1>5, <1>6, <1>7, <1>8, <1>9, <1>10, <1>11

(* A thread that finds fewer threads than the limit stays: then no thread  *)
(* is too many, however many kills are under way.                          *)
LEMMA TestKeeps ==
    ASSUME TypeOK, InsideCounted, InsideCounted', LimitInv, NEW t \in Threads, Test(t)
    PROVE  Matched'
<1>1. pc[t] = "test" /\ seen' = seen /\ unusedThreads' = unusedThreads
      /\ unusedQueue' = unusedQueue /\ LimitsStay /\ Matched
  BY DEF Test, limits, callers, LimitsStay, LimitInv
<1>2. Len(unusedQueue) \in Nat /\ unusedThreads \in Nat /\ maxUnusedThreads \in Nat \cup {-1}
      /\ seen[t].max \in Nat \cup {-1}
  BY DEF TypeOK
<1>3. CASE seen[t].max = maxUnusedThreads /\ Goto(t, "poll")
  <2>1. maxUnusedThreads = -1 \/ unusedThreads < maxUnusedThreads
    <3>1. ~(seen[t].max # -1 /\ unusedThreads >= seen[t].max)
      <4>1. SUFFICES ASSUME seen[t].max # -1, unusedThreads >= seen[t].max PROVE FALSE
        OBVIOUS
      <4>2. Goto(t, "leave")
        BY <4>1 DEF Test
      <4>3. pc'[t] = "leave" /\ pc'[t] = "poll"
        BY <1>3, <4>2 DEF Goto, TypeOK
      <4> QED
        BY <4>3
    <3> QED
      BY <1>2, <1>3, <3>1
  <2>2. Cardinality(Committed') <= unusedThreads' /\ Cardinality(Committed') \in Nat
    <3>1. Committed' \subseteq Inside' /\ Inside' \subseteq Threads
      BY DEF Committed, Inside, Staying
    <3> QED
      BY <3>1, ThreadsAssumption, FS_Subset, FS_CardinalityType DEF InsideCounted
  <2> QED
    BY <1>1, <1>2, <2>1, <2>2, NothingToMatch DEF TooMany, LimitsStay
<1>4. CASE seen[t].max # maxUnusedThreads /\ Goto(t, "poll")
  BY <1>1, <1>2, <1>4, OneGoesOn, NobodyChanges
     DEF Committed, Holders, Staying, Handling, LimitsStay
<1>5. CASE Goto(t, "leave")
  <2>1. CASE t \in Committed
    BY <1>1, <1>2, <1>5, <2>1, OneGoesOn, OneLess
       DEF Committed, Holders, Staying, Handling, LimitsStay
  <2>2. CASE t \notin Committed
    BY <1>1, <1>2, <1>5, <2>2, OneGoesOn, NobodyChanges
       DEF Committed, Holders, Staying, Handling, LimitsStay
  <2> QED
    BY <2>1, <2>2
<1> QED
  BY <1>3, <1>4, <1>5 DEF Test

LEMMA LosesInterest ==
    ASSUME TypeOK, InsideCounted, InsideCounted', LimitInv, NEW t \in Threads, PopTimesOut(t)
    PROVE  Matched'
<1>1. /\ pc[t] = "pop" /\ seen' = seen /\ unusedQueue' = unusedQueue /\ LimitsStay /\ Matched
      /\ Goto(t, "leave")
  BY DEF PopTimesOut, limits, callers, LimitsStay, LimitInv
<1>2. t \in Committed /\ Len(unusedQueue) \in Nat
  BY <1>1 DEF Committed, Staying, TypeOK
<1> QED
  BY <1>1, <1>2, OneGoesOn, OneLess DEF Holders, Staying, Handling, LimitsStay

LEMMA PopKeeps ==
    ASSUME TypeOK, InsideCounted, InsideCounted', LimitInv, NEW t \in Threads, Pop(t)
    PROVE  Matched'
<1>1. /\ pc[t] \in {"poll", "pop"} /\ seen' = seen /\ LimitsStay /\ Matched
      /\ unusedQueue' = Front(unusedQueue) /\ unusedQueue # <<>>
  BY DEF Pop, limits, callers, LimitsStay, LimitInv
<1>2. /\ Len(unusedQueue) \in Nat /\ Len(unusedQueue') \in Nat
      /\ Len(unusedQueue') = Len(unusedQueue) - 1
  <2>1. unusedQueue \in Seq(Items)
    BY QueueOfItems
  <2> QED
    BY <1>1, <2>1, FrontShape
<1>3. t \in Committed /\ t \notin Holders
  BY <1>1 DEF Committed, Holders, Staying, Handling
<1>4. CASE Goto(t, "marker")
  <2>1. /\ Committed' = Committed \cup {t} /\ Holders' = Holders \cup {t}
        /\ \A u \in Threads : pc'[u] = IF u = t THEN "marker" ELSE pc[u]
    BY <1>1, <1>4, OneGoesOn DEF Staying, Handling, LimitsStay
  <2>2. Committed' = Committed
    BY <1>3, <2>1
  <2>3. Cardinality(Holders') = Cardinality(Holders) + 1
    BY <1>3, <2>1, CountsChange
  <2>4. OldSerials => OldSerials'
    BY <1>1, <2>1, <2>2 DEF OldSerials, LimitsStay, Committed
  <2>5. Cardinality(Committed) \in Nat /\ Cardinality(Holders) \in Nat
    BY CountsFinite
  <2> QED
    BY <1>1, <1>2, <2>2, <2>3, <2>4, <2>5, MatchKept DEF LimitsStay
<1>5. CASE Goto(t, "leave")
  <2>1. /\ Committed' = Committed \ {t} /\ Holders' = Holders \ {t}
        /\ \A u \in Threads : pc'[u] = IF u = t THEN "leave" ELSE pc[u]
    BY <1>1, <1>5, OneGoesOn DEF Staying, Handling, LimitsStay
  <2>2. Holders' = Holders /\ \A u \in Threads : u # t => pc'[u] = pc[u]
    BY <1>3, <2>1
  <2> QED
    BY <1>1, <1>2, <1>3, <2>1, <2>2, OneLess
<1> QED
  BY <1>4, <1>5 DEF Pop

(* A marker gets lost only with a thread that has read the serial since it *)
(* was incremented, and such a thread stays only if none is too many.      *)
LEMMA ReadMarkerKeeps ==
    ASSUME TypeOK, InsideCounted, InsideCounted', LimitInv, NEW t \in Threads, ReadMarker(t)
    PROVE  Matched'
<1>1. /\ pc[t] = "marker" /\ LimitsStay /\ Matched /\ unusedQueue' = unusedQueue
      /\ seen' = [seen EXCEPT ![t].serial = wakeupSerial]
  BY DEF ReadMarker, limits, callers, LimitsStay, LimitInv
<1>2. /\ \A u \in Threads : u # t => seen'[u] = seen[u]
      /\ seen'[t].max = seen[t].max /\ wakeupSerial \in Nat /\ Len(unusedQueue) \in Nat
  BY <1>1, SeenByOne DEF TypeOK
<1>3. t \in Committed /\ t \in Holders
  BY <1>1 DEF Committed, Holders, Staying, Handling
<1>4. CASE seen[t].serial # wakeupSerial
  <2>1. Goto(t, "mayDie")
    BY <1>4 DEF ReadMarker
  <2>2. /\ Committed' = Committed \cup {t} /\ Holders' = Holders \cup {t}
        /\ \A u \in Threads : pc'[u] = IF u = t THEN "mayDie" ELSE pc[u]
    BY <1>1, <1>2, <2>1, OneGoesOn DEF Staying, Handling, LimitsStay
  <2>3. Committed' = Committed /\ Holders' = Holders
    BY <1>3, <2>2
  <2>4. OldSerials => OldSerials'
    BY <1>1, <1>2, <2>2, <2>3 DEF OldSerials, LimitsStay, Committed
  <2>5. Cardinality(Committed) \in Nat /\ Cardinality(Holders) \in Nat
    BY CountsFinite
  <2> QED
    BY <1>1, <1>2, <2>3, <2>4, <2>5, MatchKept DEF LimitsStay
<1>5. CASE seen[t].serial = wakeupSerial
  <2>1. PICK label \in {"test", "relay"} : Goto(t, label)
    BY <1>5 DEF ReadMarker
  <2>2. Committed' \subseteq Committed
    <3>1. \/ Committed' = Committed \cup {t} \/ Committed' = Committed \ {t}
      BY <1>1, <1>2, <2>1, OneGoesOn DEF LimitsStay
    <3> QED
      BY <1>3, <3>1
  <2>3. ~OldSerials
    BY <1>1, <1>3, <1>5 DEF OldSerials
  <2> QED
    BY <1>1, <1>2, <2>2, <2>3, MatchKept DEF LimitsStay
<1> QED
  BY <1>4, <1>5

LEMMA RelayKeeps ==
    ASSUME TypeOK, InsideCounted, InsideCounted', LimitInv, NEW t \in Threads, Relay(t)
    PROVE  Matched'
<1>1. /\ pc[t] = "relay" /\ LimitsStay /\ Matched /\ seen' = seen /\ Goto(t, "test")
      /\ unusedQueue' = PushHead(unusedQueue, Marker)
  BY DEF Relay, limits, callers, LimitsStay, LimitInv
<1>2. Len(unusedQueue) \in Nat /\ Len(unusedQueue') = Len(unusedQueue) + 1
  <2>1. unusedQueue \in Seq(Items) /\ Marker \in Items
    BY QueueOfItems
  <2> QED
    BY <1>1, <2>1, PushHeadShape
<1>3. t \in Committed /\ t \in Holders
  BY <1>1 DEF Committed, Holders, Staying, Handling
<1>4. /\ Holders' = Holders \ {t}
      /\ Committed' = Committed \cup {t} \/ Committed' = Committed \ {t}
      /\ \A u \in Threads : pc'[u] = IF u = t THEN "test" ELSE pc[u]
  BY <1>1, OneGoesOn DEF Staying, Handling, LimitsStay
<1>5. /\ Cardinality(Holders') = Cardinality(Holders) - 1
      /\ Cardinality(Committed') <= Cardinality(Committed)
      /\ Cardinality(Committed') \in Nat
      /\ Committed' \subseteq Committed
  <2>1. Committed' \subseteq Committed
    BY <1>3, <1>4
  <2> QED
    BY <1>3, <1>4, <2>1, CountsChange, CountsFinite, FS_Subset, FS_CardinalityType
<1>6. OldSerials => OldSerials'
  BY <1>1, <1>4, <1>5 DEF OldSerials, LimitsStay, Committed
<1>7. Cardinality(Committed) \in Nat /\ Cardinality(Holders) \in Nat
  BY CountsFinite
<1> QED
  BY <1>1, <1>2, <1>5, <1>6, <1>7, MatchKept DEF LimitsStay

(* waitPool(): a thread that takes a kill leaves, and one that finds none  *)
(* reads the limit again, so that either is committed no longer.           *)
LEMMA MayDieKeeps ==
    ASSUME TypeOK, InsideCounted, InsideCounted', LimitInv, NEW t \in Threads, MayDie(t)
    PROVE  Matched'
<1>1. /\ pc[t] = "mayDie" /\ Matched /\ seen' = seen /\ unusedQueue' = unusedQueue
      /\ killUnusedThreads' = killUnusedThreads - 1
      /\ UNCHANGED <<maxUnusedThreads, wakeupSerial, cpc, arg, raced>>
  BY DEF MayDie, callers, LimitInv
<1>2. PICK label \in {"leave", "refreshMax"} : Goto(t, label)
  BY DEF MayDie
<1>3. t \in Committed /\ t \in Holders
  BY <1>1 DEF Committed, Holders, Staying, Handling
<1>4. /\ Holders' = Holders \ {t} /\ Committed' = Committed \ {t}
      /\ \A u \in Threads : pc'[u] = IF u = t THEN label ELSE pc[u]
  BY <1>1, <1>2, OneGoesOn DEF Staying, Handling
<1>5. /\ Cardinality(Holders') = Cardinality(Holders) - 1
      /\ Cardinality(Committed') = Cardinality(Committed) - 1
      /\ Cardinality(Committed) \in Nat /\ Cardinality(Holders) \in Nat
  BY <1>3, <1>4, CountsChange, CountsFinite
<1>6. /\ maxUnusedThreads \in Int /\ killUnusedThreads \in Int /\ Len(unusedQueue) \in Nat
      /\ \A c \in Callers : arg[c] \in Int
  BY DEF TypeOK
<1>7. OldSerials => OldSerials'
  BY <1>1, <1>4 DEF OldSerials, Committed
<1>8. SUFFICES ASSUME ~raced', TooMany' PROVE (\E c \in Callers : Announces(c)') \/ Announced'
  BY DEF Matched
<1>9. ~raced /\ TooMany
  BY <1>1, <1>5, <1>6, <1>8 DEF TooMany
<1>10. ASSUME NEW c \in Callers, Announces(c) PROVE Announces(c)'
  <2>1. CASE cpc[c] \in {"readUnused", "kill"}
    BY <1>1, <1>5, <1>6, <1>10, <2>1 DEF Announces, Within
  <2>2. CASE cpc[c] \in {"serial", "markers"}
    BY <1>1, <1>5, <1>6, <1>7, <1>10, <2>2 DEF Announces, Within
  <2> QED
    BY <1>10, <2>1, <2>2 DEF Announces
<1>11. ASSUME Announced PROVE Announced'
  BY <1>1, <1>5, <1>6, <1>7, <1>11 DEF Announced, Within
<1> QED
  BY <1>1, <1>9, <1>10, <1>11 DEF Matched
-----------------------------------------------------------------------------
(* The setters.  Where one is in a call that announces nothing yet, none   *)
(* other is in a call.                                                     *)
LEMMA AnnouncedOnly ==
    ASSUME OneAtATime, Matched, ~raced, TooMany, NEW c \in Callers, cpc[c] # "ready"
    PROVE  Announces(c) \/ Announced
  BY DEF OneAtATime, Matched, Announces

(* A setter leaves the threads and what they know as they are.             *)
LEMMA SetterLeavesThreads ==
    ASSUME NEW c \in Callers, Caller(c)
    PROVE  UNCHANGED <<unusedThreads, pc, seen>> /\ Arriving' = Arriving /\ Holders' = Holders
<1>1. UNCHANGED <<unusedThreads, pc, seen>>
  BY DEF Caller, SetMaxUnusedThreads, StopUnusedThreads, StopZero, StopRestore,
     SetMax, ReadUnused, SetKill, IncSerial, PushMarkers, SetMaxIdleTime, ReadIdlers, waiters
<1> QED
  BY <1>1 DEF Arriving, Holders

LEMMA SameLimitSameThreads ==
    ASSUME UNCHANGED <<pc, seen, maxUnusedThreads>>
    PROVE  /\ Committed' = Committed /\ Holders' = Holders
           /\ UNCHANGED wakeupSerial => (OldSerials' <=> OldSerials)
  BY DEF Committed, Holders, OldSerials

LEMMA NewLimitKeeps ==
    ASSUME TypeOK, RestoresLimit, InsideCounted, NEW c \in Callers,
           (\E n \in Limits : SetMaxUnusedThreads(c, n)) \/ StopZero(c) \/ StopRestore(c)
    PROVE  Matched'
<1>1. \/ maxUnusedThreads' = -1
      \/ cpc'[c] = "readUnused" /\ arg'[c] = maxUnusedThreads'
  <2>1. c \in DOMAIN cpc /\ c \in DOMAIN arg
    BY DEF TypeOK
  <2>2. ASSUME NEW n, SetMax(c, n) PROVE maxUnusedThreads' = n /\ arg'[c] = n
                                         /\ (n = -1 \/ cpc'[c] = "readUnused")
    BY <2>1, <2>2 DEF SetMax, CallerGoto
  <2>3. CASE StopRestore(c)
    BY <2>1, <2>3 DEF StopRestore, CallerGoto
  <2> QED
    BY <2>2, <2>3 DEF SetMaxUnusedThreads, StopZero
<1> QED
  BY <1>1 DEF Matched, TooMany, Announces

LEMMA QuietCallKeeps ==
    ASSUME TypeOK, InsideCounted, Matched, NEW c \in Callers,
           StopUnusedThreads(c) \/ (\E i \in IdleTimes : SetMaxIdleTime(c, i))
    PROVE  Matched'
<1>1. /\ UNCHANGED <<pc, seen, unusedQueue, maxUnusedThreads, wakeupSerial,
                     killUnusedThreads, arg, raced>>
      /\ cpc[c] = "ready"
      /\ \E label \in {"stop", "readIdlers"} : cpc' = [cpc EXCEPT ![c] = label]
  BY DEF StopUnusedThreads, SetMaxIdleTime, limits, waiters, CallerGoto
<1>2. /\ Committed' = Committed /\ Holders' = Holders /\ (OldSerials' <=> OldSerials)
  BY <1>1, SameLimitSameThreads
<1>3. \A d \in Callers : \/ cpc'[d] = cpc[d]
                         \/ cpc[d] = "ready" /\ cpc'[d] \in {"stop", "readIdlers"}
  BY <1>1 DEF TypeOK
<1>4. \A d \in Callers : Announces(d) => Announces(d)'
  BY <1>1, <1>2, <1>3 DEF Announces, Within
<1>5. Announced => Announced'
  BY <1>1, <1>2, <1>3 DEF Announced, Within
<1> QED
  BY <1>1, <1>2, <1>4, <1>5 DEF Matched, TooMany

(* setMaxUnusedThreads() after it has set the limit: it counts the threads *)
(* that are too many, lets as many die, and tells them.                    *)
LEMMA AnnouncementKeeps ==
    ASSUME TypeOK, InsideCounted, SerialsSeen, Matched, OneAtATime, NEW c \in Callers,
           ReadUnused(c) \/ SetKill(c) \/ IncSerial(c)
    PROVE  Matched'
<1>1. /\ UNCHANGED <<pc, seen, unusedQueue, maxUnusedThreads, raced>>
      /\ cpc[c] \in {"readUnused", "kill", "serial"}
  BY DEF ReadUnused, SetKill, IncSerial, limits, waiters
<1>2. Committed' = Committed /\ Holders' = Holders /\ (TooMany' <=> TooMany)
  BY <1>1, SameLimitSameThreads DEF TooMany
<1>3. SUFFICES ASSUME ~raced', TooMany' PROVE \E d \in Callers : Announces(d)'
  BY DEF Matched
<1>4. Announces(c)
  BY <1>1, <1>2, <1>3, AnnouncedOnly DEF Announced
<1>5. /\ Cardinality(Committed) <= unusedThreads /\ Cardinality(Committed) \in Nat
      /\ maxUnusedThreads \in Nat /\ unusedThreads \in Nat /\ wakeupSerial \in Nat
      /\ arg[c] \in Nat \cup {-1} /\ Cardinality(Committed) > maxUnusedThreads
  BY <1>2, <1>3, CountsFinite DEF TypeOK, TooMany
<1>6. \A label : CallerGoto(c, label) => cpc'[c] = label
  BY DEF CallerGoto, TypeOK
<1>7. CASE ReadUnused(c)
  <2>1. arg[c] = maxUnusedThreads /\ unusedThreads - arg[c] > 0
    BY <1>4, <1>5, <1>7 DEF Announces, ReadUnused
  <2>2. cpc'[c] = "kill" /\ arg'[c] = unusedThreads - arg[c]
    BY <1>6, <1>7, <2>1 DEF ReadUnused, TypeOK
  <2> QED
    BY <1>1, <1>2, <1>5, <2>1, <2>2 DEF Announces, Within
<1>8. CASE SetKill(c)
  <2>1. cpc[c] = "kill" /\ cpc'[c] = "serial" /\ killUnusedThreads' = arg[c] /\ arg' = arg
    BY <1>6, <1>8 DEF SetKill
  <2> QED
    BY <1>1, <1>2, <1>4, <2>1 DEF Announces, Within
<1>9. CASE IncSerial(c)
  <2>1. /\ cpc[c] = "serial" /\ cpc'[c] = "markers" /\ wakeupSerial' = wakeupSerial + 1
        /\ arg' = arg /\ killUnusedThreads' = killUnusedThreads
    BY <1>6, <1>9 DEF IncSerial
  <2>2. OldSerials'
    <3>1. \A t \in Threads : seen[t].serial \in Nat /\ seen[t].serial <= wakeupSerial
      BY DEF TypeOK, SerialsSeen
    <3> QED
      BY <1>1, <1>2, <1>5, <2>1, <3>1 DEF OldSerials, Committed
  <2> QED
    BY <1>1, <1>2, <1>4, <2>1, <2>2 DEF Announces, Within
<1> QED
  BY <1>7, <1>8, <1>9

LEMMA MarkersKeep ==
    ASSUME TypeOK, InsideCounted, Matched, OneAtATime, NEW c \in Callers, PushMarkers(c)
    PROVE  Matched'
<1>1. /\ UNCHANGED <<pc, seen, maxUnusedThreads, killUnusedThreads, wakeupSerial, arg, raced>>
      /\ cpc[c] = "markers" /\ \E label \in {"ready", "restore"} : CallerGoto(c, label)
  BY DEF PushMarkers, limits, waiters, CallerReturns
<1>2. /\ Committed' = Committed /\ Holders' = Holders /\ (TooMany' <=> TooMany)
      /\ (OldSerials' <=> OldSerials)
  BY <1>1, SameLimitSameThreads DEF TooMany
<1>3. SUFFICES ASSUME ~raced', TooMany' PROVE Announced'
  BY DEF Matched
<1>4. Announces(c)
  BY <1>1, <1>2, <1>3, AnnouncedOnly DEF Announced
<1>5. /\ Cardinality(Committed) \in Nat /\ maxUnusedThreads \in Nat /\ Cardinality(Holders) \in Nat
      /\ arg[c] \in Nat \cup {-1} /\ Cardinality(Committed) > maxUnusedThreads
  BY <1>2, <1>3, CountsFinite DEF TypeOK, TooMany
<1>6. Cardinality(Committed) <= maxUnusedThreads + arg[c] /\ Within(killUnusedThreads) /\ OldSerials
  BY <1>1, <1>4 DEF Announces, Within
<1>7. Len(unusedQueue') \in Nat /\ Len(unusedQueue') >= arg[c]
  <2> DEFINE m == [i \in 1 .. arg[c] |-> Marker]
  <2>1. unusedQueue \in Seq(Items) /\ Marker \in Items /\ Len(unusedQueue) \in Nat
    BY QueueOfItems
  <2>2. arg[c] \in Nat
    BY <1>5, <1>6
  <2>3. m \in Seq(Items) /\ Len(m) = arg[c]
    BY <2>1, <2>2
  <2>4. unusedQueue' = m \o unusedQueue
    BY DEF PushMarkers
  <2> HIDE DEF m
  <2>5. Len(unusedQueue') = arg[c] + Len(unusedQueue)
    BY <2>1, <2>3, <2>4, ConcatProperties
  <2> QED
    BY <2>1, <2>2, <2>5
<1>8. \A d \in Callers : cpc'[d] \notin {"readUnused", "kill", "serial", "markers"}
  <2>1. \A d \in Callers : d = c \/ cpc[d] = "ready"
    BY <1>1 DEF OneAtATime
  <2> QED
    BY <1>1, <2>1 DEF CallerGoto, TypeOK
<1> QED
  BY <1>1, <1>2, <1>5, <1>6, <1>7, <1>8 DEF Announced, Within

(* setMaxIdleTime() announces a change as well; the kills stay.            *)
LEMMA ReadIdlersKeeps ==
    ASSUME TypeOK, InsideCounted, Matched, OneAtATime, NEW c \in Callers, ReadIdlers(c)
    PROVE  Matched'
<1>1. /\ UNCHANGED <<pc, seen, maxUnusedThreads, killUnusedThreads, wakeupSerial, raced>>
      /\ cpc[c] = "readIdlers" /\ arg' = [arg EXCEPT ![c] = unusedThreads]
      /\ CallerGoto(c, IF unusedThreads > 0 THEN "serial" ELSE "ready")
  BY DEF ReadIdlers, limits, waiters
<1>2. Committed' = Committed /\ (TooMany' <=> TooMany)
  BY <1>1, SameLimitSameThreads DEF TooMany
<1>3. SUFFICES ASSUME ~raced', TooMany' PROVE Announces(c)'
  BY DEF Matched
<1>4. Announced
  BY <1>1, <1>2, <1>3, AnnouncedOnly DEF Announces
<1>5. /\ Cardinality(Committed) \in Nat /\ maxUnusedThreads \in Nat /\ unusedThreads \in Nat
      /\ Cardinality(Committed) <= unusedThreads /\ Cardinality(Committed) > maxUnusedThreads
  BY <1>2, <1>3, CountsFinite DEF TypeOK, TooMany
<1>6. cpc'[c] = "serial" /\ arg'[c] = unusedThreads
  BY <1>1, <1>5 DEF CallerGoto, TypeOK
<1> QED
  BY <1>1, <1>2, <1>4, <1>5, <1>6 DEF Announces, Announced, Within

LEMMA MatchStep ==
    ASSUME TypeOK, RestoresLimit, InsideCounted, InsideCounted', LimitInv, OneAtATime, Next
    PROVE  Matched'
<1>0. SerialsSeen /\ Matched
  BY DEF LimitInv
<1>1. ASSUME NEW c \in Callers, Caller(c) PROVE Matched'
  BY <1>0, <1>1, NewLimitKeeps, QuietCallKeeps, AnnouncementKeeps, MarkersKeep, ReadIdlersKeeps
     DEF Caller
<1>2. ASSUME NEW p \in Pools, AddPool(p) PROVE Matched'
  <2>1. /\ LimitsStay /\ UNCHANGED <<pc, seen>> /\ unusedQueue' = PushHead(unusedQueue, p)
    BY <1>2 DEF AddPool, limits, waiters, callers, LimitsStay
  <2>2. Committed' = Committed /\ Holders' = Holders
    BY <2>1, SameLimitSameThreads DEF LimitsStay
  <2>3. Len(unusedQueue') \in Nat /\ Len(unusedQueue') >= Len(unusedQueue)
    <3>1. unusedQueue \in Seq(Items) /\ p \in Items /\ Len(unusedQueue) \in Nat
      BY QueueOfItems DEF Items
    <3> QED
      BY <2>1, <3>1, PushHeadShape
  <2> QED
    BY <1>0, <2>1, <2>2, <2>3, NobodyChanges
<1>3. ASSUME NEW t \in Threads, ReadMax(t) \/ Goes(t) \/ PopTimesOut(t) PROVE Matched'
  BY <1>3, ArriverKeeps, TestKeeps, LosesInterest, PopKeeps, ReadMarkerKeeps, RelayKeeps,
     MayDieKeeps DEF Goes
<1> QED
  BY <1>1, <1>2, <1>3 DEF Next

(* A thread arrives with the present limit unless a setter runs behind it, *)
(* and knows no later serial than the present one.                         *)
LEMMA ArrivalStep ==
    ASSUME TypeOK, ArriveWithLimit, SerialsSeen, Next
    PROVE  ArriveWithLimit' /\ SerialsSeen'
<1>0. wakeupSerial \in Nat /\ maxUnusedThreads \in Nat \cup {-1} /\ maxIdleTime \in Nat
  BY DEF TypeOK
<1>1. ASSUME NEW c \in Callers, Caller(c) PROVE ArriveWithLimit' /\ SerialsSeen'
  <2>1. UNCHANGED seen /\ Arriving' = Arriving
    BY <1>1, SetterLeavesThreads
  <2>2. wakeupSerial' \in {wakeupSerial, wakeupSerial + 1}
    BY <1>1 DEF Caller, SetMaxUnusedThreads, StopUnusedThreads, StopZero, StopRestore,
       SetMax, ReadUnused, SetKill, IncSerial, PushMarkers, SetMaxIdleTime, ReadIdlers, limits
  <2>3. \/ UNCHANGED <<maxUnusedThreads, raced>>
        \/ raced' = (raced \/ Arriving # {})
    BY <1>1 DEF Caller, SetMaxUnusedThreads, StopUnusedThreads, StopZero, StopRestore,
       SetMax, ReadUnused, SetKill, IncSerial, PushMarkers, SetMaxIdleTime, ReadIdlers, limits
  <2>4. ArriveWithLimit'
    BY <2>1, <2>3 DEF ArriveWithLimit
  <2>5. SerialsSeen'
    <3>1. \A t \in Threads : seen[t].serial \in Nat
      BY DEF TypeOK
    <3> QED
      BY <1>0, <2>1, <2>2, <3>1 DEF SerialsSeen
  <2> QED
    BY <2>4, <2>5
<1>2. ASSUME NEW p \in Pools, AddPool(p) PROVE ArriveWithLimit' /\ SerialsSeen'
  BY <1>2 DEF AddPool, limits, waiters, callers, ArriveWithLimit, SerialsSeen, Arriving
<1>3. ASSUME NEW t \in Threads, ReadMax(t) \/ Goes(t) \/ PopTimesOut(t)
      PROVE  ArriveWithLimit' /\ SerialsSeen'
  <2>1. UNCHANGED <<maxUnusedThreads, wakeupSerial, raced>>
    BY <1>3, Zenon DEF ReadMax, Goes, ReadIdle, ReadSerial, Count, Test, Wait, Pop, ReadMarker, Relay,
       MayDie, RefreshMax, Leave, PopTimesOut, limits, callers
  <2>2. \A u \in Threads : seen[u].serial \in Nat
    BY DEF TypeOK
  <2>3. SUFFICES /\ \A u \in Threads : u # t => seen'[u] = seen[u] /\ pc'[u] = pc[u]
                 /\ seen'[t].serial \in {seen[t].serial, wakeupSerial, 0}
                 /\ pc'[t] \in {"readIdle", "readSerial", "count"} =>
                       \/ seen'[t].max = maxUnusedThreads
                       \/ seen'[t].max = seen[t].max /\ t \in Arriving
    BY <1>0, <2>1, <2>2 DEF ArriveWithLimit, SerialsSeen, Arriving
  <2>4. ASSUME NEW label, Goto(t, label)
        PROVE  pc'[t] = label /\ \A u \in Threads : u # t => pc'[u] = pc[u]
    BY <2>4 DEF Goto, TypeOK
  <2>5. CASE ReadMax(t)
    <3>1. seen' = [seen EXCEPT ![t].max = maxUnusedThreads] /\ Goto(t, "readIdle")
      BY <2>5 DEF ReadMax
    <3> QED
      BY <1>0, <2>4, <3>1, SeenByOne
  <2>6. CASE ReadIdle(t)
    <3>1. /\ seen' = [seen EXCEPT ![t].idle = maxIdleTime]
          /\ \/ pc[t] = "readIdle" /\ Goto(t, "readSerial")
             \/ pc[t] = "refreshIdle" /\ Goto(t, "test")
      BY <2>6 DEF ReadIdle
    <3> QED
      BY <1>0, <2>4, <3>1, SeenByOne DEF Arriving
  <2>7. CASE ReadSerial(t)
    <3>1. /\ seen' = [seen EXCEPT ![t].serial = wakeupSerial]
          /\ pc[t] = "readSerial" /\ Goto(t, "count")
      BY <2>7 DEF ReadSerial
    <3> QED
      BY <1>0, <2>4, <3>1, SeenByOne DEF Arriving
  <2>8. CASE Count(t) \/ Test(t) \/ Wait(t) \/ Pop(t) \/ Relay(t) \/ MayDie(t) \/ PopTimesOut(t)
    <3>1. seen' = seen /\ \E label \in {"test", "leave", "poll", "pop", "marker", "refreshMax"} :
                              Goto(t, label)
      BY <2>8 DEF Count, Test, Wait, Pop, Relay, MayDie, PopTimesOut
    <3> QED
      BY <2>4, <3>1
  <2>9. CASE ReadMarker(t)
    <3>1. /\ seen' = [seen EXCEPT ![t].serial = wakeupSerial]
          /\ \E label \in {"mayDie", "test", "relay"} : Goto(t, label)
      BY <2>9 DEF ReadMarker
    <3> QED
      BY <1>0, <2>4, <3>1, SeenByOne
  <2>10. CASE RefreshMax(t)
    <3>1. seen' = [seen EXCEPT ![t].max = maxUnusedThreads] /\ Goto(t, "refreshIdle")
      BY <2>10 DEF RefreshMax
    <3> QED
      BY <1>0, <2>4, <3>1, SeenByOne
  <2>11. CASE Leave(t)
    <3>1. seen' = [seen EXCEPT ![t] = NothingSeen] /\ Goto(t, "out")
      BY <2>11 DEF Leave
    <3>2. seen'[t] = NothingSeen /\ \A u \in Threads : u # t => seen'[u] = seen[u]
      BY <3>1, SeenByOne
    <3> QED
      BY <2>4, <3>1, <3>2 DEF NothingSeen
  <2> QED
    BY <1>3, <2>5, <2>6, <2>7, <2>8, <2>9, <2>10, <2>11 DEF Goes
<1> QED
  BY <1>1, <1>2, <1>3 DEF Next

(* When all is quiet nobody holds a marker, and every thread that waits is *)
(* committed.                                                              *)
LEMMA MatchedObeyed ==
    ASSUME TypeOK, InsideCounted, LimitInv
    PROVE  LimitObeyed
<1> SUFFICES ASSUME Quiet, ~raced, maxUnusedThreads # -1
             PROVE  Cardinality(Waiters) <= maxUnusedThreads
  BY DEF LimitObeyed
<1>1. Committed = Waiters /\ Holders = {}
  BY DEF Quiet, Committed, Holders, Waiters, Staying, Handling
<1>2. Cardinality(Holders) = 0 /\ Len(unusedQueue) = 0
  BY <1>1, FS_EmptySet DEF Quiet
<1>3. Cardinality(Committed) \in Nat /\ maxUnusedThreads \in Nat
  BY CountsFinite DEF TypeOK
<1>4. ~TooMany
  <2>1. SUFFICES ASSUME TooMany PROVE FALSE
    OBVIOUS
  <2>2. Announced
    BY <2>1 DEF LimitInv, Matched, Announces, Quiet
  <2> QED
    BY <1>2, <1>3, <2>1, <2>2 DEF Announced, Within, TooMany
<1> QED
  BY <1>1, <1>3, <1>4 DEF TooMany

(* setMaxUnusedThreads() and stopUnusedThreads(): if calls of the setters  *)
(* do not overlap, then once all is quiet no more threads wait than the    *)
(* limit allows, whoever took, relayed or dropped the markers on the way.  *)
THEOREM UnusedLimitObeyed == SafeSpec /\ []OneAtATime => []LimitObeyed
<1>1. Init => LimitInv
  <2> SUFFICES ASSUME Init PROVE LimitInv
    OBVIOUS
  <2>1. Committed = {} /\ Arriving = {}
    BY DEF Init, Committed, Arriving, Staying
  <2>2. SerialsSeen
    BY DEF Init, NothingSeen, SerialsSeen
  <2>3. ~TooMany
    <3>1. Cardinality(Committed) = 0 /\ maxUnusedThreads \in Nat \cup {-1}
      BY <2>1, FS_EmptySet, LimitsAssumption DEF Init
    <3> QED
      BY <3>1 DEF TooMany
  <2> QED
    BY <2>1, <2>2, <2>3 DEF LimitInv, ArriveWithLimit, Matched
<1>2. IInv /\ IInv' /\ OneAtATime /\ LimitInv /\ [Next]_vars => LimitInv'
  <2> SUFFICES ASSUME IInv, IInv', OneAtATime, LimitInv, [Next]_vars PROVE LimitInv'
    OBVIOUS
  <2>1. CASE Next
    BY <2>1, MatchStep, ArrivalStep DEF IInv, LimitInv
  <2>2. CASE UNCHANGED vars
    <3>1. UNCHANGED <<pc, seen, maxUnusedThreads, wakeupSerial, killUnusedThreads, cpc,
                      arg, raced, unusedQueue>>
      BY <2>2 DEF vars, limits, waiters, callers
    <3>2. /\ Committed' = Committed /\ Holders' = Holders /\ (OldSerials' <=> OldSerials)
          /\ Arriving' = Arriving
      BY <3>1, SameLimitSameThreads DEF Arriving
    <3> QED
      BY <3>1, <3>2 DEF LimitInv, ArriveWithLimit, SerialsSeen, Matched, TooMany, Announces,
         Announced, Within
  <2> QED
    BY <2>1, <2>2
<1>3. IInv /\ LimitInv => LimitObeyed
  BY MatchedObeyed DEF IInv
<1> QED
  BY <1>1, <1>2, <1>3, UnusedInvariance, PTL DEF SafeSpec
=============================================================================
