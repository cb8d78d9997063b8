--------------------------- MODULE UnusedThread ---------------------------
(***************************************************************************)
(* util/AThreadPool.c, class UnusedThread: the threads that no thread pool *)
(* needs wait here, in pop() of unusedQueue, for a pool that does.  The    *)
(* limits (how many may wait, and for how long) are atomic integers; a     *)
(* thread reads them once, when it arrives, so a change of the limits is   *)
(* announced by wakeupSerial and by markers pushed to the queue.           *)
(*                                                                         *)
(* Every atomic access is an action, and so is each operation on the queue *)
(* (module AAsyncQueue implements the blocking queue used here: a waiting  *)
(* thread takes an item if there is one, and a timed pop() may give up     *)
(* while there is none).                                                   *)
(***************************************************************************)
EXTENDS AQueue

CONSTANTS Threads, Pools,
          Callers,        \* threads that change the limits
          Limits,         \* values for maxUnusedThreads; -1 is no limit
          IdleTimes,      \* values for maxIdleTime; 0 is for ever
          MaxCalls,       \* bound on the number of calls of the setters
          Marker,         \* wakeup_thread_marker
          None            \* NULL

ASSUME ThreadsAssumption == IsFiniteSet(Threads)
ASSUME LimitsAssumption == Limits \subseteq Nat \cup {-1} /\ IdleTimes \subseteq Nat
ASSUME TokensAssumption == None \notin Pools /\ Marker \notin Pools /\ Marker # None

VARIABLES unusedQueue, unusedThreads, wakeupSerial,
          maxUnusedThreads, killUnusedThreads, maxIdleTime,
          pc,             \* where each thread is in waitPool()
          seen,           \* the limits each thread has read
          relayed,        \* have_relayed_thread_marker of each thread
          got,            \* what the last waitPool() of each thread returned
          cpc, arg,       \* where each caller is in a setter, its argument
          restore,        \* oldval of stopUnusedThreads()
          calls,          \* history: calls of the setters so far
          raced           \* history: a limit changed behind an arriving thread

limits == <<wakeupSerial, maxUnusedThreads, killUnusedThreads, maxIdleTime>>
waiters == <<pc, seen, relayed, got>>
callers == <<cpc, arg, restore, calls, raced>>
vars == <<unusedQueue, unusedThreads, limits, waiters, callers>>

NothingSeen == [max |-> 0, idle |-> 0, serial |-> 0]

(* The integers at their initial values; a program may have set the limit  *)
(* before its first thread pool.                                           *)
Init == /\ unusedQueue = <<>>
        /\ unusedThreads = 0
        /\ wakeupSerial = 0
        /\ maxUnusedThreads \in Limits \cup {2}
        /\ killUnusedThreads = 0
        /\ maxIdleTime = 15
        /\ pc = [t \in Threads |-> "out"]
        /\ seen = [t \in Threads |-> NothingSeen]
        /\ relayed = [t \in Threads |-> FALSE]
        /\ got = [t \in Threads |-> None]
        /\ cpc = [c \in Callers |-> "ready"]
        /\ arg = [c \in Callers |-> 0]
        /\ restore = [c \in Callers |-> None]
        /\ calls = 0
        /\ raced = FALSE

Waiters == {t \in Threads : pc[t] = "pop"}

Goto(t, label) == pc' = [pc EXCEPT ![t] = label]
CallerGoto(c, label) == cpc' = [cpc EXCEPT ![c] = label]

(* A caller returns from setMaxUnusedThreads(), to stopUnusedThreads() or  *)
(* to its own code.                                                        *)
CallerReturns(c) == CallerGoto(c, IF restore[c] = None THEN "ready" ELSE "restore")
-----------------------------------------------------------------------------
(* Threads whose copy of the limits is not yet announced by their being    *)
(* counted in unusedThreads.                                               *)
Arriving == {t \in Threads : pc[t] \in {"readIdle", "readSerial", "count"}}

SetMax(c, n) == /\ maxUnusedThreads' = n
                /\ arg' = [arg EXCEPT ![c] = n]
                /\ IF n = -1 THEN CallerReturns(c) ELSE CallerGoto(c, "readUnused")
                /\ raced' = (raced \/ Arriving # {})
                /\ UNCHANGED <<unusedQueue, unusedThreads, wakeupSerial,
                               killUnusedThreads, maxIdleTime, waiters>>

SetMaxUnusedThreads(c, n) == /\ cpc[c] = "ready" /\ calls < MaxCalls
                             /\ calls' = calls + 1
                             /\ SetMax(c, n)
                             /\ UNCHANGED restore

(* stopUnusedThreads(): the limit is read, set to 0, set back.             *)
StopUnusedThreads(c) == /\ cpc[c] = "ready" /\ calls < MaxCalls
                        /\ calls' = calls + 1
                        /\ restore' = [restore EXCEPT ![c] = maxUnusedThreads]
                        /\ CallerGoto(c, "stop")
                        /\ UNCHANGED <<unusedQueue, unusedThreads, limits,
                                       waiters, arg, raced>>

StopZero(c) == cpc[c] = "stop" /\ SetMax(c, 0) /\ UNCHANGED <<restore, calls>>

StopRestore(c) ==
    /\ cpc[c] = "restore"
    /\ maxUnusedThreads' = restore[c]
    /\ arg' = [arg EXCEPT ![c] = restore[c]]
    /\ restore' = [restore EXCEPT ![c] = None]
    /\ CallerGoto(c, IF restore[c] = -1 THEN "ready" ELSE "readUnused")
    /\ raced' = (raced \/ Arriving # {})
    /\ UNCHANGED <<unusedQueue, unusedThreads, wakeupSerial, killUnusedThreads,
                   maxIdleTime, waiters, calls>>

(* How many threads wait too many.                                         *)
ReadUnused(c) ==
    /\ cpc[c] = "readUnused"
    /\ LET tooMany == unusedThreads - arg[c] IN
       IF tooMany > 0
       THEN arg' = [arg EXCEPT ![c] = tooMany] /\ CallerGoto(c, "kill")
       ELSE UNCHANGED arg /\ CallerReturns(c)
    /\ UNCHANGED <<unusedQueue, unusedThreads, limits, waiters, restore, calls, raced>>

SetKill(c) == /\ cpc[c] = "kill"
              /\ killUnusedThreads' = arg[c]
              /\ CallerGoto(c, "serial")
              /\ UNCHANGED <<unusedQueue, unusedThreads, wakeupSerial,
                             maxUnusedThreads, maxIdleTime, waiters,
                             arg, restore, calls, raced>>

(* Faulty variant: the markers go out under the old serial.                *)
KeepsSerial(c) == /\ cpc[c] = "serial"
                  /\ CallerGoto(c, "markers")
                  /\ UNCHANGED <<unusedQueue, unusedThreads, limits, waiters,
                                 arg, restore, calls, raced>>

IncSerial(c) == /\ cpc[c] = "serial"
                /\ wakeupSerial' = wakeupSerial + 1
                /\ CallerGoto(c, "markers")
                /\ UNCHANGED <<unusedQueue, unusedThreads, maxUnusedThreads,
                               killUnusedThreads, maxIdleTime, waiters,
                               arg, restore, calls, raced>>

PushMarkers(c) == /\ cpc[c] = "markers"
                  /\ unusedQueue' = [i \in 1 .. arg[c] |-> Marker] \o unusedQueue
                  /\ CallerReturns(c)
                  /\ UNCHANGED <<unusedThreads, limits, waiters,
                                 arg, restore, calls, raced>>

SetMaxIdleTime(c, interval) == /\ cpc[c] = "ready" /\ calls < MaxCalls
                               /\ calls' = calls + 1
                               /\ maxIdleTime' = interval
                               /\ CallerGoto(c, "readIdlers")
                               /\ UNCHANGED <<unusedQueue, unusedThreads, wakeupSerial,
                                              maxUnusedThreads, killUnusedThreads,
                                              waiters, arg, restore, raced>>

ReadIdlers(c) ==
    /\ cpc[c] = "readIdlers"
    /\ arg' = [arg EXCEPT ![c] = unusedThreads]
    /\ CallerGoto(c, IF unusedThreads > 0 THEN "serial" ELSE "ready")
    /\ UNCHANGED <<unusedQueue, unusedThreads, limits, waiters, restore, calls, raced>>
-----------------------------------------------------------------------------
(* addPool(): nothing changes when lengthUnlocked() is not negative.       *)
AddPool(p) == /\ Len(unusedQueue) < Cardinality(Waiters)
              /\ unusedQueue' = PushHead(unusedQueue, p)
              /\ UNCHANGED <<unusedThreads, limits, waiters, callers>>

(* waitPool(): a thread whose pool has no use for it comes here.           *)
ReadMax(t) == /\ pc[t] = "out"
              /\ seen' = [seen EXCEPT ![t].max = maxUnusedThreads]
              /\ got' = [got EXCEPT ![t] = None]
              /\ Goto(t, "readIdle")
              /\ UNCHANGED <<unusedQueue, unusedThreads, limits, relayed, callers>>

ReadIdle(t) == /\ pc[t] \in {"readIdle", "refreshIdle"}
               /\ seen' = [seen EXCEPT ![t].idle = maxIdleTime]
               /\ Goto(t, IF pc[t] = "readIdle" THEN "readSerial" ELSE "test")
               /\ UNCHANGED <<unusedQueue, unusedThreads, limits, relayed, got, callers>>

ReadSerial(t) == /\ pc[t] = "readSerial"
                 /\ seen' = [seen EXCEPT ![t].serial = wakeupSerial]
                 /\ Goto(t, "count")
                 /\ UNCHANGED <<unusedQueue, unusedThreads, limits, relayed, got, callers>>

Count(t) == /\ pc[t] = "count"
            /\ unusedThreads' = unusedThreads + 1
            /\ Goto(t, "test")
            /\ UNCHANGED <<unusedQueue, limits, seen, relayed, got, callers>>

(* The loop: a thread too many leaves, the others pop the queue.  -1 is    *)
(* the largest unsigned number.                                            *)
Test(t) == /\ pc[t] = "test"
           /\ Goto(t, IF seen[t].max # -1 /\ unusedThreads >= seen[t].max
                      THEN "leave" ELSE "poll")
           /\ UNCHANGED <<unusedQueue, unusedThreads, limits,
                          seen, relayed, got, callers>>

Wait(t) == /\ pc[t] = "poll" /\ unusedQueue = <<>>
           /\ Goto(t, "pop")
           /\ UNCHANGED <<unusedQueue, unusedThreads, limits,
                          seen, relayed, got, callers>>

Pop(t) == /\ pc[t] \in {"poll", "pop"} /\ unusedQueue # <<>>
          /\ unusedQueue' = Front(unusedQueue)
          /\ IF Last(unusedQueue) = Marker
             THEN Goto(t, "marker") /\ UNCHANGED got
             ELSE /\ got' = [got EXCEPT ![t] = Last(unusedQueue)]
                  /\ Goto(t, "leave")
          /\ UNCHANGED <<unusedThreads, limits, seen, relayed, callers>>

(* Faulty variant: the time is over, whatever is in the queue.             *)
TimesOutAnyway(t) == /\ pc[t] = "pop" /\ seen[t].idle > 0
                     /\ Goto(t, "leave")
                     /\ UNCHANGED <<unusedQueue, unusedThreads, limits,
                                    seen, relayed, got, callers>>

PopTimesOut(t) == /\ pc[t] = "pop" /\ seen[t].idle > 0 /\ unusedQueue = <<>>
                  /\ Goto(t, "leave")
                  /\ UNCHANGED <<unusedQueue, unusedThreads, limits,
                                 seen, relayed, got, callers>>

(* A marker: has the serial changed since this thread read its limits?     *)
ReadMarker(t) ==
    /\ pc[t] = "marker"
    /\ Goto(t, IF seen[t].serial # wakeupSerial THEN "mayDie"
               ELSE IF relayed[t] THEN "test" ELSE "relay")
    /\ seen' = [seen EXCEPT ![t].serial = wakeupSerial]
    /\ UNCHANGED <<unusedQueue, unusedThreads, limits, relayed, got, callers>>

(* Faulty variant: a thread relays every marker it meets.                  *)
RelayForgotten(t) == /\ pc[t] = "relay"
                     /\ unusedQueue' = PushHead(unusedQueue, Marker)
                     /\ Goto(t, "test")
                     /\ UNCHANGED <<unusedThreads, limits, seen, relayed, got, callers>>

(* The marker is for a thread with an older serial.                        *)
Relay(t) == /\ pc[t] = "relay"
            /\ unusedQueue' = PushHead(unusedQueue, Marker)
            /\ relayed' = [relayed EXCEPT ![t] = TRUE]
            /\ Goto(t, "test")
            /\ UNCHANGED <<unusedThreads, limits, seen, got, callers>>

MayDie(t) == /\ pc[t] = "mayDie"
             /\ killUnusedThreads' = killUnusedThreads - 1
             /\ Goto(t, IF killUnusedThreads > 0 THEN "leave" ELSE "refreshMax")
             /\ UNCHANGED <<unusedQueue, unusedThreads, wakeupSerial,
                            maxUnusedThreads, maxIdleTime, seen, relayed, got, callers>>

RefreshMax(t) == /\ pc[t] = "refreshMax"
                 /\ seen' = [seen EXCEPT ![t].max = maxUnusedThreads]
                 /\ relayed' = [relayed EXCEPT ![t] = FALSE]
                 /\ Goto(t, "refreshIdle")
                 /\ UNCHANGED <<unusedQueue, unusedThreads, limits, got, callers>>

(* The local variables end here.                                           *)
Leave(t) == /\ pc[t] = "leave"
            /\ unusedThreads' = unusedThreads - 1
            /\ seen' = [seen EXCEPT ![t] = NothingSeen]
            /\ relayed' = [relayed EXCEPT ![t] = FALSE]
            /\ Goto(t, "out")
            /\ UNCHANGED <<unusedQueue, limits, got, callers>>
-----------------------------------------------------------------------------
Caller(c) == \/ \E n \in Limits : SetMaxUnusedThreads(c, n)
             \/ StopUnusedThreads(c) \/ StopZero(c) \/ StopRestore(c)
             \/ ReadUnused(c) \/ SetKill(c) \/ IncSerial(c) \/ PushMarkers(c)
             \/ \E i \in IdleTimes : SetMaxIdleTime(c, i)
             \/ ReadIdlers(c)

(* The steps of waitPool() that do not wait.                               *)
Goes(t) == \/ ReadIdle(t) \/ ReadSerial(t) \/ Count(t) \/ Test(t)
           \/ Wait(t) \/ Pop(t) \/ ReadMarker(t) \/ Relay(t)
           \/ MayDie(t) \/ RefreshMax(t) \/ Leave(t)

Next == \/ \E c \in Callers : Caller(c)
        \/ \E p \in Pools : AddPool(p)
        \/ \E t \in Threads : ReadMax(t) \/ Goes(t) \/ PopTimesOut(t)

SafeSpec == Init /\ [][Next]_vars

(* A thread that is not blocked runs.                                      *)
Fairness == \A t \in Threads : WF_vars(Goes(t))

Spec == SafeSpec /\ Fairness
-----------------------------------------------------------------------------
TypeOK == /\ unusedQueue \in Seq(Pools \cup {Marker})
          /\ unusedThreads \in Nat /\ wakeupSerial \in Nat
          /\ maxUnusedThreads \in Nat \cup {-1}
          /\ killUnusedThreads \in Int /\ maxIdleTime \in Nat
          /\ pc \in [Threads -> {"out", "readIdle", "readSerial", "count", "test",
                                 "poll", "pop", "marker", "relay", "mayDie",
                                 "refreshMax", "refreshIdle", "leave"}]
          /\ seen \in [Threads -> [max : Nat \cup {-1}, idle : Nat, serial : Nat]]
          /\ relayed \in [Threads -> BOOLEAN]
          /\ got \in [Threads -> Pools \cup {None}]
          /\ cpc \in [Callers -> {"ready", "stop", "restore", "readUnused", "kill",
                                  "serial", "markers", "readIdlers"}]
          /\ arg \in [Callers -> Nat \cup {-1}]
          /\ restore \in [Callers -> Nat \cup {-1, None}]

(* addPool() against every way a thread has to stop waiting: the place of  *)
(* a pool in the queue, counted from the end that is popped, is at most    *)
(* the number of threads that wait, so no accepted pool is stranded.       *)
PoolReachable ==
    \A k \in 1 .. Len(unusedQueue) :
        unusedQueue[k] \in Pools => Len(unusedQueue) - k < Cardinality(Waiters)

(* setMaxUnusedThreads() and stopUnusedThreads(): once no setter and no    *)
(* waitPool() is under way no more threads wait than the limit allows,     *)
(* whatever markers were taken, relayed or lost on the way; except when a  *)
(* setter ran while a thread had read the limits but was not yet counted:  *)
(* that thread keeps the old limit until its time is over.                 *)
Quiet == /\ \A c \in Callers : cpc[c] = "ready"
         /\ \A t \in Threads : pc[t] \in {"out", "pop"}
         /\ unusedQueue = <<>>

LimitObeyed == Quiet /\ ~raced /\ maxUnusedThreads # -1
                   => Cardinality(Waiters) <= maxUnusedThreads

(* waitPool(): the markers do not keep a thread busy for ever; it comes to *)
(* wait or leaves.  A thread relays a marker at most once per serial.      *)
Settles == \A t \in Threads : (pc[t] # "out") ~> (pc[t] \in {"pop", "out"})

(* The pools in the queue, in their order and without the markers: the     *)
(* k-th is in the place up to which there are k.                           *)
PoolPlaces(q) == {i \in 1 .. Len(q) : q[i] \in Pools}
Upto(S, i) == {j \in S : j <= i}
Nth(S, k) == CHOOSE i \in S : Cardinality(Upto(S, i)) = k
PoolsOf(q) == [k \in 1 .. Cardinality(PoolPlaces(q)) |-> q[Nth(PoolPlaces(q), k)]]

(* The pool of unused threads implements the global pool, liveness         *)
(* included: each pool that addPool() accepted is given a thread.          *)
Abstract == INSTANCE GlobalPool
                WITH requests <- PoolsOf(unusedQueue), idle <- Waiters, given <- got
ImplementsGlobalPool == Abstract!Spec
=============================================================================
