----------------------------- MODULE ASourceMgr -----------------------------
(***************************************************************************)
(* main/ASourceMgr.c and main/ALoop.c: a manager of event sources, and the *)
(* loops that run it.  A thread owns the manager while it iterates: it     *)
(* prepares the sources, sleeps in epoll_wait(), checks the sources and    *)
(* dispatches those that are ready; other threads wait for the manager or  *)
(* call add(), remove(), setReadyTime() and quit(), which have to wake the *)
(* sleeping owner.                                                         *)
(*                                                                         *)
(* A section of code that holds the mutex of the manager is one action.    *)
(* foreachCheck() and excute() hold no mutex: each source they come to is  *)
(* a step of its own, and foreachCheck() follows the iterator of the       *)
(* storage (SourceLists) through arrays that others may change.            *)
(* Threads do not iterate recursively from a callback here, a source is    *)
(* not freed while it is used, and its priority does not change.           *)
(***************************************************************************)
EXTENDS SourceLists, FiniteSetsExt

CONSTANTS Threads,
          Sources,              \* those that are added and removed
          Wakeup,               \* wakeupSource
          kind, prio,           \* of each source
          Calls,                \* what each thread calls
          Concurrent,           \* whether they add and remove sources while
                                \* another thread owns the manager
          Interval, MaxTime,    \* of the timeout sources, of the clock
          MaxCalls              \* bound on the number of calls

(* An idle source is always ready, a timeout source at its ready_time, and *)
(* a source with a file descriptor when epoll reports it.                  *)
Kinds == {"idle", "timeout", "fd"}
NotRunning == "none"

ASSUME SourcesAssumption ==
    /\ Wakeup \notin Sources /\ NULL \notin Sources \cup Threads \cup {Wakeup}
    /\ kind \in [Sources -> Kinds]
    /\ prio \in [Sources \cup {Wakeup} -> Priorities] /\ prio[Wakeup] = 0
(* Priorities are of type int: there is a largest one.                     *)
ASSUME LargestAssumption == \E p \in Priorities : \A q \in Priorities : q <= p
ASSUME BoundsAssumption == Concurrent \in BOOLEAN /\ Interval \in Nat /\ MaxTime \in Nat /\ MaxCalls \in Nat

VARIABLES owner, ownerCount,
          isRunning,            \* of the loop of each thread
          pc, call,             \* where a thread is, and in which call
          lists,                \* the storage
          added, active, ready, \* sources with eventMgr, ACTIVE, READY set
          readyTime,            \* ready_time of each source
          now, eventTime,       \* the clock, and what the manager has read of it
          sleep,                \* timeout of epoll_wait() as a time; -1 for ever
          maxPriority, fds, nReady, iter, \* locals of the iteration of the owner
          edges, events,        \* events that epoll holds, and has returned
          pendingDispatches, pendingDispatchesCount,
          at, current,          \* excute(): its index, the source it dispatches
          crashed,              \* how the program has been aborted
          calls                 \* history: the number of calls

threadVars == <<owner, ownerCount, isRunning, pc, call>>
sourceVars == <<lists, added, active, readyTime>>
roundVars  == <<sleep, maxPriority, fds, nReady, iter, events, at, current>>
vars == <<threadVars, sourceVars, ready, now, eventTime, roundVars, edges,
          pendingDispatches, pendingDispatchesCount, crashed, calls>>

AllSources == Sources \cup {Wakeup}
MaxInt == 1 + CHOOSE p \in Priorities : \A q \in Priorities : q <= p

(* The constructor adds the wake-up source.                                *)
Init == /\ owner = NULL /\ ownerCount = 0
        /\ isRunning = [t \in Threads |-> FALSE]
        /\ pc = [t \in Threads |-> "idle"] /\ call = [t \in Threads |-> NotRunning]
        /\ lists = AddToSourceList(NoLists, Wakeup, 0)
        /\ added = {} /\ active = AllSources /\ ready = {}
        /\ readyTime = [s \in AllSources |-> -1]
        /\ now = 0 /\ eventTime = [time |-> 0, fresh |-> FALSE]
        /\ sleep = 0 /\ maxPriority = 0 /\ fds = {} /\ nReady = 0 /\ iter = InitIter
        /\ edges = {} /\ events = {}
        /\ pendingDispatches = <<>> /\ pendingDispatchesCount = 0
        /\ at = 0 /\ current = NULL
        /\ crashed = "no" /\ calls = 0

Stored == UNION {Listed(lists, p) : p \in Priorities}
Goto(t, stage) == pc' = [pc EXCEPT ![t] = stage]

Called(t, c) == /\ c \in Calls[t] /\ calls < MaxCalls /\ crashed = "no"
                /\ pc[t] \in {"idle", "callback"}
                /\ calls' = calls + 1
-----------------------------------------------------------------------------
(* Ownership.  A thread that waits for the manager is at "waiting", and at *)
(* "woken" when it has been woken and is going to lock the mutex.          *)

(* Faulty variant: a thread that has been woken does not look at owner.    *)
MayAcquireWoken(t) == pc[t] = "woken" \/ owner \in {NULL, t}

MayAcquire(t) == owner \in {NULL, t}

Take(t) == owner' = t /\ ownerCount' = ownerCount + 1

(* release() signals cond if a thread has put itself in waiters.  A waiter *)
(* that has not yet entered the futex call is woken by any signal.         *)
WakeSome == IF \E t \in Threads : pc[t] = "waiting"
            THEN {W \in SUBSET {t \in Threads : pc[t] = "waiting"} : W # {}}
            ELSE {{}}

Woken(p, W) == [t \in Threads |-> IF t \in W THEN "woken" ELSE p[t]]

(* Faulty variant: nobody is told that the manager is free.                *)
ReleaseSilently(t, stage) ==
    /\ ownerCount' = ownerCount - 1
    /\ owner' = IF ownerCount = 1 THEN NULL ELSE owner
    /\ Goto(t, stage)

(* release(), after which the thread goes on at the stage given.           *)
Release(t, stage) ==
    /\ ownerCount' = ownerCount - 1
    /\ IF ownerCount = 1
       THEN /\ owner' = NULL
            /\ \E W \in WakeSome : pc' = Woken([pc EXCEPT ![t] = stage], W)
       ELSE Goto(t, stage) /\ UNCHANGED owner

(* ALoop.run(): acquire() without the mutex.                               *)
Run(t) ==
    /\ pc[t] = "idle" /\ Called(t, "run")
    /\ call' = [call EXCEPT ![t] = "run"]
    /\ IF MayAcquire(t)
       THEN Take(t) /\ Goto(t, "acquired")
       ELSE Goto(t, "contend") /\ UNCHANGED <<owner, ownerCount>>
    /\ UNCHANGED <<isRunning, sourceVars, ready, now, eventTime, roundVars, edges,
                   pendingDispatches, pendingDispatchesCount, crashed>>

(* run() sets isRunning and calls iterate(), whose first statement is done *)
(* with the mutex held.                                                    *)
StartLoop(t) == /\ isRunning' = [isRunning EXCEPT ![t] = TRUE]
                /\ pendingDispatchesCount' = 0
                /\ Goto(t, "begun")

LoopStarts(t) ==
    /\ pc[t] = "acquired" /\ crashed = "no"
    /\ StartLoop(t)
    /\ UNCHANGED <<owner, ownerCount, call, sourceVars, ready, now, eventTime,
                   roundVars, edges, pendingDispatches, crashed, calls>>

(* The manager belonged to another thread: lock(), and wait() unless it    *)
(* has become free.                                                        *)
LoopContends(t) ==
    /\ pc[t] = "contend" /\ crashed = "no"
    /\ IF MayAcquire(t)
       THEN Take(t) /\ StartLoop(t)
       ELSE /\ isRunning' = [isRunning EXCEPT ![t] = TRUE]
            /\ Goto(t, "waiting")
            /\ UNCHANGED <<owner, ownerCount, pendingDispatchesCount>>
    /\ UNCHANGED <<call, sourceVars, ready, now, eventTime, roundVars, edges,
                   pendingDispatches, crashed, calls>>

(* wait() in run() goes on: a loop that was stopped meanwhile gives back   *)
(* what it has got.                                                        *)
LoopWakes(t) ==
    /\ pc[t] = "woken" /\ call[t] = "run" /\ crashed = "no"
    /\ \/ /\ MayAcquire(t) /\ Take(t)
          /\ IF isRunning[t] THEN StartLoop(t) /\ UNCHANGED call
             ELSE Goto(t, "leave") /\ UNCHANGED <<call, isRunning, pendingDispatchesCount>>
       \/ /\ ~MayAcquire(t)
          /\ IF isRunning[t]
             THEN Goto(t, "waiting") /\ UNCHANGED call
             ELSE Goto(t, "idle") /\ call' = [call EXCEPT ![t] = NotRunning]
          /\ UNCHANGED <<owner, ownerCount, isRunning, pendingDispatchesCount>>
    /\ UNCHANGED <<sourceVars, ready, now, eventTime, roundVars, edges,
                   pendingDispatches, crashed, calls>>

(* run() releases the manager.                                             *)
LoopLeaves(t) ==
    /\ pc[t] = "leave" /\ crashed = "no"
    /\ Release(t, "idle")
    /\ call' = [call EXCEPT ![t] = NotRunning]
    /\ UNCHANGED <<isRunning, sourceVars, ready, now, eventTime, roundVars, edges,
                   pendingDispatches, pendingDispatchesCount, crashed, calls>>

(* iterate(TRUE), iterate(FALSE) and pending() outside a loop.             *)
Iterate(t, c) ==
    /\ c \in {"iterate", "try", "pending"}
    /\ pc[t] = "idle" /\ Called(t, c)
    /\ call' = [call EXCEPT ![t] = c]
    /\ pendingDispatchesCount' = 0
    /\ Goto(t, "begun")
    /\ UNCHANGED <<owner, ownerCount, isRunning, sourceVars, ready, now, eventTime,
                   roundVars, edges, pendingDispatches, crashed>>

Block(t)    == call[t] \in {"run", "iterate"}
Dispatch(t) == call[t] # "pending"

(* acquire() in iterate().                                                 *)
IterateAcquires(t) ==
    /\ pc[t] = "begun" /\ crashed = "no"
    /\ IF MayAcquire(t)
       THEN Take(t) /\ Goto(t, "prepare") /\ UNCHANGED call
       ELSE /\ UNCHANGED <<owner, ownerCount>>
            /\ IF Block(t)
               THEN Goto(t, "refused") /\ UNCHANGED call
               ELSE Goto(t, "idle") /\ call' = [call EXCEPT ![t] = NotRunning]
    /\ UNCHANGED <<isRunning, sourceVars, ready, now, eventTime, roundVars, edges,
                   pendingDispatches, pendingDispatchesCount, crashed, calls>>

(* wait() in iterate(), up to and from cond.wait().                        *)
IterateWaits(t) ==
    /\ pc[t] = "refused" /\ crashed = "no"
    /\ IF MayAcquire(t) THEN Take(t) /\ Goto(t, "prepare")
       ELSE Goto(t, "waiting") /\ UNCHANGED <<owner, ownerCount>>
    /\ UNCHANGED <<isRunning, call, sourceVars, ready, now, eventTime, roundVars, edges,
                   pendingDispatches, pendingDispatchesCount, crashed, calls>>

IterateWakes(t) ==
    /\ pc[t] = "woken" /\ call[t] = "iterate" /\ crashed = "no"
    /\ IF MayAcquire(t)
       THEN Take(t) /\ Goto(t, "prepare") /\ UNCHANGED call
       ELSE /\ Goto(t, "idle") /\ call' = [call EXCEPT ![t] = NotRunning]
            /\ UNCHANGED <<owner, ownerCount>>
    /\ UNCHANGED <<isRunning, sourceVars, ready, now, eventTime, roundVars, edges,
                   pendingDispatches, pendingDispatchesCount, crashed, calls>>

(* A futex call may return by itself.                                      *)
WakesByItself(t) ==
    /\ pc[t] = "waiting" /\ crashed = "no"
    /\ Goto(t, "woken")
    /\ UNCHANGED <<owner, ownerCount, isRunning, call, sourceVars, ready, now, eventTime,
                   roundVars, edges, pendingDispatches, pendingDispatchesCount, crashed, calls>>

(* invoke() of a manager without owner: the callback runs with the manager *)
(* acquired.                                                               *)
Invoke(t) ==
    /\ pc[t] = "idle" /\ Called(t, "invoke") /\ owner = NULL
    /\ Take(t)
    /\ Goto(t, "leave")
    /\ call' = [call EXCEPT ![t] = "invoke"]
    /\ UNCHANGED <<isRunning, sourceVars, ready, now, eventTime, roundVars, edges,
                   pendingDispatches, pendingDispatchesCount, crashed>>
-----------------------------------------------------------------------------
(* The iteration of the owner.  getTimeout() goes through the sources in   *)
(* the order of their priorities, up to those behind the first ready one;  *)
(* query() then collects the file descriptors.                             *)
Prepared(s) == \/ s \in ready \/ kind[s] = "idle"
               \/ readyTime[s] # -1 /\ readyTime[s] <= now

HasFd(s) == s = Wakeup \/ kind[s] = "fd"

SleepUntil(times) == IF times = {} THEN -1 ELSE Min(times)

Prepare(t) ==
    LET prepared == {s \in Stored \ {Wakeup} : Prepared(s)}
        first  == IF prepared = {} THEN MaxInt ELSE Min({prio[s] : s \in prepared})
        looked == {s \in Stored \ {Wakeup} : prio[s] <= first}
        timed  == {s \in looked \ ready : kind[s] # "idle" /\ readyTime[s] # -1}
    IN
    /\ pc[t] = "prepare" /\ crashed = "no"
    /\ ready' = ready \cup (prepared \cap looked)
    /\ maxPriority' = first
    /\ fds' = {s \in Stored : HasFd(s) /\ prio[s] <= first}
    /\ sleep' = IF prepared # {} \/ ~Block(t) THEN 0
                ELSE SleepUntil({readyTime[s] : s \in timed})
    /\ eventTime' = [time |-> IF timed # {} THEN now ELSE eventTime.time,
                     fresh |-> timed # {} /\ prepared # {}]
    /\ Goto(t, "poll")
    /\ UNCHANGED <<owner, ownerCount, isRunning, call, sourceVars, now, nReady, iter,
                   events, at, current, edges, pendingDispatches,
                   pendingDispatchesCount, crashed, calls>>

(* poll(): the descriptors are registered edge-triggered, epoll reports an *)
(* event once.  The descriptor of the wake-up source is looked at only if  *)
(* query() has collected it.  A signal handler may interrupt the call.     *)
PollReturns(t) ==
    /\ pc[t] = "poll" /\ crashed = "no"
    /\ IF fds = {} /\ sleep = 0
       THEN UNCHANGED <<events, edges>>
       ELSE \/ /\ sleep = 0 \/ edges # {} \/ (sleep # -1 /\ sleep <= now)
               /\ events' = edges \ ({Wakeup} \ fds) /\ edges' = {}
    /\ Goto(t, "check")
    /\ UNCHANGED <<owner, ownerCount, isRunning, call, sourceVars, ready, now, eventTime,
                   sleep, maxPriority, fds, nReady, iter, at, current,
                   pendingDispatches, pendingDispatchesCount, crashed, calls>>

PollInterrupted(t) ==
    /\ pc[t] = "poll" /\ sleep # 0 /\ edges = {} /\ crashed = "no"
    /\ events' = {}
    /\ Goto(t, "check")
    /\ UNCHANGED <<owner, ownerCount, isRunning, call, sourceVars, ready, now, eventTime,
                   sleep, maxPriority, fds, nReady, iter, at, current, edges,
                   pendingDispatches, pendingDispatchesCount, crashed, calls>>

(* check() empties the eventfd: what has been signalled since epoll_wait() *)
(* is not reported any more.                                               *)
Acknowledge(t) ==
    /\ pc[t] = "check" /\ crashed = "no"
    /\ edges' = IF Wakeup \in events THEN edges \ {Wakeup} ELSE edges
    /\ iter' = InitIter /\ nReady' = 0
    /\ Goto(t, "checkNext")
    /\ UNCHANGED <<owner, ownerCount, isRunning, call, sourceVars, ready, now, eventTime,
                   sleep, maxPriority, fds, events, at, current,
                   pendingDispatches, pendingDispatchesCount, crashed, calls>>

(* The time that check() and getTime() see: read once, until it is no      *)
(* longer fresh.                                                           *)
Time == IF eventTime.fresh THEN eventTime.time ELSE now

(* haveReadEvent() is event|EPOLLIN, true whatever the event.              *)
HaveReadEvent(s) == TRUE

Checked(s) == \/ s \in ready \/ kind[s] = "idle"
              \/ kind[s] = "fd" /\ HaveReadEvent(s)
              \/ readyTime[s] # -1 /\ readyTime[s] <= Time

(* A step of foreachCheck(), for a source that is neither destroyed nor    *)
(* the wake-up source.                                                     *)
CheckSource(s) ==
    /\ eventTime' = IF s \notin ready /\ kind[s] = "timeout" /\ readyTime[s] # -1
                    THEN [time |-> Time, fresh |-> TRUE] ELSE eventTime
    /\ IF Checked(s)
       THEN /\ ready' = ready \cup {s}
            /\ pendingDispatches' =
                   IF pendingDispatchesCount < Len(pendingDispatches)
                   THEN [pendingDispatches EXCEPT ![pendingDispatchesCount + 1] = s]
                   ELSE Append(pendingDispatches, s)
            /\ pendingDispatchesCount' = pendingDispatchesCount + 1
            /\ nReady' = nReady + 1
            /\ maxPriority' = prio[s]
       ELSE UNCHANGED <<ready, pendingDispatches, pendingDispatchesCount, nReady, maxPriority>>

(* Faulty variant: goes on to sources of lower priority.                   *)
BehindReadyNever(s) == FALSE

BehindReady(s) == nReady > 0 /\ prio[s] > maxPriority

CheckNext(t) ==
    LET s == NextSource(lists, iter)
        ends == ~HasNext(lists, iter) \/ (s # NULL /\ s \in active /\ BehindReady(s))
    IN
    /\ pc[t] = "checkNext" /\ crashed = "no"
    /\ IF ends
       THEN /\ Goto(t, "excute") /\ iter' = InitIter
            /\ UNCHANGED <<ready, eventTime, pendingDispatches, pendingDispatchesCount,
                           nReady, maxPriority, crashed>>
       ELSE /\ iter' = NextIter(lists, iter)
            /\ crashed' = IF s = NULL THEN "null" ELSE crashed
            /\ UNCHANGED pc
            /\ IF s \in active \ {Wakeup}
               THEN CheckSource(s)
               ELSE UNCHANGED <<ready, eventTime, pendingDispatches,
                                pendingDispatchesCount, nReady, maxPriority>>
    /\ UNCHANGED <<owner, ownerCount, isRunning, call, sourceVars, now, sleep, fds,
                   events, at, current, edges, calls>>

(* excute(): the next of the pending sources.                              *)
ExcuteNext(t) ==
    LET s == pendingDispatches[at + 1] IN
    /\ pc[t] = "excute" /\ crashed = "no"
    /\ Dispatch(t) /\ at < pendingDispatchesCount
    /\ pendingDispatches' = [pendingDispatches EXCEPT ![at + 1] = NULL]
    /\ at' = at + 1
    /\ ready' = ready \ {s}
    /\ crashed' = IF s = NULL THEN "assert" ELSE crashed
    /\ IF s \in active
       THEN current' = s /\ Goto(t, "callback")
       ELSE UNCHANGED <<current, pc>>
    /\ UNCHANGED <<owner, ownerCount, isRunning, call, sourceVars, now, eventTime, sleep,
                   maxPriority, fds, nReady, iter, events, edges,
                   pendingDispatchesCount, calls>>

(* The end of excute() and of iterate(), and the condition of the loop.    *)
IterateReturns(t) ==
    /\ pc[t] = "excute" /\ crashed = "no"
    /\ ~Dispatch(t) \/ at >= pendingDispatchesCount
    /\ pendingDispatchesCount' = IF Dispatch(t) THEN 0 ELSE pendingDispatchesCount
    /\ Release(t, IF call[t] # "run" THEN "idle" ELSE IF isRunning[t] THEN "begun" ELSE "leave")
    /\ call' = [call EXCEPT ![t] = IF call[t] = "run" THEN @ ELSE NotRunning]
    /\ sleep' = 0 /\ maxPriority' = 0 /\ fds' = {} /\ nReady' = 0 /\ iter' = InitIter
    /\ events' = {} /\ at' = 0 /\ current' = NULL
    /\ UNCHANGED <<isRunning, sourceVars, ready, now, eventTime, edges,
                   pendingDispatches, crashed, calls>>
-----------------------------------------------------------------------------
(* What idle threads, and callbacks in the thread of the owner, call.      *)
Signal == edges' = edges \cup {Wakeup}

(* Faulty variant: the wake-up is left to whoever sets a ready time.       *)
AddSignalsNever(t) == UNCHANGED edges

AddSignals(t) == IF owner \in {NULL, t} THEN UNCHANGED edges ELSE Signal

MayChange(t) == Concurrent \/ owner \in {NULL, t}

(* add() of a source that has just been made.                              *)
Add(t, s) ==
    /\ s \in Sources \ added /\ MayChange(t) /\ Called(t, "add")
    /\ added' = added \cup {s}
    /\ lists' = AddToSourceList(lists, s, prio[s])
    /\ readyTime' = IF kind[s] = "timeout"
                    THEN [readyTime EXCEPT ![s] = now + Interval] ELSE readyTime
    /\ AddSignals(t)
    /\ UNCHANGED <<threadVars, active, ready, now, eventTime, roundVars,
                   pendingDispatches, pendingDispatchesCount, crashed>>

(* destroy(): the storage calls a_error() if it does not hold the source,  *)
(* as after removeAll(), which leaves the source active.                   *)
Destroy(s) ==
    IF s \notin Stored
    THEN crashed' = "misplaced" /\ UNCHANGED <<lists, active, edges>>
    ELSE /\ lists' = RemoveFromSourceList(lists, s, prio[s])
         /\ active' = active \ {s}
         /\ edges' = edges \ {s}
         /\ UNCHANGED crashed

RemoveSource(t, s) ==
    /\ s \in added \cap active /\ MayChange(t) /\ Called(t, "remove")
    /\ Destroy(s)
    /\ UNCHANGED <<threadVars, added, readyTime, ready, now, eventTime, roundVars,
                   pendingDispatches, pendingDispatchesCount>>

(* removeAll(): the count of the pending sources stays; the wake-up source *)
(* leaves the storage as the others do.                                    *)
RemoveAll(t) ==
    /\ Called(t, "removeAll")
    /\ pendingDispatches' = [i \in DOMAIN pendingDispatches |->
                               IF i <= pendingDispatchesCount THEN NULL
                               ELSE pendingDispatches[i]]
    /\ lists' \in Emptied(lists)
    /\ UNCHANGED <<threadVars, added, active, readyTime, ready, now, eventTime, roundVars,
                   edges, pendingDispatchesCount, crashed>>

SetReadyTime(t, s, time) ==
    /\ s \in added /\ kind[s] = "timeout" /\ time # readyTime[s]
    /\ Called(t, "setReadyTime")
    /\ readyTime' = [readyTime EXCEPT ![s] = time]
    /\ Signal
    /\ UNCHANGED <<threadVars, lists, added, active, ready, now, eventTime, roundVars,
                   pendingDispatches, pendingDispatchesCount, crashed>>

(* Faulty variant: only the waiting threads are told.                      *)
QuitWithoutSignal(t, l) ==
    /\ Called(t, "quit")
    /\ isRunning' = [isRunning EXCEPT ![l] = FALSE]
    /\ pc' = Woken(pc, {w \in Threads : pc[w] = "waiting"})
    /\ UNCHANGED <<owner, ownerCount, call, sourceVars, ready, now, eventTime, roundVars,
                   edges, pendingDispatches, pendingDispatchesCount, crashed>>

(* quit() of the loop of thread l.                                         *)
Quit(t, l) ==
    /\ Called(t, "quit")
    /\ isRunning' = [isRunning EXCEPT ![l] = FALSE]
    /\ Signal
    /\ pc' = Woken(pc, {w \in Threads : pc[w] = "waiting"})
    /\ UNCHANGED <<owner, ownerCount, call, sourceVars, ready, now, eventTime, roundVars,
                   pendingDispatches, pendingDispatchesCount, crashed>>

(* The callback returns, TRUE to be called again.  A timeout source then   *)
(* sets its next ready time; a source that returns FALSE is destroyed.     *)
CallbackReturns(t) ==
    /\ pc[t] = "callback" /\ crashed = "no"
    /\ Goto(t, "excute")
    /\ \/ IF kind[current] = "timeout"
          THEN /\ eventTime' = [time |-> Time, fresh |-> TRUE]
               /\ readyTime' = [readyTime EXCEPT ![current] = Time + Interval]
               /\ IF readyTime'[current] = readyTime[current]
                  THEN UNCHANGED edges ELSE Signal
               /\ UNCHANGED <<lists, active, crashed>>
          ELSE UNCHANGED <<eventTime, readyTime, edges, lists, active, crashed>>
       \/ /\ IF current \in active
             THEN Destroy(current) ELSE UNCHANGED <<lists, active, edges, crashed>>
          /\ UNCHANGED <<eventTime, readyTime>>
    /\ current' = NULL
    /\ UNCHANGED <<owner, ownerCount, isRunning, call, added, ready, now, sleep,
                   maxPriority, fds, nReady, iter, events, at,
                   pendingDispatches, pendingDispatchesCount, calls>>

Tick == /\ now < MaxTime /\ crashed = "no"
        /\ now' = now + 1
        /\ UNCHANGED <<threadVars, sourceVars, ready, eventTime, roundVars, edges,
                       pendingDispatches, pendingDispatchesCount, crashed, calls>>

(* Data arrive for a source that is registered with epoll.                 *)
DataArrives(s) ==
    /\ s \in (added \cap active) \ edges /\ kind[s] = "fd" /\ crashed = "no"
    /\ edges' = edges \cup {s}
    /\ UNCHANGED <<threadVars, sourceVars, ready, now, eventTime, roundVars,
                   pendingDispatches, pendingDispatchesCount, crashed, calls>>
-----------------------------------------------------------------------------
Owning(t) == \/ LoopStarts(t) \/ LoopLeaves(t)
             \/ Prepare(t) \/ PollReturns(t) \/ Acknowledge(t) \/ CheckNext(t)
             \/ ExcuteNext(t) \/ CallbackReturns(t) \/ IterateReturns(t)

Entering(t) == \/ LoopContends(t) \/ LoopWakes(t)
               \/ IterateAcquires(t) \/ IterateWaits(t) \/ IterateWakes(t)

Calling(t) == \/ Run(t) \/ Invoke(t)
              \/ \E c \in Calls[t] : Iterate(t, c)
              \/ \E s \in Sources : \/ Add(t, s) \/ RemoveSource(t, s)
                                   \/ \E time \in {-1, now, now + Interval} :
                                          SetReadyTime(t, s, time)
              \/ RemoveAll(t)
              \/ \E l \in Threads : Quit(t, l)

Next == \/ \E t \in Threads : \/ Owning(t) \/ Entering(t) \/ Calling(t)
                              \/ PollInterrupted(t) \/ WakesByItself(t)
        \/ Tick
        \/ \E s \in Sources : DataArrives(s)

SafeSpec == Init /\ [][Next]_vars

(* A thread that can go on goes on: the mutex is held for short sections,  *)
(* callbacks return, and epoll_wait() returns once it has an event or its  *)
(* time has come.                                                          *)
Spec == SafeSpec /\ \A t \in Threads : WF_vars(Owning(t)) /\ WF_vars(Entering(t))
-----------------------------------------------------------------------------
Stages == {"idle", "acquired", "contend", "waiting", "woken", "begun", "refused",
           "prepare", "poll", "check", "checkNext", "excute", "callback", "leave"}
CallNames == {NotRunning, "run", "iterate", "try", "pending", "invoke"}

TypeOK == /\ owner \in Threads \cup {NULL} /\ ownerCount \in Nat
          /\ isRunning \in [Threads -> BOOLEAN]
          /\ pc \in [Threads -> Stages]
          /\ call \in [Threads -> CallNames]
          /\ added \subseteq Sources /\ active \subseteq AllSources /\ ready \subseteq Sources
          /\ readyTime \in [AllSources -> Nat \cup {-1}]
          /\ now \in Nat /\ eventTime \in [time : Nat, fresh : BOOLEAN]
          /\ edges \subseteq AllSources /\ events \subseteq AllSources
          /\ sleep \in Nat \cup {-1}
          /\ nReady \in Nat /\ at \in Nat
          /\ iter \in [value : Nat \ {0}, count : Nat]
          /\ pendingDispatches \in Seq(Sources \cup {NULL})
          /\ pendingDispatchesCount \in 0 .. Len(pendingDispatches)
          /\ current \in Sources \cup {NULL}
          /\ crashed \in {"no", "null", "assert", "misplaced"}

(* acquire(), wait(), release(): the manager is run by one thread at a     *)
(* time, and ownerCount is the number of times this thread has acquired    *)
(* it: once for run() or invoke(), once for iterate().                     *)
InIteration(t) == pc[t] \in {"prepare", "poll", "check", "checkNext", "excute", "callback"}

Held(t) == (IF InIteration(t) THEN 1 ELSE 0)
           + (IF /\ call[t] \in {"run", "invoke"}
                 /\ InIteration(t) \/ pc[t] \in {"acquired", "begun", "leave"}
              THEN 1 ELSE 0)

OwnerCounted == /\ \A t \in Threads : Held(t) > 0 => owner = t
                /\ ownerCount = IF owner = NULL THEN 0 ELSE Held(owner)

(* release() and wait(): while the manager is free, a thread that waits    *)
(* for it is alone in waiting only if another one has been woken, which    *)
(* will take it or find it taken again.                                    *)
WaiterWoken ==
    owner = NULL /\ crashed = "no" /\ (\E t \in Threads : pc[t] = "waiting")
        => \E t \in Threads : pc[t] = "woken"

(* add(), setReadyTime(), quit() and check(): the owner does not sleep in  *)
(* epoll_wait() past the time at which a source is to be dispatched, nor   *)
(* in a loop that has been stopped, unless an event will end its sleep.    *)
(* Signals that come between epoll_wait() and acknowledge() are lost, but  *)
(* not what they announce.                                                 *)
NoMissedWakeup ==
    \A t \in Threads :
        pc[t] = "poll" /\ sleep # 0 /\ Wakeup \notin edges =>
            /\ call[t] = "run" => isRunning[t]
            /\ \A s \in Stored \ {Wakeup} :
                  /\ kind[s] # "idle"
                  /\ readyTime[s] # -1 => sleep # -1 /\ sleep <= readyTime[s]

(* foreachCheck(), excute(): the sources that are still to be dispatched   *)
(* in this round are marked READY, each is there once, and they have the   *)
(* same priority, although callbacks add and remove sources.               *)
PendingRound ==
    \A t \in Threads : pc[t] \in {"excute", "callback"} /\ Dispatch(t) /\ crashed = "no" =>
        LET left == {i \in at + 1 .. pendingDispatchesCount : pendingDispatches[i] # NULL} IN
        \A i, j \in left :
            /\ pendingDispatches[i] \in ready
            /\ prio[pendingDispatches[i]] = prio[pendingDispatches[j]]
            /\ i # j => pendingDispatches[i] # pendingDispatches[j]

(* foreachCheck(): each step of the iterator finds a source, as long as    *)
(* only the owner changes the storage.                                     *)
SourceIsThere == crashed # "null"

(* ASourceMgr.h: a manager is in only one thread at a time; the pending    *)
(* sources of an iteration are not changed by a thread that does not own   *)
(* the manager.                                                            *)
PendingOfOwner ==
    [][\A t \in Threads : InIteration(t) /\ pc'[t] = pc[t] /\ UNCHANGED <<iter, at>>
          => UNCHANGED pendingDispatchesCount]_vars

(* quit(): a loop that has been stopped returns from run(), in whatever    *)
(* state quit() finds it.                                                  *)
QuitStops ==
    \A t \in Threads :
        (call[t] = "run" /\ pc[t] \notin {"acquired", "contend"} /\ ~isRunning[t])
            ~> (pc[t] = "idle")

(* While a loop runs, a source that is due is dispatched, removed or given *)
(* another time, whichever thread has added it.                            *)
Due(s) == s \in Stored /\ (kind[s] = "idle" \/ (readyTime[s] # -1 /\ readyTime[s] <= now))

DueDispatched ==
    \A s \in Sources :
        (Due(s) /\ (\E t \in Threads : isRunning[t]))
            ~> (current = s \/ ~Due(s) \/ \A t \in Threads : ~isRunning[t])
=============================================================================
