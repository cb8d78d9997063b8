---------------------------- MODULE AThreadPool ----------------------------
(***************************************************************************)
(* util/AThreadPool.c: one thread pool, its owner, the threads that work   *)
(* for it and the pool of unused threads they come from.  What happens     *)
(* between queue->lock() and queue->unlock() is one action; the task queue *)
(* is the blocking queue that module AAsyncQueue implements, and the pool  *)
(* of unused threads is the global pool that module UnusedThread           *)
(* implements: other pools take spare threads from it and return others.   *)
(*                                                                         *)
(* The owner does not use the pool while or after it frees it.  The tasks  *)
(* may push tasks at any time: push() looks at running before it takes the *)
(* mutex, so such a push may take effect after free().                     *)
(***************************************************************************)
EXTENDS AQueue

CONSTANTS Workers,        \* threads
          Tasks,          \* each is pushed at most once
          MaxThreads,     \* values for maxThreads; -1 is no limit
          MaxChanges,     \* bound on the calls of setMaxThreads()
          MayFail,        \* whether a thread may fail to start
          rank,           \* the order of the sort function
          Owner,          \* the thread that owns the pool
          Marker,         \* the pointer 1 that wakes the threads
          None            \* NULL

ASSUME WorkersAssumption == IsFiniteSet(Workers) /\ Owner \notin Workers
ASSUME TasksAssumption == Marker \notin Tasks /\ None \notin Tasks /\ Marker # None
ASSUME MaxThreadsAssumption == MaxThreads \subseteq Nat \cup {-1}
ASSUME RankAssumption == rank \in [Tasks \cup {Marker} -> Int]
ASSUME MayFailAssumption == MayFail \in BOOLEAN

VARIABLES exclusive, maxThreads, numThreads, running, immediate, waiting,
          queue,
          sorted,         \* whether sortFunc is set
          requests,       \* how often this pool waits in unusedQueue
          pc,             \* what each thread does
          task,           \* the task each thread runs
          pushing,        \* the task each thread is about to push
          opc,            \* what the owner does
          asked,          \* the arguments of free()
          offered,        \* history: the tasks that were passed to push()
          accepted,       \* history: the tasks that were put in the queue
          ran,            \* history: how often each task was run
          freed,          \* history: how often the pool was freed
          changes,        \* history: the calls of setMaxThreads()
          failed          \* history: a thread could not be started

pool == <<exclusive, maxThreads, numThreads, running, immediate, waiting, queue, sorted>>
history == <<offered, accepted, ran, freed, changes, failed>>
vars == <<pool, requests, pc, task, pushing, opc, asked, history>>

Init == /\ exclusive \in BOOLEAN
        /\ maxThreads \in MaxThreads /\ (exclusive => maxThreads # -1)
        /\ numThreads = 0
        /\ running = TRUE /\ immediate = FALSE /\ waiting = FALSE
        /\ queue = <<>> /\ sorted = FALSE
        /\ requests = 0
        /\ pc = [w \in Workers |-> "none"]
        /\ task = [w \in Workers |-> None]
        /\ pushing = [a \in Workers \cup {Owner} |-> None]
        /\ opc = "new"
        /\ asked = [immediate |-> FALSE, wait |-> FALSE]
        /\ offered = {} /\ accepted = {}
        /\ ran = [x \in Tasks |-> 0]
        /\ freed = 0 /\ changes = 0 /\ failed = FALSE

In(label) == {w \in Workers : pc[w] = label}
Attached == {w \in Workers : pc[w] \in {"enter", "pop", "run"}}

compare_cb == [x \in Tasks \cup {Marker} |-> -rank[x]]
Markers(n) == [i \in 1 .. n |-> Marker]

(* lengthUnlocked() of the task queue: negative if threads wait.           *)
length == Len(queue) - Cardinality(In("pop"))
-----------------------------------------------------------------------------
(* Faulty variant: a thread from the global pool is not counted.           *)
CountsNewOnly(k, max) ==
    LET wanted == IF max # -1 /\ k > max - numThreads
                  THEN IF max > numThreads THEN max - numThreads ELSE 0
                  ELSE IF k > 0 THEN k ELSE 0
    IN  \E new \in SUBSET In("none"),
           reused \in 0 .. Cardinality(In("spare")) - requests :
            LET started == Cardinality(new) + reused
            IN  /\ \/ started = wanted /\ UNCHANGED failed
                   \/ started < wanted /\ MayFail /\ failed' = TRUE
                /\ numThreads' = numThreads + Cardinality(new)
                /\ requests' = requests + reused
                /\ pc' = [w \in Workers |-> IF w \in new THEN "enter" ELSE pc[w]]

(* startThread(), k times: not beyond maxThreads; addPool() if it accepts, *)
(* else a new thread.  The first failure ends the loop of the caller.      *)
StartThreads(k, max) ==
    LET wanted == IF max # -1 /\ k > max - numThreads
                  THEN IF max > numThreads THEN max - numThreads ELSE 0
                  ELSE IF k > 0 THEN k ELSE 0
    IN  \E new \in SUBSET In("none"),
           reused \in 0 .. Cardinality(In("spare")) - requests :
            LET started == Cardinality(new) + reused
            IN  /\ \/ started = wanted /\ UNCHANGED failed
                   \/ started < wanted /\ MayFail /\ failed' = TRUE
                /\ numThreads' = numThreads + started
                /\ requests' = requests + reused
                /\ pc' = [w \in Workers |-> IF w \in new THEN "enter" ELSE pc[w]]

NoThreadStarted == UNCHANGED <<numThreads, requests, pc, failed>>

(* The constructor starts the threads of an exclusive pool.                *)
Construct == /\ opc = "new"
             /\ IF exclusive THEN StartThreads(maxThreads, maxThreads)
                ELSE NoThreadStarted
             /\ opc' = "ready"
             /\ UNCHANGED <<exclusive, maxThreads, running, immediate, waiting,
                            queue, sorted, task, pushing, asked,
                            offered, accepted, ran, freed, changes>>

(* push() without the mutex: FALSE and nothing more after free().          *)
PushBegins(a, x) == /\ IF a = Owner THEN opc = "ready" ELSE pc[a] = "run"
                    /\ running /\ pushing[a] = None /\ x \notin offered
                    /\ pushing' = [pushing EXCEPT ![a] = x]
                    /\ offered' = offered \cup {x}
                    /\ UNCHANGED <<pool, requests, pc, task, opc, asked,
                                   accepted, ran, freed, changes, failed>>

(* push() with the mutex: a thread is started if none waits, the task is   *)
(* queued whether or not that succeeds.                                    *)
PushLocked(a) ==
    /\ pushing[a] # None
    /\ IF length >= 0 THEN StartThreads(1, maxThreads) ELSE NoThreadStarted
    /\ queue' = IF sorted THEN InsertSorted(queue, pushing[a], compare_cb)
                ELSE PushHead(queue, pushing[a])
    /\ accepted' = accepted \cup {pushing[a]}
    /\ pushing' = [pushing EXCEPT ![a] = None]
    /\ UNCHANGED <<exclusive, maxThreads, running, immediate, waiting, sorted,
                   task, opc, asked, offered, ran, freed, changes>>

OwnerReady == opc = "ready" /\ pushing[Owner] = None

SetSortFunction(on) ==
    /\ OwnerReady
    /\ sorted' = on
    /\ queue' = IF on THEN SortQueue(queue, compare_cb) ELSE queue
    /\ UNCHANGED <<exclusive, maxThreads, numThreads, running, immediate, waiting,
                   requests, pc, task, pushing, opc, asked, history>>

SetMaxThreads(n) ==
    /\ OwnerReady /\ (exclusive => n # -1)
    /\ changes < MaxChanges /\ changes' = changes + 1
    /\ maxThreads' = n
    /\ StartThreads(IF exclusive THEN n - numThreads ELSE length, n)
    /\ UNCHANGED <<exclusive, running, immediate, waiting, queue, sorted,
                   task, pushing, opc, asked, offered, accepted, ran, freed>>
-----------------------------------------------------------------------------
(* free() up to the mutex.                                                 *)
FreeBegins(now, wait) ==
    /\ OwnerReady
    /\ now \/ maxThreads # 0 \/ length = 0
    /\ asked' = [immediate |-> now, wait |-> wait]
    /\ opc' = "free"
    /\ UNCHANGED <<pool, requests, pc, task, pushing, history>>

AllWait == length = -numThreads

(* The condition of the loop around cond.wait().                           *)
FreeMustWait == asked.wait /\ ~AllWait /\ ~(asked.immediate /\ numThreads = 0)

(* free() with the mutex: it waits; or the pool is to be cleared; or the   *)
(* threads are told to stop (wakeupAndStopAll()); or there are tasks left, *)
(* and the last thread will clear the pool.                                *)
FreeGoesOn ==
    /\ \/ /\ FreeMustWait
          /\ opc' = "wait" /\ immediate' = asked.immediate /\ waiting' = TRUE
          /\ UNCHANGED queue
       \/ /\ ~FreeMustWait /\ (asked.immediate \/ AllWait) /\ numThreads = 0
          /\ opc' = "clear" /\ immediate' = asked.immediate /\ waiting' = asked.wait
          /\ UNCHANGED queue
       \/ /\ ~FreeMustWait /\ (asked.immediate \/ AllWait) /\ numThreads > 0
          /\ opc' = "done" /\ immediate' = TRUE /\ waiting' = FALSE
          /\ queue' = Markers(numThreads) \o queue
       \/ /\ ~FreeMustWait /\ ~(asked.immediate \/ AllWait)
          /\ opc' = "done" /\ immediate' = asked.immediate /\ waiting' = FALSE
          /\ UNCHANGED queue
    /\ UNCHANGED <<exclusive, maxThreads, numThreads, sorted, requests,
                   pc, task, pushing, asked, history>>

FreeLocked == opc = "free" /\ running' = FALSE /\ FreeGoesOn
FreeWakes == opc = "woken" /\ UNCHANGED running /\ FreeGoesOn

(* The futex wait of free() ends without a wake-up.                        *)
FreeInterrupted == /\ opc = "wait" /\ opc' = "woken"
                   /\ UNCHANGED <<pool, requests, pc, task, pushing, asked, history>>

(* queue->remove(1), if there is one; the queue and the pool are gone.     *)
Cleared == /\ queue' = IF Marker \in ToSet(queue) THEN RemoveItem(queue, Marker) ELSE queue
           /\ freed' = freed + 1

InternalClear == /\ opc = "clear" /\ opc' = "done"
                 /\ Cleared
                 /\ UNCHANGED <<exclusive, maxThreads, numThreads, running, immediate,
                                waiting, sorted, requests, pc, task, pushing, asked,
                                offered, accepted, ran, changes, failed>>
-----------------------------------------------------------------------------
(* Faulty variant: the last thread frees the pool although free() waits.   *)
LeaveFrees(w, q) ==
    LET n == numThreads - 1
        len == Len(q) - Cardinality(In("pop") \ {w})
    IN  /\ numThreads' = n
        /\ pc' = [pc EXCEPT ![w] = IF ~running /\ n = 0 THEN "freeing" ELSE "spare"]
        /\ IF ~running /\ ~waiting /\ n # 0 /\ len = -n
           THEN immediate' = TRUE /\ queue' = Markers(n) \o q
           ELSE UNCHANGED immediate /\ queue' = q
        /\ opc' = IF opc = "wait" /\ (immediate \/ len <= 0) THEN "woken" ELSE opc

(* Faulty variant: the thread that waits in free() is not told.            *)
LeaveSilent(w, q) ==
    LET n == numThreads - 1
        len == Len(q) - Cardinality(In("pop") \ {w})
    IN  /\ numThreads' = n
        /\ pc' = [pc EXCEPT ![w] = IF ~running /\ ~waiting /\ n = 0
                                   THEN "freeing" ELSE "spare"]
        /\ IF ~running /\ ~waiting /\ n # 0 /\ len = -n
           THEN immediate' = TRUE /\ queue' = Markers(n) \o q
           ELSE UNCHANGED immediate /\ queue' = q
        /\ UNCHANGED opc

(* proxy_cb(): thread w has no task (q is what it left in the queue) and   *)
(* leaves the pool.  After free(): the last thread frees the pool; if all  *)
(* the others wait they are told to stop; or the thread that waits in      *)
(* free() is told.                                                         *)
LeavePool(w, q) ==
    LET n == numThreads - 1
        len == Len(q) - Cardinality(In("pop") \ {w})
    IN  /\ numThreads' = n
        /\ pc' = [pc EXCEPT ![w] = IF ~running /\ ~waiting /\ n = 0
                                   THEN "freeing" ELSE "spare"]
        /\ IF ~running /\ ~waiting /\ n # 0 /\ len = -n
           THEN immediate' = TRUE /\ queue' = Markers(n) \o q
           ELSE UNCHANGED immediate /\ queue' = q
        /\ opc' = IF opc = "wait" /\ (immediate \/ len <= 0) THEN "woken" ELSE opc

(* Faulty variant: whatever was in the queue is passed to func.            *)
RunAnything(w) == /\ queue # <<>>
                  /\ queue' = Front(queue)
                  /\ pc' = [pc EXCEPT ![w] = "run"]
                  /\ task' = [task EXCEPT ![w] = Last(queue)]
                  /\ ran' = IF Last(queue) \in Tasks
                            THEN [ran EXCEPT ![Last(queue)] = @ + 1] ELSE ran
                  /\ UNCHANGED <<numThreads, immediate, opc>>

(* A task is popped and run; after free(TRUE, ...) it is dropped, and the  *)
(* thread, which looks again with the mutex still held, leaves.            *)
TakeTask(w) == /\ queue # <<>>
               /\ IF running \/ ~immediate
                  THEN /\ queue' = Front(queue)
                       /\ pc' = [pc EXCEPT ![w] = "run"]
                       /\ task' = [task EXCEPT ![w] = Last(queue)]
                       /\ ran' = IF Last(queue) \in Tasks
                                 THEN [ran EXCEPT ![Last(queue)] = @ + 1] ELSE ran
                       /\ UNCHANGED <<numThreads, immediate, opc>>
                  ELSE LeavePool(w, Front(queue)) /\ UNCHANGED <<task, ran>>

(* Faulty variant: tasks left in the queue do not keep a thread.           *)
ActiveWhileRunning == running

Active == running \/ (~immediate /\ length > 0)
(* Faulty variant: off by one.                                             *)
SuperfluousAtLimit == maxThreads # -1 /\ numThreads >= maxThreads

Superfluous == maxThreads # -1 /\ numThreads > maxThreads

UnchangedByWorkers == UNCHANGED <<exclusive, maxThreads, running, waiting, sorted,
                                  requests, pushing, asked,
                                  offered, accepted, freed, changes, failed>>

(* waitNewTask() of a thread that has just taken the mutex.                *)
WaitNewTask(w) ==
    /\ pc[w] = "enter"
    /\ IF Active /\ ~Superfluous
       THEN IF queue # <<>> THEN TakeTask(w)
            ELSE /\ pc' = [pc EXCEPT ![w] = "pop"]
                 /\ UNCHANGED <<queue, numThreads, immediate, opc, task, ran>>
       ELSE LeavePool(w, queue) /\ UNCHANGED <<task, ran>>
    /\ UnchangedByWorkers

PopReturns(w) == pc[w] = "pop" /\ TakeTask(w) /\ UnchangedByWorkers

(* The half second is over; the pop() of an exclusive thread has no limit. *)
PopTimesOut(w) == /\ pc[w] = "pop" /\ ~exclusive /\ queue = <<>>
                  /\ LeavePool(w, queue)
                  /\ UNCHANGED <<task, ran>>
                  /\ UnchangedByWorkers

TaskReturns(w) == /\ pc[w] = "run" /\ pushing[w] = None
                  /\ pc' = [pc EXCEPT ![w] = "enter"]
                  /\ task' = [task EXCEPT ![w] = None]
                  /\ UNCHANGED <<pool, requests, pushing, opc, asked, history>>

FreePool(w) == /\ pc[w] = "freeing"
               /\ pc' = [pc EXCEPT ![w] = "spare"]
               /\ Cleared
               /\ UNCHANGED <<exclusive, maxThreads, numThreads, running, immediate,
                              waiting, sorted, requests, task, pushing, opc, asked,
                              offered, accepted, ran, changes, failed>>
-----------------------------------------------------------------------------
(* The global pool: a request of this pool is served, a spare thread ends  *)
(* or is taken by another pool, a thread of another pool comes.            *)
Serve(w) == /\ pc[w] = "spare" /\ requests > 0
            /\ requests' = requests - 1
            /\ pc' = [pc EXCEPT ![w] = "enter"]
            /\ UNCHANGED <<pool, task, pushing, opc, asked, history>>

Depart(w) == /\ pc[w] = "spare" /\ requests < Cardinality(In("spare"))
             /\ pc' = [pc EXCEPT ![w] = "none"]
             /\ UNCHANGED <<pool, requests, task, pushing, opc, asked, history>>

Arrive(w) == /\ pc[w] = "none"
             /\ pc' = [pc EXCEPT ![w] = "spare"]
             /\ UNCHANGED <<pool, requests, task, pushing, opc, asked, history>>

OwnerStep == \/ Construct
             \/ \E x \in Tasks : PushBegins(Owner, x)
             \/ PushLocked(Owner)
             \/ \E on \in BOOLEAN : SetSortFunction(on)
             \/ \E n \in MaxThreads : SetMaxThreads(n)
             \/ \E now, wait \in BOOLEAN : FreeBegins(now, wait)
             \/ FreeLocked \/ FreeWakes \/ FreeInterrupted \/ InternalClear

WorkerStep(w) == \/ WaitNewTask(w) \/ PopReturns(w) \/ PopTimesOut(w)
                 \/ TaskReturns(w) \/ FreePool(w)
                 \/ \E x \in Tasks : PushBegins(w, x)
                 \/ PushLocked(w)

Next == \/ OwnerStep
        \/ \E w \in Workers : WorkerStep(w) \/ Serve(w) \/ Depart(w) \/ Arrive(w)

SafeSpec == Init /\ [][Next]_vars

(* Tasks return, a wait of half a second ends, a thread that can have the  *)
(* mutex gets it, and the global pool serves requests.                     *)
Spec == /\ SafeSpec
        /\ \A w \in Workers : /\ WF_vars(WaitNewTask(w))
                              /\ WF_vars(PopReturns(w) \/ PopTimesOut(w))
                              /\ WF_vars(TaskReturns(w))
                              /\ WF_vars(FreePool(w))
                              /\ WF_vars(PushLocked(w))
        /\ WF_vars(PushLocked(Owner))
        /\ WF_vars(FreeLocked \/ FreeWakes \/ InternalClear)
        /\ WF_vars(\E w \in Workers : Serve(w))
-----------------------------------------------------------------------------
TypeOK == /\ exclusive \in BOOLEAN /\ running \in BOOLEAN /\ immediate \in BOOLEAN
          /\ waiting \in BOOLEAN /\ sorted \in BOOLEAN /\ failed \in BOOLEAN
          /\ maxThreads \in Nat \cup {-1} /\ (exclusive => maxThreads # -1)
          /\ numThreads \in Nat /\ requests \in Nat /\ freed \in Nat /\ changes \in Nat
          /\ queue \in Seq(Tasks \cup {Marker})
          /\ pc \in [Workers -> {"none", "enter", "pop", "run", "freeing", "spare"}]
          /\ task \in [Workers -> Tasks \cup {Marker, None}]
          /\ pushing \in [Workers \cup {Owner} -> Tasks \cup {None}]
          /\ opc \in {"new", "ready", "free", "wait", "woken", "clear", "done"}
          /\ asked \in [immediate : BOOLEAN, wait : BOOLEAN]
          /\ offered \subseteq Tasks /\ accepted \subseteq Tasks
          /\ ran \in [Tasks -> Nat]

(* numThreads counts the threads at work for the pool and the requests for *)
(* threads that are still in the global pool.                              *)
ThreadsCounted == numThreads = Cardinality(Attached) + requests

(* free(), proxy_cb() and internalClear(): the pool is cleared once, by    *)
(* the owner or by the last thread, and at that time no thread works for   *)
(* it, none has it from the global pool, and nobody else is about to clear *)
(* it.                                                                     *)
Clearing == Cardinality(In("freeing")) + (IF opc = "clear" THEN 1 ELSE 0) + freed

FreedOnce == /\ Clearing <= 1
             /\ Clearing = 1 => Attached = {} /\ requests = 0 /\ ~running
             /\ freed = 1 => opc = "done"

(* func is called with tasks only, never with the pointer that wakes the   *)
(* threads, and once with each task.                                       *)
RunsTasksOnce == /\ \A w \in In("run") : task[w] \in Tasks
                 /\ \A x \in Tasks : ran[x] <= 1

(* free(FALSE, ...): the pool is cleared only when every task is done,     *)
(* also the tasks that a running task pushed after free(), and so is       *)
(* free(FALSE, TRUE) over; free(TRUE, TRUE) is when no task runs.  Not so  *)
(* if maxThreads is 0, which free() itself checks before it takes the      *)
(* mutex.                                                                  *)
AllDone == \A x \in accepted : ran[x] = 1 /\ \A w \in Workers : task[w] # x

Waited == opc \in {"clear", "done"} /\ asked.wait

GracefulFree == /\ (freed = 1 \/ Waited) /\ ~asked.immediate /\ maxThreads # 0 => AllDone
                /\ Waited => In("run") = {}

(* wakeupAndStopAll(), AThreadPool.c:528: "So here we're sending bogus     *)
(* data to the pool threads [...] However we don't want that data to be    *)
(* sorted (since it'll crash the sorter)": whenever push() uses the sort   *)
(* function there are only tasks in the queue.                             *)
Pushes == \E a \in Workers \cup {Owner} : pushing[a] # None /\ pushing'[a] = None
BogusDataNotSorted == [][Pushes /\ sorted => Marker \notin ToSet(queue)]_vars

(* A task that is accepted is run, unless the owner frees the pool at once *)
(* or allows it no thread, or a thread could not be started.               *)
TasksAreRun == \A x \in Tasks :
    (x \in accepted) ~>
        \/ ran[x] = 1
        \/ ~running /\ asked.immediate
        \/ maxThreads = 0
        \/ failed

(* free() comes back and the pool is cleared, whether the last step is the *)
(* owner's or a thread's; not so if maxThreads is 0 (see GracefulFree) or  *)
(* a thread could not be started for a task that free() waits for.         *)
FreeCompletes == (opc = "free" /\ maxThreads # 0)
                     ~> (failed \/ (opc = "done" /\ freed = 1))
=============================================================================
