--------------------------- MODULE ThreadSpawner ---------------------------
(***************************************************************************)
(* How threads are made and unmade.  startThread() of util/AThreadPool.c   *)
(* asks the spawner thread (spawn_cb) through spawnQueue and waits for the *)
(* answer in a record on its own stack, or makes the thread itself; the    *)
(* AThread object (lang/AThread.c) belongs to its maker and to the thread, *)
(* and whoever gives up the second reference lets the system thread go.    *)
(*                                                                         *)
(* A thread is named after the call that made it.  The mutex of spawnQueue *)
(* is held where that matters: from the pop of the spawner to its unlock.  *)
(***************************************************************************)
EXTENDS Integers, Sequences, SequencesExt

CONSTANTS Askers,         \* calls that ask the spawner
          Makers,         \* calls of new$ AThread
          MayFail,        \* whether pthread_create() may fail
          None            \* NULL

VARIABLES spc,            \* what the spawner does
          serving,        \* the call it makes a thread for
          queue,          \* spawnQueue
          pc,             \* what each call does
          thread,         \* what it has got: thread or NULL
          refCount, joined, detached,   \* of the AThread made for it
          life,           \* of the system thread
          freed           \* history: the AThread was freed

sync == <<spc, serving, queue>>
object == <<refCount, joined, detached, freed>>
vars == <<sync, pc, thread, object, life>>

Calls == Askers \cup Makers

Init == /\ spc = "none" /\ serving = None /\ queue = <<>>
        /\ pc = [c \in Calls |-> "new"]
        /\ thread = [c \in Calls |-> None]
        /\ refCount = [c \in Calls |-> 0]
        /\ joined = [c \in Calls |-> FALSE]
        /\ detached = [c \in Calls |-> FALSE]
        /\ life = [c \in Calls |-> "none"]
        /\ freed = [c \in Calls |-> FALSE]

Goto(c, label) == pc' = [pc EXCEPT ![c] = label]
QueueFree == spc \in {"none", "pop"}
-----------------------------------------------------------------------------
(* The constructor of AThread: a reference for the maker and one for the   *)
(* thread.  If there is no thread the constructor gives NULL, new$ takes   *)
(* the reference of the maker back and gives NULL too.                     *)
NewThread(c, result) ==
    \/ /\ life' = [life EXCEPT ![c] = "running"]
       /\ refCount' = [refCount EXCEPT ![c] = 2]
       /\ result = c
    \/ /\ MayFail
       /\ refCount' = [refCount EXCEPT ![c] = 1]
       /\ result = None /\ UNCHANGED life

(* unref(), and ~AThread() if it was the last reference.                   *)
Unref(c) ==
    LET last == refCount[c] = 1
    IN  /\ refCount' = [refCount EXCEPT ![c] = @ - 1]
        /\ detached' = [detached EXCEPT ![c] = @ \/ (last /\ ~joined[c])]
        /\ freed' = [freed EXCEPT ![c] = @ \/ last]
        /\ UNCHANGED joined

(* init(): the first pool that shares threads starts the spawner.          *)
InitPool(a) == /\ a \in Askers /\ pc[a] = "new"
               /\ spc' = IF spc = "none" THEN "pop" ELSE spc
               /\ Goto(a, "ready")
               /\ UNCHANGED <<serving, queue, thread, object, life>>

(* startThread() queues its record and waits: the mutex is free meanwhile. *)
Ask(a) == /\ a \in Askers /\ pc[a] = "ready" /\ QueueFree
          /\ queue' = <<a>> \o queue
          /\ Goto(a, "wait")
          /\ UNCHANGED <<spc, serving, thread, object, life>>

(* Faulty variant: no loop around the wait.                                *)
AskerTakesAnything(a) ==
    /\ pc[a] = "woken" /\ QueueFree
    /\ Goto(a, IF thread[a] = None THEN "failed" ELSE "made")
    /\ UNCHANGED <<sync, thread, object, life>>

(* spawnCond.wait() is over; error is never set.                           *)
AskerWakes(a) == /\ pc[a] = "woken" /\ QueueFree
                 /\ Goto(a, IF thread[a] = None THEN "wait" ELSE "made")
                 /\ UNCHANGED <<sync, thread, object, life>>

(* spawn_cb(): with the mutex, from here to Answer.                        *)
SpawnerPops == /\ spc = "pop" /\ queue # <<>>
               /\ spc' = "create"
               /\ serving' = Last(queue) /\ queue' = Front(queue)
               /\ UNCHANGED <<pc, thread, object, life>>

SpawnerCreates ==
    /\ spc = "create"
    /\ \E result \in {serving, None} :
          /\ NewThread(serving, result)
          /\ thread' = [thread EXCEPT ![serving] = result]
    /\ spc' = "answer"
    /\ UNCHANGED <<serving, queue, pc, joined, detached, freed>>

(* Faulty variant: signal() for broadcast().                               *)
AnswerOne ==
    /\ spc = "answer"
    /\ \/ \E a \in Askers : pc[a] = "wait" /\ Goto(a, "woken")
       \/ (\A a \in Askers : pc[a] # "wait") /\ UNCHANGED pc
    /\ spc' = "pop" /\ serving' = None
    /\ UNCHANGED <<queue, thread, object, life>>

Answer ==
    /\ spc = "answer"
    /\ pc' = [c \in Calls |-> IF pc[c] = "wait" THEN "woken" ELSE pc[c]]
    /\ spc' = "pop" /\ serving' = None
    /\ UNCHANGED <<queue, thread, object, life>>

(* new$ AThread, as for an exclusive pool or one with scheduler settings.  *)
Make(m) == /\ m \in Makers /\ pc[m] = "new"
           /\ \E result \in {m, None} :
                 /\ NewThread(m, result)
                 /\ thread' = [thread EXCEPT ![m] = result]
                 /\ Goto(m, IF result = None THEN "failed" ELSE "made")
           /\ UNCHANGED <<sync, joined, detached, freed>>

(* join(), which a maker may call before it gives up its reference.        *)
Join(m) == /\ m \in Makers /\ pc[m] = "made" /\ life[m] = "gone"
           /\ joined' = [joined EXCEPT ![m] = TRUE]
           /\ UNCHANGED <<sync, pc, thread, refCount, detached, life, freed>>

(* startThread() does not keep the thread.                                 *)
Release(c) == /\ pc[c] = "made"
              /\ Unref(c)
              /\ Goto(c, "done")
              /\ UNCHANGED <<sync, thread, life>>

(* The function of the thread returns; then the system calls               *)
(* unrefThread_cb(), and the thread is gone.                               *)
FuncReturns(c) == /\ life[c] = "running"
                  /\ life' = [life EXCEPT ![c] = "ended"]
                  /\ UNCHANGED <<sync, pc, thread, object>>

(* Faulty variant: the thread keeps its reference.                         *)
ThreadKeepsRef(c) == /\ life[c] = "ended"
                     /\ life' = [life EXCEPT ![c] = "gone"]
                     /\ UNCHANGED <<sync, pc, thread, object>>

ThreadExits(c) == /\ life[c] = "ended"
                  /\ Unref(c)
                  /\ life' = [life EXCEPT ![c] = "gone"]
                  /\ UNCHANGED <<sync, pc, thread>>

Spawner == SpawnerPops \/ SpawnerCreates \/ Answer
Call(c) == \/ InitPool(c) \/ Ask(c) \/ AskerWakes(c)
           \/ Make(c) \/ Join(c) \/ Release(c)

Next == Spawner \/ \E c \in Calls : Call(c) \/ FuncReturns(c) \/ ThreadExits(c)

(* Threads that are not blocked go on; nothing says that the functions of  *)
(* threads return or that anybody asks for a thread.                       *)
Fairness == /\ WF_vars(Spawner)
            /\ \A a \in Askers : WF_vars(AskerWakes(a))

Spec == Init /\ [][Next]_vars /\ Fairness
-----------------------------------------------------------------------------
(* spawn_cb() and startThread(): whoever is in the queue or being served   *)
(* is still waiting, for the record that the spawner writes to lives on    *)
(* its stack; a call that goes on has its thread.                          *)
RecordsAlive ==
    /\ \A a \in ToSet(queue) \cup ({serving} \ {None}) : pc[a] \in {"wait", "woken"}
    /\ \A c \in Calls : pc[c] \in {"made", "done"} => thread[c] = c

(* AThread: the object lives as long as its thread or its maker needs it;  *)
(* afterwards the system thread has been given back, once.                 *)
ThreadGivenBack ==
    \A c \in Calls :
        /\ freed[c] => life[c] = "gone" /\ pc[c] = "done"
        /\ life[c] = "gone" /\ pc[c] = "done" =>
               freed[c] /\ (joined[c] # detached[c])

(* startThread() comes back with the thread, if one can be created.  (If   *)
(* not, spawn_cb() reports neither a thread nor an error and the call      *)
(* waits for ever.)                                                        *)
AskersAnswered == \A a \in Askers :
    (pc[a] = "wait") ~> \/ pc[a] \in {"made", "done"}
                        \/ thread[a] = None /\ refCount[a] = 1
=============================================================================
