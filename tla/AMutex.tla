------------------------------- MODULE AMutex -------------------------------
(***************************************************************************)
(* The futex mutex every container and scheduler of the runtime is built   *)
(* on (util/AMutex.c).  One 32-bit word says who may come in:              *)
(*    0  free,   1  held,   >= 2  held and somebody may be asleep.         *)
(* lock() adds one to the word and owns the mutex when it was 0; the slow  *)
(* path writes 2 until the value it replaced was 0, sleeping in the kernel *)
(* for as long as it reads 2.  unlock() writes 0 and wakes one sleeper     *)
(* unless the word was exactly 1.  Every access to the word and every      *)
(* system call is one action, so all their interleavings are explored.     *)
(***************************************************************************)
EXTENDS Integers, FiniteSets

CONSTANTS Threads,        \* the threads that share the mutex
          WordSize        \* the number of values of the word, 2^32 in the code

(* A thread has at most one lock() in progress, so the word wraps only if  *)
(* there are as many threads as values of the word.                        *)
ASSUME ThreadsAssumption == IsFiniteSet(Threads)
ASSUME WordAssumption == WordSize \in Nat /\ WordSize > Cardinality(Threads) + 2

VARIABLES i0,             \* the word: i[0]
          pc              \* where each thread is in lock() or unlock()

vars == <<i0, pc>>

PC == {"idle", "lockSlowpath", "futexWait", "asleep", "locked",
       "unlockSlowpath", "aborted"}

Waiting == {"lockSlowpath", "futexWait", "asleep"}

Init == /\ i0 = 0
        /\ pc = [t \in Threads |-> "idle"]

Goto(t, where) == pc' = [pc EXCEPT ![t] = where]
-----------------------------------------------------------------------------
(* Faulty variant: the thread goes on although the word was not 0.         *)
LockIgnoresWord(t) ==
    /\ pc[t] = "idle"
    /\ i0' = (i0 + 1) % WordSize
    /\ Goto(t, IF i0 <= 1 THEN "locked" ELSE "lockSlowpath")

(* lock(): a_atomic_int_add returns the value before the addition.         *)
Lock(t) ==
    /\ pc[t] = "idle"
    /\ i0' = (i0 + 1) % WordSize
    /\ Goto(t, IF i0 = 0 THEN "locked" ELSE "lockSlowpath")

(* trylock(): a compare and exchange from 0 to 1; nothing changes when the *)
(* word is not 0.                                                          *)
TryLock(t) ==
    /\ pc[t] = "idle"
    /\ i0 = 0
    /\ i0' = 1
    /\ Goto(t, "locked")

(* Faulty variant: the slow path leaves the word at 1.                     *)
ExchangeOne(t) ==
    /\ pc[t] = "lockSlowpath"
    /\ i0' = 1
    /\ Goto(t, IF i0 = 0 THEN "locked" ELSE "futexWait")

(* lockSlowpath(), the exchange in the loop's condition.                   *)
Exchange(t) ==
    /\ pc[t] = "lockSlowpath"
    /\ i0' = 2
    /\ Goto(t, IF i0 = 0 THEN "locked" ELSE "futexWait")

(* lockSlowpath(), FUTEX_WAIT: the kernel compares the word with 2 and     *)
(* puts the thread to sleep in one step, or returns at once.               *)
FutexWait(t) ==
    /\ pc[t] = "futexWait"
    /\ Goto(t, IF i0 = 2 THEN "asleep" ELSE "lockSlowpath")
    /\ UNCHANGED i0

(* A sleeping thread may return without a wake-up (a signal handler ran).  *)
Interrupted(t) ==
    /\ pc[t] = "asleep"
    /\ Goto(t, "lockSlowpath")
    /\ UNCHANGED i0

(* unlock(): the fast path is taken only when the word was exactly 1; a    *)
(* word of 0 means the mutex was not locked and aborts the process.        *)
Unlock(t) ==
    /\ pc[t] = "locked"
    /\ i0' = 0
    /\ Goto(t, IF i0 = 1 THEN "idle"
               ELSE IF i0 = 0 THEN "aborted" ELSE "unlockSlowpath")

(* unlockSlowpath(), FUTEX_WAKE of one thread: the kernel picks it.        *)
FutexWake(t) ==
    /\ pc[t] = "unlockSlowpath"
    /\ \/ /\ \A u \in Threads : pc[u] # "asleep"
          /\ Goto(t, "idle")
       \/ \E u \in Threads :
             /\ pc[u] = "asleep"
             /\ pc' = [pc EXCEPT ![t] = "idle", ![u] = "lockSlowpath"]
    /\ UNCHANGED i0

Step(t) == \/ Lock(t) \/ TryLock(t)
           \/ Exchange(t) \/ FutexWait(t) \/ Interrupted(t)
           \/ Unlock(t) \/ FutexWake(t)

Next == \E t \in Threads : Step(t)

SafeSpec == Init /\ [][Next]_vars

(* A thread that is inside lock() or unlock() is scheduled again, and the  *)
(* code that holds a mutex releases it.  Nobody has to call lock().        *)
Fairness == \A t \in Threads : /\ WF_vars(Exchange(t))
                               /\ WF_vars(FutexWait(t))
                               /\ WF_vars(Unlock(t))
                               /\ WF_vars(FutexWake(t))

Spec == SafeSpec /\ Fairness
-----------------------------------------------------------------------------
TypeOK == /\ i0 \in 0 .. (WordSize - 1)
          /\ pc \in [Threads -> PC]

(* Additions made while the mutex is held never bring the word back to 0:  *)
(* each thread in the slow path accounts for at most one of them.          *)
InSlowpath == {t \in Threads : pc[t] = "lockSlowpath"}
WordBounded == i0 <= Cardinality(InSlowpath) + 2

(* The word is 0 exactly when nobody holds the mutex.                      *)
WordTells == /\ \A t, u \in Threads :
                   pc[t] = "locked" /\ pc[u] = "locked" => t = u
             /\ (i0 = 0) <=> (\A t \in Threads : pc[t] # "locked")
             /\ \A t \in Threads : pc[t] # "aborted"

(* AMutex.lock and unlock: no two threads are between the two calls, and   *)
(* the word is 0 exactly when nobody is; it does not wrap around.  Hence   *)
(* the branch of unlock() that aborts with "unlock mutex that was not      *)
(* locked" is never taken by a thread that locked the mutex.               *)
Exclusion == WordTells /\ WordBounded

(* AMutex.lockSlowpath and unlockSlowpath: a thread sleeps in the kernel   *)
(* only while the word tells the holder to wake somebody, or a thread is   *)
(* awake that will wake it or will write 2 again on its behalf.            *)
NoLostWakeup ==
    (\E t \in Threads : pc[t] = "asleep") =>
        \/ i0 >= 2
        \/ \E t \in Threads : pc[t] \in {"lockSlowpath", "unlockSlowpath"}

(* What a caller can tell of a thread: it waits from the moment lock()     *)
(* found the word taken, and holds the mutex until unlock() clears it.     *)
LockState == [t \in Threads |-> IF pc[t] = "locked" THEN "holding"
                                ELSE IF pc[t] \in Waiting THEN "waiting"
                                ELSE "idle"]

(* The futex mutex is a lock: what MutualExclusion allows, and no more,    *)
(* and a free one that somebody waits for is taken.                        *)
Abstract == INSTANCE MutualExclusion WITH st <- LockState
ImplementsLock == Abstract!Spec
=============================================================================
