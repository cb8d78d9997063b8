-------------------------- MODULE MutualExclusion --------------------------
(***************************************************************************)
(* What a lock of the AET runtime promises its callers, whatever it is     *)
(* made of: at most one thread is inside, a thread gets in only when       *)
(* nobody is, and a free lock that somebody asked for is handed out.       *)
(* Nothing is said about the order in which waiting threads get in: the    *)
(* mutex of the runtime lets a newcomer overtake the threads that wait.    *)
(***************************************************************************)

CONSTANT Threads          \* the threads that use the lock

VARIABLE st               \* what each thread is doing with the lock

Free == \A t \in Threads : st[t] # "holding"

Init == st = [t \in Threads |-> "idle"]

(* A caller of lock() that finds the lock taken starts to wait.            *)
Request(t) == /\ st[t] = "idle"
              /\ st' = [st EXCEPT ![t] = "waiting"]

(* Getting in: at the first attempt or after a wait.                       *)
Acquire(t, from) == /\ st[t] = from
                    /\ Free
                    /\ st' = [st EXCEPT ![t] = "holding"]

Release(t) == /\ st[t] = "holding"
              /\ st' = [st EXCEPT ![t] = "idle"]

WaiterAcquires == \E t \in Threads : Acquire(t, "waiting")

Next == \/ WaiterAcquires
        \/ \E t \in Threads : \/ Request(t)
                              \/ Acquire(t, "idle")
                              \/ Release(t)

SafeSpec == Init /\ [][Next]_st

(* The holder leaves, and a lock that stays free with a thread waiting for *)
(* it is eventually given to one of the waiting threads.                   *)
Spec == /\ SafeSpec
        /\ WF_st(WaiterAcquires)
        /\ \A t \in Threads : WF_st(Release(t))
=============================================================================
