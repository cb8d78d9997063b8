---------------------------- MODULE GlobalPool ----------------------------
(***************************************************************************)
(* What the pool of unused threads in util/AThreadPool.c promises a thread *)
(* pool: a request for a thread is accepted only if a thread that waits is *)
(* left for it, waiting threads never leave so that a request is stranded, *)
(* requests are served in order, and every accepted request is served.     *)
(***************************************************************************)
EXTENDS AQueue

CONSTANTS Threads, Pools,
          None            \* NULL

VARIABLES requests,       \* accepted requests, the newest first
          idle,           \* the threads that wait for a request
          given           \* the pool each thread works for

vars == <<requests, idle, given>>

Init == /\ requests = <<>>
        /\ idle = {}
        /\ given = [t \in Threads |-> None]

AddPool(p) == /\ Len(requests) < Cardinality(idle)
              /\ requests' = PushHead(requests, p)
              /\ UNCHANGED <<idle, given>>

(* A thread comes back from its pool.                                      *)
Return(t) == /\ t \notin idle
             /\ given' = [given EXCEPT ![t] = None]
             /\ UNCHANGED <<requests, idle>>

Wait(t) == /\ given[t] = None
           /\ idle' = idle \cup {t}
           /\ UNCHANGED <<requests, given>>

(* A thread stops, or stops waiting for a while: not one that a request    *)
(* counts on.                                                              *)
Leave(t) == /\ t \in idle /\ Len(requests) < Cardinality(idle)
            /\ idle' = idle \ {t}
            /\ UNCHANGED <<requests, given>>

Serve(t) == /\ requests # <<>> /\ given[t] = None
            /\ given' = [given EXCEPT ![t] = Last(requests)]
            /\ requests' = Front(requests)
            /\ idle' = idle \ {t}

Next == \/ \E p \in Pools : AddPool(p)
        \/ \E t \in Threads : Return(t) \/ Wait(t) \/ Leave(t) \/ Serve(t)

SafeSpec == Init /\ [][Next]_vars

Spec == SafeSpec /\ WF_vars(\E t \in Threads : Serve(t))
=============================================================================
