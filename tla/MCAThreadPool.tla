-------------------------- MODULE MCAThreadPool --------------------------
(* Three threads, two tasks, at most two threads in an exclusive pool:     *)
(* a thread that runs a task, one that waits for one, one on its way from  *)
(* the global pool or back to it.                                          *)
EXTENDS AThreadPool

CONSTANTS low, high

MCrank == low :> 1 @@ high :> 2 @@ Marker :> 0
AllLimits == {-1, 0, 1, 2}
TwoLimits == {-1, 2}
=============================================================================
