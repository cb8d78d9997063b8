--------------------------- MODULE MCAAsyncQueue ---------------------------
(* Three threads that push to and pop from one queue of two items of       *)
(* different priority: enough for a thread that sleeps, one that was woken *)
(* for an item and a newcomer that takes the item first.                   *)
EXTENDS AAsyncQueue

CONSTANTS low, high

MCrank == low :> 1 @@ high :> 2
=============================================================================
