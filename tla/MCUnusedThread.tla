-------------------------- MODULE MCUnusedThread --------------------------
(* Two protocols that have nothing to do with each other; each behaviour   *)
(* is one of the part that it begins with.                                 *)
(*                                                                         *)
(* The unused threads: three threads around the initial limit of two and   *)
(* one caller of the setters: a thread may relay the marker of another,    *)
(* and a pool may be added while the limits change.                        *)
(*                                                                         *)
(* The link step of the compiler, for the program of MCAetCollect.         *)
EXTENDS UnusedThread, MCAetCollect

VARIABLE part

MCLimits == {-1, 1}
Symmetric == Permutations(Threads)

AllInit == /\ part \in {"unused", "build"}
           /\ Init /\ BuildInit
           /\ part = "unused" \/ maxUnusedThreads = 2

(* A program that is linked and no longer edited may stay as it is.        *)
Rests == linked /\ UNCHANGED buildVars

AllNext == /\ \/ part = "unused" /\ Next /\ UNCHANGED buildVars
              \/ part = "build" /\ (BuildNext \/ Rests) /\ UNCHANGED vars
           /\ UNCHANGED part

AllSpec == AllInit /\ [][AllNext]_<<part, vars, buildVars>>
=============================================================================
