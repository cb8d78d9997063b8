--------------------------- MODULE MCArrayStorage ---------------------------
(* Three sources, two of them with a file descriptor (as the wake-up       *)
(* source), two priorities, and one id more than sources: five calls of    *)
(* add() use the ids up and wrap.                                          *)
EXTENDS ArrayStorage

CONSTANTS a, b, c

TwoPriorities == {-1, 0}
Symmetric == Permutations({a, b})
=============================================================================
