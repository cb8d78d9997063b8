----------------------------- MODULE MCThreads -----------------------------
(* Small instances of the parts that threads share.  The initialiser of    *)
(* location x needs location y.                                            *)
EXTENDS Runtime, TLC

CONSTANTS x, y

MCWordSize == Cardinality(Threads) + 3
MCinner == x :> y @@ y :> None
MCLimits == {-1, 1}
=============================================================================
