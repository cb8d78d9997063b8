---------------------------- MODULE MCAetCollect ----------------------------
(* A source that creates generic objects and may use an interface, and one *)
(* that defines a block, in one of two versions, and may do both.          *)
EXTENDS AetCollect

CONSTANTS user, definer, h1, b1, b2

MCMayContain == [f \in Sources |->
    IF f = user
    THEN {[new |-> TRUE, block |-> NoBlock, ifaces |-> {h1}],
          [new |-> TRUE, block |-> NoBlock, ifaces |-> {}]}
    ELSE {[new |-> FALSE, block |-> b1, ifaces |-> {}],
          [new |-> TRUE, block |-> b2, ifaces |-> {h1}]}]
=============================================================================
