------------------------------ MODULE AObject ------------------------------
(***************************************************************************)
(* lang/AObject.c: the reference count of one object.  The references are  *)
(* told apart; each is used by one thread at a time, which copies it with  *)
(* ref() or gives it up with unref().  Every access to refCount is atomic  *)
(* and an action.  A late caller of ref() has the pointer, but no          *)
(* reference that keeps the object alive; it comes before the memory is    *)
(* given back, which is as far as ref() can be asked to notice.            *)
(***************************************************************************)
EXTENDS Integers, FiniteSets

CONSTANTS Refs,           \* the references there may be at a time
          MaxLate         \* bound on the late calls of ref()

VARIABLES refCount,
          pc,             \* what the thread with each reference does
          old,            \* old_ref, what it has read
          freed,          \* history: how often the object was freed
          late            \* history: calls of ref() when nobody had a reference

vars == <<refCount, pc, old, freed, late>>

In(label) == {r \in Refs : pc[r] = label}
Live == {r \in Refs : pc[r] \notin {"none", "free"}}

(* new$: the creator has the only reference.                               *)
Init == /\ refCount = 1
        /\ \E r \in Refs : pc = [s \in Refs |-> IF s = r THEN "held" ELSE "none"]
        /\ old = [r \in Refs |-> 0]
        /\ freed = 0 /\ late = 0

Goto(r, label) == pc' = [pc EXCEPT ![r] = label]
-----------------------------------------------------------------------------
(* ref(): counts in any case, and gives NULL if the object is finalized.   *)
TakeRef(s) == /\ pc[s] = "none"
              /\ refCount' = refCount + 1
              /\ IF refCount <= 0 THEN UNCHANGED pc ELSE Goto(s, "held")
              /\ UNCHANGED <<old, freed>>

Ref(r, s) == pc[r] = "held" /\ TakeRef(s) /\ UNCHANGED late

LateRef(s) == /\ late < MaxLate /\ freed = 0
              /\ TakeRef(s)
              /\ late' = IF Live = {} THEN late + 1 ELSE late

(* unref() looks whether there is more than one reference, so far: at      *)
(* retry_atomic_decrement1, and once more at retry_atomic_decrement2.      *)
Look(r) == /\ \/ /\ pc[r] \in {"held", "retry"}
                 /\ Goto(r, IF refCount > 1 THEN "cas" ELSE "again")
              \/ /\ pc[r] = "again"
                 /\ Goto(r, IF refCount > 1 THEN "cas2" ELSE "last")
           /\ old' = [old EXCEPT ![r] = refCount]
           /\ UNCHANGED <<refCount, freed, late>>

(* Faulty variant: the count is written whatever it is now.                *)
StoreDecrement(r) ==
    /\ pc[r] \in {"cas", "cas2"}
    /\ refCount' = old[r] - 1 /\ Goto(r, "none")
    /\ UNCHANGED <<old, freed, late>>

CompareAndDecrement(r) ==
    /\ pc[r] \in {"cas", "cas2"}
    /\ IF refCount = old[r]
       THEN refCount' = refCount - 1 /\ Goto(r, "none")
       ELSE Goto(r, IF pc[r] = "cas" THEN "retry" ELSE "again") /\ UNCHANGED refCount
    /\ UNCHANGED <<old, freed, late>>

(* The last reference, unless another one was taken meanwhile.             *)
DecrementLast(r) == /\ pc[r] = "last"
                    /\ refCount' = refCount - 1
                    /\ Goto(r, IF refCount = 1 THEN "free" ELSE "none")
                    /\ UNCHANGED <<old, freed, late>>

(* free_child() and freeObject().                                          *)
Free(r) == /\ pc[r] = "free"
           /\ freed' = freed + 1 /\ Goto(r, "none")
           /\ UNCHANGED <<refCount, old, late>>

Next == \/ \E r, s \in Refs : Ref(r, s)
        \/ \E r \in Refs : \/ LateRef(r) \/ Look(r) \/ CompareAndDecrement(r)
                           \/ DecrementLast(r) \/ Free(r)

Spec == Init /\ [][Next]_vars
-----------------------------------------------------------------------------
TypeOK == /\ refCount \in Int
          /\ pc \in [Refs -> {"none", "held", "retry", "cas", "again", "cas2", "last", "free"}]
          /\ old \in [Refs -> Int]
          /\ freed \in Nat /\ late \in Nat

(* unref() and ref(): the object is freed once, at its last reference, and *)
(* then nobody has a reference or gets one - if ref() is called at most    *)
(* once when nobody has a reference: that call gets NULL, but leaves the   *)
(* count at 1, so that the next one would get the dead object.             *)
FreedAtLastRef ==
    late <= 1 =>
        /\ freed + Cardinality(In("free")) <= 1
        /\ freed + Cardinality(In("free")) = 1 <=> Live = {}
=============================================================================
