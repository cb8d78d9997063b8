-------------------------- MODULE Runtime_proofs --------------------------
(***************************************************************************)
(* Proofs about the parts of the run-time that threads share, for any      *)
(* threads, references, locations, calls, addresses and devices.  First    *)
(* the futex mutex, for any finite set of threads and any word with more   *)
(* values than there are threads (2^32 in the code): its theorems are      *)
(* about the specification of AMutex.  Each of the other parts has an      *)
(* inductive invariant (ObjectInv, MemoryInv, SpawnInv, OnceInv) that      *)
(* every step of the part preserves; the theorems at the end put them      *)
(* together.                                                               *)
(***************************************************************************)
EXTENDS Runtime, AQueue_proofs

-----------------------------------------------------------------------------
(* The futex mutex.                                                        *)
(* The four invariants together are inductive: the word tells who holds    *)
(* the mutex (WordTells) only as long as it does not wrap (WordBounded),   *)
(* and whether somebody is asleep (NoLostWakeup).                          *)
MutexInv == TypeOK /\ WordTells /\ WordBounded /\ NoLostWakeup

(* lock() takes the word one up without wrapping around.                   *)
LEMMA NoWrap ==
    ASSUME MutexInv, NEW t \in Threads, pc[t] = "idle"
    PROVE  (i0 + 1) % WordSize = i0 + 1
<1>1. InSlowpath \subseteq Threads \ {t}
  BY DEF InSlowpath
<1>2. /\ IsFiniteSet(Threads \ {t})
      /\ Cardinality(Threads \ {t}) = Cardinality(Threads) - 1
  BY ThreadsAssumption, FS_RemoveElement
<1>3. Cardinality(InSlowpath) <= Cardinality(Threads) - 1
  BY <1>1, <1>2, FS_Subset
<1>4. Cardinality(Threads) \in Nat /\ Cardinality(InSlowpath) \in Nat
  BY <1>1, <1>2, ThreadsAssumption, FS_Subset, FS_CardinalityType
<1>5. i0 \in Nat /\ WordSize \in Nat /\ i0 + 1 < WordSize
  BY <1>3, <1>4, WordAssumption DEF MutexInv, TypeOK, WordBounded
<1> QED
  BY <1>5

(* A larger slow path only weakens WordBounded.                            *)
LEMMA SlowpathGrows ==
    ASSUME MutexInv, InSlowpath \subseteq InSlowpath', InSlowpath' \subseteq Threads,
           i0' = i0
    PROVE  WordBounded'
<1>1. IsFiniteSet(InSlowpath')
  BY ThreadsAssumption, FS_Subset
<1>2. /\ Cardinality(InSlowpath) <= Cardinality(InSlowpath')
      /\ Cardinality(InSlowpath) \in Nat /\ Cardinality(InSlowpath') \in Nat
  BY <1>1, FS_Subset, FS_CardinalityType
<1> QED
  BY <1>2 DEF MutexInv, TypeOK, WordBounded

(* A small word is within any bound.                                       *)
LEMMA SmallWord ==
    ASSUME i0' \in 0 .. 2
    PROVE  WordBounded'
<1>1. IsFiniteSet(InSlowpath')
  BY ThreadsAssumption, FS_Subset DEF InSlowpath
<1>2. Cardinality(InSlowpath') \in Nat
  BY <1>1, FS_CardinalityType
<1> QED
  BY <1>2 DEF WordBounded

LEMMA MutexStart == Init => MutexInv
<1> SUFFICES ASSUME Init PROVE MutexInv
  OBVIOUS
<1>1. IsFiniteSet(InSlowpath) /\ Cardinality(InSlowpath) \in Nat
  BY ThreadsAssumption, FS_Subset, FS_CardinalityType DEF InSlowpath
<1>2. Cardinality(Threads) \in Nat
  BY ThreadsAssumption, FS_CardinalityType
<1> QED
  BY <1>1, <1>2, WordAssumption
     DEF Init, MutexInv, TypeOK, PC, WordTells, WordBounded, NoLostWakeup

LEMMA MutexStep == MutexInv /\ [Next]_vars => MutexInv'
<1> SUFFICES ASSUME MutexInv, [Next]_vars PROVE MutexInv'
  OBVIOUS
<1> USE DEF Goto
<1>0. Cardinality(Threads) \in Nat
  BY ThreadsAssumption, FS_CardinalityType
<1>1. ASSUME NEW t \in Threads, Lock(t) PROVE MutexInv'
  <2>1. i0' = i0 + 1 /\ i0 + 1 < WordSize
    BY <1>1, NoWrap, WordAssumption DEF Lock, MutexInv, TypeOK
  <2>2. TypeOK' /\ WordTells' /\ NoLostWakeup'
    <3>1. TypeOK'
      BY <1>1, <2>1, WordAssumption DEF Lock, MutexInv, TypeOK, PC
    <3>2. WordTells'
      BY <1>1, <2>1 DEF Lock, MutexInv, TypeOK, WordTells
    <3>3. NoLostWakeup'
      BY <1>1, <2>1 DEF Lock, MutexInv, TypeOK, NoLostWakeup
    <3> QED
      BY <3>1, <3>2, <3>3
  <2>3. WordBounded'
    <3>1. CASE i0 = 0
      BY <3>1, <2>1, SmallWord
    <3>2. CASE i0 # 0
      <4>1. InSlowpath' = InSlowpath \cup {t} /\ t \notin InSlowpath
        BY <1>1, <3>2 DEF Lock, MutexInv, TypeOK, InSlowpath
      <4>2. IsFiniteSet(InSlowpath)
        BY ThreadsAssumption, FS_Subset DEF InSlowpath
      <4>3. /\ Cardinality(InSlowpath') = Cardinality(InSlowpath) + 1
            /\ Cardinality(InSlowpath) \in Nat
        BY <4>1, <4>2, FS_AddElement, FS_CardinalityType
      <4> QED
        BY <4>3, <2>1 DEF MutexInv, TypeOK, WordBounded
    <3> QED
      BY <3>1, <3>2
  <2> QED
    BY <2>2, <2>3 DEF MutexInv
<1>2. ASSUME NEW t \in Threads, TryLock(t) PROVE MutexInv'
  <2>1. TypeOK' /\ WordTells' /\ NoLostWakeup'
    BY <1>2, <1>0, WordAssumption
       DEF TryLock, MutexInv, TypeOK, PC, WordTells, NoLostWakeup
  <2> QED
    BY <2>1, <1>2, SmallWord DEF TryLock, MutexInv
<1>3. ASSUME NEW t \in Threads, Exchange(t) PROVE MutexInv'
  <2>1. TypeOK' /\ WordTells' /\ NoLostWakeup'
    BY <1>3, <1>0, WordAssumption
       DEF Exchange, MutexInv, TypeOK, PC, WordTells, NoLostWakeup
  <2> QED
    BY <2>1, <1>3, SmallWord DEF Exchange, MutexInv
<1>4. ASSUME NEW t \in Threads, FutexWait(t) PROVE MutexInv'
  <2>1. TypeOK' /\ WordTells' /\ NoLostWakeup'
    BY <1>4 DEF FutexWait, MutexInv, TypeOK, PC, WordTells, NoLostWakeup
  <2>2. InSlowpath \subseteq InSlowpath' /\ InSlowpath' \subseteq Threads /\ i0' = i0
    BY <1>4 DEF FutexWait, MutexInv, TypeOK, InSlowpath
  <2> QED
    BY <2>1, <2>2, SlowpathGrows DEF MutexInv
<1>5. ASSUME NEW t \in Threads, Interrupted(t) PROVE MutexInv'
  <2>1. TypeOK' /\ WordTells' /\ NoLostWakeup'
    BY <1>5 DEF Interrupted, MutexInv, TypeOK, PC, WordTells, NoLostWakeup
  <2>2. InSlowpath \subseteq InSlowpath' /\ InSlowpath' \subseteq Threads /\ i0' = i0
    BY <1>5 DEF Interrupted, MutexInv, TypeOK, InSlowpath
  <2> QED
    BY <2>1, <2>2, SlowpathGrows DEF MutexInv
<1>6. ASSUME NEW t \in Threads, Unlock(t) PROVE MutexInv'
  <2>1. TypeOK' /\ WordTells' /\ NoLostWakeup'
    BY <1>6, <1>0, WordAssumption
       DEF Unlock, MutexInv, TypeOK, PC, WordTells, NoLostWakeup
  <2> QED
    BY <2>1, <1>6, SmallWord DEF Unlock, MutexInv
<1>7. ASSUME NEW t \in Threads, FutexWake(t) PROVE MutexInv'
  <2>1. TypeOK' /\ WordTells' /\ NoLostWakeup'
    BY <1>7 DEF FutexWake, MutexInv, TypeOK, PC, WordTells, NoLostWakeup
  <2>2. InSlowpath \subseteq InSlowpath' /\ InSlowpath' \subseteq Threads /\ i0' = i0
    BY <1>7 DEF FutexWake, MutexInv, TypeOK, InSlowpath
  <2> QED
    BY <2>1, <2>2, SlowpathGrows DEF MutexInv
<1>8. CASE UNCHANGED vars
  BY <1>8 DEF vars, MutexInv, TypeOK, WordTells, WordBounded, InSlowpath, NoLostWakeup
<1> QED
  BY <1>1, <1>2, <1>3, <1>4, <1>5, <1>6, <1>7, <1>8 DEF Next, Step

(* AMutex.lock, trylock and unlock: every reachable state satisfies the    *)
(* inductive invariant.                                                    *)
THEOREM MutexInvariance == SafeSpec => []MutexInv
  BY MutexStart, MutexStep, PTL DEF SafeSpec

(* AMutex.lock and unlock: mutual exclusion, for any number of threads.    *)
THEOREM MutexExcludes == SafeSpec => []Exclusion
<1>1. MutexInv => Exclusion
  BY DEF MutexInv, Exclusion
<1> QED
  BY <1>1, MutexInvariance, PTL

(* AMutex.lockSlowpath and unlockSlowpath: no sleeper is forgotten, for    *)
(* any number of threads.                                                  *)
THEOREM MutexWakesSleepers == SafeSpec => []NoLostWakeup
<1>1. MutexInv => NoLostWakeup
  BY DEF MutexInv
<1> QED
  BY <1>1, MutexInvariance, PTL

(* Every step of the futex mutex is a step of the abstract lock or changes *)
(* nothing the abstract lock can see.                                      *)
LEMMA MutexRefines == MutexInv /\ [Next]_vars => [Abstract!Next]_LockState
<1> SUFFICES ASSUME MutexInv, [Next]_vars PROVE [Abstract!Next]_LockState
  OBVIOUS
<1> USE DEF Goto
<1>1. ASSUME NEW t \in Threads, Lock(t) PROVE [Abstract!Next]_LockState
  <2>1. CASE i0 = 0
    <3>1. Abstract!Acquire(t, "idle")
      BY <1>1, <2>1 DEF Lock, MutexInv, TypeOK, WordTells, LockState, Waiting,
                        Abstract!Acquire, Abstract!Free
    <3> QED
      BY <3>1 DEF Abstract!Next
  <2>2. CASE i0 # 0
    <3>1. Abstract!Request(t)
      BY <1>1, <2>2 DEF Lock, MutexInv, TypeOK, LockState, Waiting, Abstract!Request
    <3> QED
      BY <3>1 DEF Abstract!Next
  <2> QED
    BY <2>1, <2>2
<1>2. ASSUME NEW t \in Threads, TryLock(t) PROVE [Abstract!Next]_LockState
  <2>1. Abstract!Acquire(t, "idle")
    BY <1>2 DEF TryLock, MutexInv, TypeOK, WordTells, LockState, Waiting,
                Abstract!Acquire, Abstract!Free
  <2> QED
    BY <2>1 DEF Abstract!Next
<1>3. ASSUME NEW t \in Threads, Exchange(t) PROVE [Abstract!Next]_LockState
  <2>1. CASE i0 = 0
    <3>1. Abstract!Acquire(t, "waiting")
      BY <1>3, <2>1 DEF Exchange, MutexInv, TypeOK, WordTells, LockState, Waiting,
                        Abstract!Acquire, Abstract!Free
    <3> QED
      BY <3>1 DEF Abstract!Next, Abstract!WaiterAcquires
  <2>2. CASE i0 # 0
    BY <1>3, <2>2 DEF Exchange, MutexInv, TypeOK, LockState, Waiting
  <2> QED
    BY <2>1, <2>2
<1>4. ASSUME NEW t \in Threads, FutexWait(t) PROVE LockState' = LockState
  BY <1>4 DEF FutexWait, MutexInv, TypeOK, LockState, Waiting
<1>5. ASSUME NEW t \in Threads, Interrupted(t) PROVE LockState' = LockState
  BY <1>5 DEF Interrupted, MutexInv, TypeOK, LockState, Waiting
<1>6. ASSUME NEW t \in Threads, Unlock(t) PROVE [Abstract!Next]_LockState
  <2>1. Abstract!Release(t)
    BY <1>6 DEF Unlock, MutexInv, TypeOK, LockState, Waiting, Abstract!Release
  <2> QED
    BY <2>1 DEF Abstract!Next
<1>7. ASSUME NEW t \in Threads, FutexWake(t) PROVE LockState' = LockState
  BY <1>7 DEF FutexWake, MutexInv, TypeOK, LockState, Waiting
<1>8. CASE UNCHANGED vars
  BY <1>8 DEF vars, LockState
<1> QED
  BY <1>1, <1>2, <1>3, <1>4, <1>5, <1>6, <1>7, <1>8 DEF Next, Step

(* AMutex implements the abstract lock, fairness aside: what is proved     *)
(* with MutualExclusion in place of the mutex holds with the mutex.        *)
THEOREM MutexImplementsLock == SafeSpec => Abstract!SafeSpec
<1>1. Init => Abstract!Init
  BY DEF Init, Abstract!Init, LockState, Waiting
<1> QED
  BY <1>1, MutexRefines, MutexInvariance, PTL DEF SafeSpec, Abstract!SafeSpec
-----------------------------------------------------------------------------
(* AObject.  The count is exact until ref() is called too late.            *)
CountExact == /\ late = 0 => refCount = Cardinality(Object!Live)
              /\ late = 1 => Object!Live = {} /\ refCount = 1

(* A compare-and-swap is tried only with more than one reference.          *)
SawAnother == \A r \in Refs : refPc[r] \in {"cas", "cas2"} => old[r] > 1

ObjectInv == Object!TypeOK /\ CountExact /\ SawAnother /\ FreedAtLastRef

(* Cardinality of the module that is instantiated is Cardinality.          *)
LEMMA SameCardinality == \A S : Object!Cardinality(S) = Cardinality(S)
BY DEF Object!Cardinality, Cardinality

(* The sets that are counted are finite.                                   *)
LEMMA SetsFinite ==
           /\ IsFiniteSet(Object!Live) /\ Cardinality(Object!Live) \in Nat
           /\ \A label : IsFiniteSet(Object!In(label)) /\ Cardinality(Object!In(label)) \in Nat
<1>1. Object!Live \subseteq Refs BY DEF Object!Live
<1>2. \A label : Object!In(label) \subseteq Refs BY DEF Object!In
<1> QED BY <1>1, <1>2, RefsAssumption, FS_Subset, FS_CardinalityType

(* One reference more or less.                                             *)
LEMMA CountOne ==
    ASSUME NEW S, IsFiniteSet(S), NEW r
    PROVE  /\ r \in S => Cardinality(S \ {r}) = Cardinality(S) - 1
           /\ r \notin S => Cardinality(S \cup {r}) = Cardinality(S) + 1
           /\ Cardinality(S) = 0 <=> S = {}
           /\ Cardinality(S) \in Nat
BY FS_AddElement, FS_RemoveElement, FS_EmptySet, FS_CardinalityType

(* At the start.                                                           *)
LEMMA ObjectStart == Object!Init => ObjectInv
<1> SUFFICES ASSUME Object!Init PROVE ObjectInv OBVIOUS
<1>1. PICK r \in Refs : refPc = [s \in Refs |-> IF s = r THEN "held" ELSE "none"]
  BY DEF Object!Init
<1>2. Object!Live = {r} /\ Object!In("free") = {} BY <1>1 DEF Object!Live, Object!In
<1>3. Cardinality(Object!Live) = 1 /\ Cardinality(Object!In("free")) = 0
  BY <1>2, FS_Singleton, FS_EmptySet
<1>4. Object!TypeOK BY <1>1 DEF Object!Init, Object!TypeOK
<1>5. CountExact /\ FreedAtLastRef BY <1>2, <1>3, SameCardinality DEF CountExact, FreedAtLastRef, Object!FreedAtLastRef, Object!Init
<1>6. SawAnother BY <1>1 DEF SawAnother
<1> QED BY <1>4, <1>5, <1>6 DEF ObjectInv

(* A step that gives and takes no reference, as far as it is counted.      *)
LEMMA SameReferences ==
    ASSUME ObjectInv, NEW r \in Refs, NEW label,
           refPc[r] \notin {"none", "free"}, label \notin {"none", "free"},
           Object!Goto(r, label), UNCHANGED <<refCount, freed, late>>
    PROVE  CountExact' /\ FreedAtLastRef'
<1>1. Object!Live' = Object!Live BY DEF Object!Live, Object!Goto, ObjectInv, Object!TypeOK
<1>2. Object!In("free")' = Object!In("free") BY DEF Object!In, Object!Goto, ObjectInv, Object!TypeOK
<1> QED BY <1>1, <1>2 DEF CountExact, FreedAtLastRef, Object!FreedAtLastRef, ObjectInv

(* One more reference, through ref().                                      *)
LEMMA OneMore ==
    ASSUME ObjectInv, NEW s \in Refs, refPc[s] = "none", Object!Goto(s, "held"),
           late = 0, Object!Live # {}, refCount' = refCount + 1, UNCHANGED <<freed, late>>
    PROVE  CountExact' /\ FreedAtLastRef'
<1>1. Object!Live' = Object!Live \cup {s} /\ s \notin Object!Live
  BY DEF Object!Live, Object!Goto, ObjectInv, Object!TypeOK
<1>2. Object!In("free")' = Object!In("free") BY DEF Object!In, Object!Goto, ObjectInv, Object!TypeOK
<1>3. Cardinality(Object!Live') = Cardinality(Object!Live) + 1 BY <1>1, SetsFinite, CountOne DEF ObjectInv
<1> QED BY <1>1, <1>2, <1>3, SetsFinite DEF CountExact, FreedAtLastRef, Object!FreedAtLastRef, ObjectInv

(* One reference less, while others remain.                                *)
LEMMA OneLess ==
    ASSUME ObjectInv, NEW r \in Refs, refPc[r] \notin {"none", "free"}, Object!Goto(r, "none"),
           refCount # 1, refCount' = refCount - 1, UNCHANGED <<freed, late>>
    PROVE  CountExact' /\ FreedAtLastRef'
<1>1. Object!Live' = Object!Live \ {r} /\ r \in Object!Live BY DEF Object!Live, Object!Goto, ObjectInv, Object!TypeOK
<1>2. Object!In("free")' = Object!In("free") BY DEF Object!In, Object!Goto, ObjectInv, Object!TypeOK
<1>3. Cardinality(Object!Live') = Cardinality(Object!Live) - 1 BY <1>1, SetsFinite, CountOne DEF ObjectInv
<1>4. late = 0 => Object!Live' # {}
  <2>1. late = 0 => Cardinality(Object!Live') # 0 BY <1>3, SetsFinite DEF CountExact, ObjectInv
  <2> QED BY <2>1, FS_EmptySet
<1> QED BY <1>1, <1>2, <1>3, <1>4, SetsFinite DEF CountExact, FreedAtLastRef, Object!FreedAtLastRef, ObjectInv, Object!TypeOK

LEMMA StepRef == ASSUME ObjectInv, NEW r \in Refs, NEW s \in Refs, Object!Ref(r, s) PROVE ObjectInv'
<1> USE DEF Object!Ref, Object!TakeRef
<1>1. r \in Object!Live BY DEF Object!Live
<1>2. Object!TypeOK' BY DEF Object!TypeOK, ObjectInv, Object!Goto
<1>3. SawAnother' BY DEF SawAnother, Object!Goto, ObjectInv, Object!TypeOK
<1>4. CASE late = 0
  <2>1. refCount > 0
    BY <1>1, <1>4, SetsFinite, FS_EmptySet DEF CountExact, ObjectInv
  <2>2. Object!Goto(s, "held") BY <2>1 DEF ObjectInv, Object!TypeOK
  <2> QED BY <1>1, <1>2, <1>3, <1>4, <2>2, OneMore DEF ObjectInv
<1>5. CASE late # 0
  BY <1>1, <1>2, <1>3, <1>5 DEF CountExact, FreedAtLastRef, Object!FreedAtLastRef, ObjectInv, Object!TypeOK
<1> QED BY <1>4, <1>5

LEMMA StepLate == ASSUME ObjectInv, NEW s \in Refs, Object!LateRef(s) PROVE ObjectInv'
<1> USE DEF Object!LateRef, Object!TakeRef
<1>2. Object!TypeOK' BY DEF Object!TypeOK, ObjectInv, Object!Goto
<1>3. SawAnother' BY DEF SawAnother, Object!Goto, ObjectInv, Object!TypeOK
<1>4. CASE late = 0 /\ Object!Live # {}
  <2>1. refCount > 0 BY <1>4, SetsFinite, FS_EmptySet DEF CountExact, ObjectInv
  <2>2. Object!Goto(s, "held") BY <2>1 DEF ObjectInv, Object!TypeOK
  <2> QED BY <1>2, <1>3, <1>4, <2>2, OneMore DEF ObjectInv
<1>5. CASE late = 0 /\ Object!Live = {}
  <2>1. refCount = 0 BY <1>5, FS_EmptySet DEF CountExact, ObjectInv
  <2>2. UNCHANGED refPc BY <2>1
  <2>3. Object!Live' = Object!Live /\ Object!In("free")' = Object!In("free") BY <2>2 DEF Object!Live, Object!In
  <2> QED BY <1>2, <1>3, <1>5, <2>1, <2>3 DEF CountExact, FreedAtLastRef, Object!FreedAtLastRef, ObjectInv
<1>6. CASE late # 0
  <2>1. late' > 1 BY <1>6 DEF CountExact, ObjectInv, Object!TypeOK
  <2> QED BY <1>2, <1>3, <2>1 DEF CountExact, FreedAtLastRef, Object!FreedAtLastRef, ObjectInv
<1> QED BY <1>4, <1>5, <1>6

LEMMA StepLook == ASSUME ObjectInv, NEW r \in Refs, Object!Look(r) PROVE ObjectInv'
<1>1. PICK label \in {"cas", "again", "cas2", "last"} :
          Object!Goto(r, label) /\ (label \in {"cas", "cas2"} => refCount > 1)
  BY DEF Object!Look
<1>2. Object!TypeOK' BY <1>1 DEF Object!TypeOK, ObjectInv, Object!Goto, Object!Look
<1>3. SawAnother' BY <1>1 DEF SawAnother, Object!Goto, ObjectInv, Object!TypeOK, Object!Look
<1>4. CountExact' /\ FreedAtLastRef' BY <1>1, SameReferences DEF Object!Look
<1> QED BY <1>2, <1>3, <1>4 DEF ObjectInv

LEMMA StepCas == ASSUME ObjectInv, NEW r \in Refs, Object!CompareAndDecrement(r) PROVE ObjectInv'
<1> USE DEF Object!CompareAndDecrement
<1>1. Object!TypeOK' BY DEF Object!TypeOK, ObjectInv, Object!Goto
<1>2. SawAnother' BY DEF SawAnother, Object!Goto, ObjectInv, Object!TypeOK
<1>3. CASE refCount = old[r]
  <2>1. refCount # 1 BY <1>3 DEF SawAnother, ObjectInv, Object!TypeOK
  <2> QED BY <1>1, <1>2, <1>3, <2>1, OneLess DEF ObjectInv
<1>4. CASE refCount # old[r]
  <2>1. PICK label \in {"retry", "again"} : Object!Goto(r, label) BY <1>4
  <2> QED BY <1>1, <1>2, <1>4, <2>1, SameReferences DEF ObjectInv
<1> QED BY <1>3, <1>4

LEMMA StepLast == ASSUME ObjectInv, NEW r \in Refs, Object!DecrementLast(r) PROVE ObjectInv'
<1> USE DEF Object!DecrementLast
<1>1. Object!TypeOK' BY DEF Object!TypeOK, ObjectInv, Object!Goto
<1>2. SawAnother' BY DEF SawAnother, Object!Goto, ObjectInv, Object!TypeOK
<1>3. CASE refCount # 1 BY <1>1, <1>2, <1>3, OneLess DEF ObjectInv
<1>4. CASE refCount = 1
  <2>1. r \in Object!Live /\ r \notin Object!In("free") BY DEF Object!Live, Object!In
  <2>2. Object!Live' = Object!Live \ {r} /\ Object!In("free")' = Object!In("free") \cup {r}
    BY <1>4 DEF Object!Live, Object!In, Object!Goto, ObjectInv, Object!TypeOK
  <2>3. /\ Cardinality(Object!Live') = Cardinality(Object!Live) - 1
        /\ Cardinality(Object!In("free")') = Cardinality(Object!In("free")) + 1
    BY <2>1, <2>2, SetsFinite, CountOne DEF ObjectInv
  <2>4. late = 0 => Object!Live' = {}
    <3>1. late = 0 => Cardinality(Object!Live') = 0
      BY <1>4, <2>3, SetsFinite DEF CountExact, ObjectInv
    <3>2. IsFiniteSet(Object!Live') BY <2>2, SetsFinite, FS_Difference DEF ObjectInv
    <3> QED BY <3>1, <3>2, FS_EmptySet
  <2>5. late # 1 BY <2>1 DEF CountExact, ObjectInv
  <2>6. CountExact' BY <1>4, <2>3, <2>5, SetsFinite DEF CountExact, ObjectInv
  <2>7. FreedAtLastRef'
    BY <2>1, <2>3, <2>4, <2>5, SetsFinite, SameCardinality DEF FreedAtLastRef, Object!FreedAtLastRef, ObjectInv, Object!TypeOK
  <2> QED BY <1>1, <1>2, <2>6, <2>7 DEF ObjectInv
<1> QED BY <1>3, <1>4

LEMMA StepFree == ASSUME ObjectInv, NEW r \in Refs, Object!Free(r) PROVE ObjectInv'
<1> USE DEF Object!Free
<1>1. Object!TypeOK' BY DEF Object!TypeOK, ObjectInv, Object!Goto
<1>2. SawAnother' BY DEF SawAnother, Object!Goto, ObjectInv, Object!TypeOK
<1>3. Object!Live' = Object!Live /\ Object!In("free")' = Object!In("free") \ {r} /\ r \in Object!In("free")
  BY DEF Object!Live, Object!In, Object!Goto, ObjectInv, Object!TypeOK
<1>4. Cardinality(Object!In("free")') = Cardinality(Object!In("free")) - 1
  BY <1>3, SetsFinite, CountOne DEF ObjectInv
<1>5. CountExact' BY <1>3 DEF CountExact, ObjectInv
<1>6. FreedAtLastRef' BY <1>3, <1>4, SetsFinite, SameCardinality DEF FreedAtLastRef, Object!FreedAtLastRef, ObjectInv, Object!TypeOK
<1> QED BY <1>1, <1>2, <1>5, <1>6 DEF ObjectInv

LEMMA ObjectStep == ObjectInv /\ [Object!Next]_objectVars => ObjectInv'
<1> SUFFICES ASSUME ObjectInv, [Object!Next]_objectVars PROVE ObjectInv' OBVIOUS
<1>1. CASE UNCHANGED objectVars
  BY <1>1 DEF objectVars, ObjectInv, Object!TypeOK, CountExact, SawAnother, FreedAtLastRef, Object!FreedAtLastRef, Object!Live, Object!In
<1>2. CASE Object!Next
  BY <1>2, StepRef, StepLate, StepLook, StepCas, StepLast, StepFree DEF Object!Next
<1> QED BY <1>1, <1>2
-----------------------------------------------------------------------------
(* MtcsMem.  Until the program aborts, an address is in the hands of one   *)
(* thread or of the program; only the one that a thread is about to take   *)
(* off the registry may be allocated anew.                                 *)
InMemory(a, d) == a \in DOMAIN memory /\ memory[a] = d

Handled(t) == /\ memPc[t] \in {"free", "remove"} => address[t] \in DOMAIN registry
              /\ memPc[t] \in {"add", "free"} => InMemory(address[t], device[t])
              /\ memPc[t] # "idle" => address[t] \notin owned

Apart(t, u) == \A labels \in {{"add", "free"}, {"free", "remove"}} :
                   memPc[t] \in labels /\ memPc[u] \in labels => address[t] # address[u]

MemoryInv == /\ memPc \in [MemThreads -> {"idle", "add", "free", "remove"}]
             /\ DOMAIN address = MemThreads /\ DOMAIN device = MemThreads
             /\ aborted \in BOOLEAN
             /\ ~aborted =>
                   /\ \A a \in owned : a \in DOMAIN registry /\ InMemory(a, registry[a])
                   /\ \A t \in MemThreads : Handled(t)
                   /\ \A t, u \in MemThreads : t # u => Apart(t, u)

LEMMA MemoryStart == Memory!Init => MemoryInv
BY DEF Memory!Init, MemoryInv, Handled, Apart

LEMMA StepMalloc ==
    ASSUME MemoryInv, NEW t \in MemThreads, NEW d \in Devices, Memory!Malloc(t, d)
    PROVE  MemoryInv'
<1> USE DEF MemoryInv, Memory!Malloc, Memory!Goto
<1>1. PICK a \in Addresses \ DOMAIN memory :
          memory' = Memory!With(memory, a, d) /\ address' = [address EXCEPT ![t] = a]
  OBVIOUS
<1>2. \A b \in DOMAIN memory : b # a /\ b \in DOMAIN memory' /\ memory'[b] = memory[b]
  BY <1>1 DEF Memory!With
<1>3. a \in DOMAIN memory' /\ memory'[a] = d BY <1>1 DEF Memory!With
<1>4. \A b \in owned : b \in DOMAIN registry' /\ InMemory(b, registry[b])'
  BY <1>2 DEF InMemory
<1>5. \A u \in MemThreads : Handled(u)' BY <1>1, <1>2, <1>3 DEF Handled, InMemory
<1>6. \A u, v \in MemThreads : u # v => Apart(u, v)'
  BY <1>1, <1>2 DEF Handled, InMemory, Apart
<1> QED BY <1>1, <1>4, <1>5, <1>6

LEMMA StepAdd == ASSUME MemoryInv, NEW t \in MemThreads, Memory!Add(t) PROVE MemoryInv'
<1> USE DEF MemoryInv, Memory!Add, Memory!Goto
<1> SUFFICES ASSUME ~aborted' PROVE MemoryInv' OBVIOUS
<1>1. address[t] \notin DOMAIN registry OBVIOUS
<1>2. \A b \in DOMAIN registry :
          b # address[t] /\ b \in DOMAIN registry' /\ registry'[b] = registry[b]
  BY <1>1 DEF Memory!With
<1>3. address[t] \in DOMAIN registry' /\ registry'[address[t]] = device[t] BY DEF Memory!With
<1>4. \A b \in owned' : b \in DOMAIN registry' /\ InMemory(b, registry[b])'
  BY <1>2, <1>3 DEF InMemory, Handled
<1>5. \A u \in MemThreads : Handled(u)'
  BY <1>1, <1>2, <1>3 DEF Handled, InMemory, Apart
<1>6. \A u, v \in MemThreads : u # v => Apart(u, v)' BY DEF Apart
<1> QED BY <1>4, <1>5, <1>6

LEMMA StepFreeMemory ==
    ASSUME MemoryInv, NEW t \in MemThreads, NEW a \in Addresses, Memory!Free(t, a)
    PROVE  MemoryInv'
<1> USE DEF MemoryInv, Memory!Free, Memory!Goto
<1>1. a \in DOMAIN registry /\ InMemory(a, registry[a]) OBVIOUS
<1>2. \A u \in MemThreads : Handled(u)' BY <1>1 DEF Handled, InMemory
<1>3. \A u, v \in MemThreads : u # v => Apart(u, v)' BY DEF Handled, Apart
<1> QED BY <1>1, <1>2, <1>3 DEF InMemory

LEMMA StepFreeOnDevice ==
    ASSUME MemoryInv, NEW t \in MemThreads, Memory!FreeOnDevice(t) PROVE MemoryInv'
<1> USE DEF MemoryInv, Memory!FreeOnDevice, Memory!Goto
<1>1. \A b \in DOMAIN memory : b # address[t] => b \in DOMAIN memory' /\ memory'[b] = memory[b]
  BY DEF Memory!Without, Memory!Restrict
<1>2. \A b \in owned : b \in DOMAIN registry' /\ InMemory(b, registry[b])'
  BY <1>1 DEF InMemory, Handled
<1>3. \A u \in MemThreads : Handled(u)' BY <1>1 DEF Handled, InMemory, Apart
<1>4. \A u, v \in MemThreads : u # v => Apart(u, v)' BY DEF Apart
<1> QED BY <1>2, <1>3, <1>4

LEMMA StepRemove == ASSUME MemoryInv, NEW t \in MemThreads, Memory!Remove(t) PROVE MemoryInv'
<1> USE DEF MemoryInv, Memory!Remove, Memory!Goto
<1>1. \A b \in DOMAIN registry :
          b # address[t] => b \in DOMAIN registry' /\ registry'[b] = registry[b]
  BY DEF Memory!Without, Memory!Restrict
<1>2. \A b \in owned : b \in DOMAIN registry' /\ InMemory(b, registry[b])'
  BY <1>1 DEF InMemory, Handled
<1>3. \A u \in MemThreads : Handled(u)' BY <1>1 DEF Handled, InMemory, Apart
<1>4. \A u, v \in MemThreads : u # v => Apart(u, v)' BY DEF Apart
<1> QED BY <1>2, <1>3, <1>4

LEMMA MemoryStep == MemoryInv /\ [Memory!Next]_memVars => MemoryInv'
<1> SUFFICES ASSUME MemoryInv, [Memory!Next]_memVars PROVE MemoryInv' OBVIOUS
<1>1. CASE UNCHANGED memVars
  BY <1>1 DEF memVars, MemoryInv, Handled, Apart, InMemory
<1>2. CASE Memory!Next
  BY <1>2, StepMalloc, StepAdd, StepFreeMemory, StepFreeOnDevice, StepRemove DEF Memory!Next
<1> QED BY <1>1, <1>2
-----------------------------------------------------------------------------
(* ThreadSpawner.  A call in the queue waits and has nothing yet; with a   *)
(* thread, the references are those of the thread and of its maker.        *)
Calls == Spawn!Calls
Unmade(c) == thread[c] = None /\ life[c] = "none" /\ threadRefs[c] = 0

SpawnShape == /\ spc \in {"none", "pop", "create", "answer"}
              /\ queue \in Seq(Askers)
              /\ callPc \in [Calls -> {"new", "ready", "wait", "woken", "made", "failed", "done"}]
              /\ thread \in [Calls -> Calls \cup {None}]
              /\ threadRefs \in [Calls -> Int]
              /\ life \in [Calls -> {"none", "running", "ended", "gone"}]
              /\ joined \in [Calls -> BOOLEAN] /\ detached \in [Calls -> BOOLEAN]
              /\ threadFreed \in [Calls -> BOOLEAN]

QueueWaits == \A i \in 1 .. Len(queue) :
                 /\ callPc[queue[i]] \in {"wait", "woken"} /\ Unmade(queue[i])
                 /\ queue[i] # serving
                 /\ \A j \in 1 .. Len(queue) : queue[i] = queue[j] => i = j

ServedWaits == IF spc \in {"create", "answer"}
               THEN /\ serving \in Askers /\ callPc[serving] \in {"wait", "woken"}
                    /\ spc = "create" => Unmade(serving)
               ELSE serving = None

CallCounted(c) ==
    /\ callPc[c] \in {"new", "ready"} => Unmade(c)
    /\ callPc[c] \in {"made", "done"} => thread[c] = c
    /\ thread[c] \in {c, None} /\ (thread[c] = c <=> life[c] # "none")
    /\ life[c] # "none" => threadRefs[c] = (IF life[c] = "gone" THEN 0 ELSE 1)
                                           + (IF callPc[c] = "done" THEN 0 ELSE 1)
    /\ threadFreed[c] <=> life[c] = "gone" /\ callPc[c] = "done"
    /\ joined[c] => life[c] = "gone"
    /\ detached[c] <=> threadFreed[c] /\ ~joined[c]

ReferencesCounted == \A c \in Calls : CallCounted(c)

SpawnInv == SpawnShape /\ QueueWaits /\ ServedWaits /\ ReferencesCounted

LEMMA SpawnStart == Spawn!Init => SpawnInv
<1> SUFFICES ASSUME Spawn!Init PROVE SpawnInv OBVIOUS
<1> USE DEF Spawn!Init, Spawn!Calls, Calls
<1>1. SpawnShape BY DEF SpawnShape
<1>2. QueueWaits BY DEF QueueWaits
<1>3. ServedWaits /\ ReferencesCounted BY NoneAssumption DEF ServedWaits, ReferencesCounted, CallCounted, Unmade
<1> QED BY <1>1, <1>2, <1>3 DEF SpawnInv

(* The operators of the instance are those of AQueue.                      *)
LEMMA SameFront == \A q : Spawn!Front(q) = Front(q) /\ Spawn!Last(q) = Last(q) /\ Last(q) = q[Len(q)]
BY DEF Spawn!Front, Spawn!Last, Front, Last

(* A step that leaves the queue, the served call and all other calls alone *)
(* changes nothing for those that wait.                                    *)
LEMMA OthersWait ==
    ASSUME SpawnInv, NEW c \in Calls,
           \A d \in Calls \ {c} : callPc'[d] = callPc[d]
                                  /\ (Unmade(d) => Unmade(d)'),
           callPc[c] \notin {"wait", "woken"}, UNCHANGED <<serving, queue>>,
           spc' = spc \/ (spc = "none" /\ spc' = "pop")
    PROVE  QueueWaits' /\ ServedWaits'
<1> USE DEF SpawnInv, SpawnShape, Calls, Spawn!Calls
<1>1. \A i \in 1 .. Len(queue) : queue[i] \in Calls \ {c} BY DEF QueueWaits
<1>2. QueueWaits' BY <1>1 DEF QueueWaits
<1>3. ServedWaits' BY DEF ServedWaits
<1> QED BY <1>2, <1>3

LEMMA StepInitPool == ASSUME SpawnInv, NEW c \in Calls, Spawn!InitPool(c) PROVE SpawnInv'
<1> USE DEF Spawn!InitPool, Spawn!Goto, Spawn!object
<1>1. SpawnShape' BY DEF SpawnInv, SpawnShape
<1>2. QueueWaits' /\ ServedWaits' BY OthersWait DEF SpawnInv, SpawnShape, Unmade
<1>3. ReferencesCounted' BY DEF SpawnInv, SpawnShape, ReferencesCounted, CallCounted, Unmade
<1> QED BY <1>1, <1>2, <1>3 DEF SpawnInv

LEMMA StepAsk == ASSUME SpawnInv, NEW c \in Calls, Spawn!Ask(c) PROVE SpawnInv'
<1> USE DEF Spawn!Ask, Spawn!Goto, Spawn!object, Spawn!QueueFree
<1>1. /\ queue' \in Seq(Askers) /\ Len(queue') = Len(queue) + 1
      /\ \A i \in 1 .. Len(queue) + 1 : queue'[i] = IF i = 1 THEN c ELSE queue[i - 1]
  <2>1. queue \in Seq(Askers) /\ queue' = PushHead(queue, c) /\ c \in Askers
    BY DEF SpawnInv, SpawnShape, PushHead
  <2>2. \A i \in 1 .. Len(queue) : queue'[i + 1] = queue[i] BY <2>1, PushHeadShape
  <2>3. ASSUME NEW i \in 2 .. Len(queue) + 1 PROVE queue'[i] = queue[i - 1]
    <3>1. i - 1 \in 1 .. Len(queue) /\ i = (i - 1) + 1 BY <2>1
    <3> QED BY <2>2, <3>1
  <2>4. queue' \in Seq(Askers) /\ Len(queue') = Len(queue) + 1 /\ queue'[1] = c
    BY <2>1, PushHeadShape
  <2>5. \A i \in 1 .. Len(queue) + 1 : i = 1 \/ i \in 2 .. Len(queue) + 1
    BY <2>1
  <2> QED BY <2>3, <2>4, <2>5
<1>2. SpawnShape' BY <1>1 DEF SpawnInv, SpawnShape
<1>3. ServedWaits' BY DEF SpawnInv, SpawnShape, ServedWaits
<1>4. Unmade(c) BY DEF SpawnInv, ReferencesCounted, CallCounted
<1>5. \A i \in 1 .. Len(queue) : queue[i] # c /\ queue[i] \in Calls
  BY DEF SpawnInv, SpawnShape, QueueWaits, Calls, Spawn!Calls
<1>6. c # serving BY NoneAssumption DEF SpawnInv, ServedWaits
<1>7. QueueWaits'
  <2> SUFFICES ASSUME NEW i \in 1 .. Len(queue) + 1
               PROVE  /\ callPc'[queue'[i]] \in {"wait", "woken"} /\ Unmade(queue'[i])
                      /\ queue'[i] # serving
                      /\ \A j \in 1 .. Len(queue) + 1 : queue'[i] = queue'[j] => i = j
    BY <1>1 DEF QueueWaits, Unmade
  <2>1. Len(queue) \in Nat BY DEF SpawnInv, SpawnShape
  <2>2. CASE i = 1
    BY <1>1, <1>4, <1>5, <1>6, <2>1, <2>2 DEF SpawnInv, SpawnShape, Unmade
  <2>3. CASE i # 1
    BY <1>1, <1>5, <2>1, <2>3 DEF SpawnInv, SpawnShape, QueueWaits, Unmade
  <2> QED BY <2>2, <2>3
<1>8. ReferencesCounted' BY <1>4 DEF SpawnInv, SpawnShape, ReferencesCounted, CallCounted, Unmade
<1> QED BY <1>2, <1>3, <1>7, <1>8 DEF SpawnInv

(* An asker that finds its thread is neither in the queue nor served.      *)
LEMMA StepAskerWakes == ASSUME SpawnInv, NEW c \in Calls, Spawn!AskerWakes(c) PROVE SpawnInv'
<1> USE DEF Spawn!AskerWakes, Spawn!Goto, Spawn!object, Spawn!sync, Spawn!QueueFree
<1>1. SpawnShape' BY DEF SpawnInv, SpawnShape
<1>2. QueueWaits'
  BY DEF SpawnInv, SpawnShape, QueueWaits, Unmade, Calls, Spawn!Calls
<1>3. ServedWaits' BY DEF SpawnInv, SpawnShape, ServedWaits
<1>4. ReferencesCounted' BY DEF SpawnInv, SpawnShape, ReferencesCounted, CallCounted, Unmade
<1> QED BY <1>1, <1>2, <1>3, <1>4 DEF SpawnInv

LEMMA StepPops == ASSUME SpawnInv, Spawn!SpawnerPops PROVE SpawnInv'
<1> USE DEF Spawn!SpawnerPops, Spawn!object
<1> DEFINE n == Len(queue)
<1>0. queue \in Seq(Askers) /\ queue # <<>> BY DEF SpawnInv, SpawnShape
<1>1. /\ n \in Nat \ {0} /\ serving' = queue[n] /\ serving' \in Askers
      /\ queue' \in Seq(Askers) /\ Len(queue') = n - 1
      /\ \A i \in 1 .. n - 1 : queue'[i] = queue[i]
  BY <1>0, FrontShape, SameFront
<1>2. SpawnShape' BY <1>1 DEF SpawnInv, SpawnShape
<1>3. QueueWaits' BY <1>1 DEF SpawnInv, QueueWaits, Unmade
<1>4. ServedWaits' BY <1>1 DEF SpawnInv, QueueWaits, ServedWaits, Unmade
<1>5. ReferencesCounted' BY DEF SpawnInv, ReferencesCounted, CallCounted, Unmade
<1> QED BY <1>2, <1>3, <1>4, <1>5 DEF SpawnInv

LEMMA StepCreates == ASSUME SpawnInv, Spawn!SpawnerCreates PROVE SpawnInv'
<1> USE DEF Spawn!SpawnerCreates
<1> DEFINE c == serving
<1>1. /\ c \in Calls /\ callPc[c] \in {"wait", "woken"} /\ Unmade(c) /\ c # None
      /\ c \in Askers
  BY NoneAssumption DEF SpawnInv, ServedWaits, Calls, Spawn!Calls
<1>2. /\ DOMAIN thread = Calls /\ DOMAIN life = Calls /\ DOMAIN threadRefs = Calls
  BY DEF SpawnInv, SpawnShape
<1>3. \/ /\ life' = [life EXCEPT ![c] = "running"] /\ thread' = [thread EXCEPT ![c] = c]
         /\ threadRefs' = [threadRefs EXCEPT ![c] = 2]
      \/ /\ life' = life /\ thread' = [thread EXCEPT ![c] = None]
         /\ threadRefs' = [threadRefs EXCEPT ![c] = 1]
  BY DEF Spawn!NewThread
<1>4. SpawnShape' BY <1>1, <1>3 DEF SpawnInv, SpawnShape
<1>5. \A d \in Calls \ {c} : Unmade(d) => Unmade(d)'
  BY <1>2, <1>3 DEF Unmade
<1>6. QueueWaits'
  BY <1>5 DEF SpawnInv, SpawnShape, QueueWaits, Calls, Spawn!Calls
<1>7. ServedWaits' BY <1>1 DEF ServedWaits
<1>8. ReferencesCounted'
  BY <1>1, <1>2, <1>3 DEF SpawnInv, SpawnShape, ReferencesCounted, CallCounted, Unmade
<1> QED BY <1>4, <1>6, <1>7, <1>8 DEF SpawnInv

LEMMA StepAnswer == ASSUME SpawnInv, Spawn!Answer PROVE SpawnInv'
<1> USE DEF Spawn!Answer, Spawn!object
<1>1. callPc' = [c \in Calls |-> IF callPc[c] = "wait" THEN "woken" ELSE callPc[c]]
  BY DEF Calls
<1>2. SpawnShape' BY <1>1 DEF SpawnInv, SpawnShape
<1>3. \A i \in 1 .. Len(queue) : queue[i] # None /\ queue[i] \in Calls
  BY NoneAssumption DEF SpawnInv, SpawnShape, Calls, Spawn!Calls
<1>4. QueueWaits' BY <1>1, <1>3 DEF SpawnInv, QueueWaits, Unmade
<1>5. ServedWaits' BY DEF ServedWaits
<1>6. ReferencesCounted' BY <1>1 DEF SpawnInv, SpawnShape, ReferencesCounted, CallCounted, Unmade
<1> QED BY <1>2, <1>4, <1>5, <1>6 DEF SpawnInv

LEMMA StepMake == ASSUME SpawnInv, NEW c \in Calls, Spawn!Make(c) PROVE SpawnInv'
<1> USE DEF Spawn!Make, Spawn!sync
<1>1. Unmade(c) /\ c # None
  BY NoneAssumption DEF SpawnInv, ReferencesCounted, CallCounted, Calls, Spawn!Calls
<1>2. /\ DOMAIN thread = Calls /\ DOMAIN life = Calls /\ DOMAIN threadRefs = Calls
      /\ DOMAIN callPc = Calls
  BY DEF SpawnInv, SpawnShape
<1>3. \/ /\ life' = [life EXCEPT ![c] = "running"] /\ thread' = [thread EXCEPT ![c] = c]
         /\ threadRefs' = [threadRefs EXCEPT ![c] = 2]
         /\ callPc' = [callPc EXCEPT ![c] = "made"]
      \/ /\ life' = life /\ thread' = [thread EXCEPT ![c] = None]
         /\ threadRefs' = [threadRefs EXCEPT ![c] = 1]
         /\ callPc' = [callPc EXCEPT ![c] = "failed"]
  BY <1>1 DEF Spawn!NewThread, Spawn!Goto
<1>4. SpawnShape'
  <2>1. /\ thread' \in [Calls -> Calls \cup {None}]
        /\ life' \in [Calls -> {"none", "running", "ended", "gone"}]
        /\ threadRefs' \in [Calls -> Int]
    BY <1>3 DEF SpawnInv, SpawnShape
  <2>2. callPc' \in [Calls -> {"new", "ready", "wait", "woken", "made", "failed", "done"}]
    BY <1>3 DEF SpawnInv, SpawnShape
  <2> QED BY <2>1, <2>2 DEF SpawnInv, SpawnShape
<1>5. \A d \in Calls \ {c} : callPc'[d] = callPc[d] /\ (Unmade(d) => Unmade(d)')
  BY <1>2, <1>3 DEF Unmade
<1>6. QueueWaits' /\ ServedWaits' BY <1>5, OthersWait
<1>7. ReferencesCounted'
  BY <1>1, <1>2, <1>3 DEF SpawnInv, SpawnShape, ReferencesCounted, CallCounted, Unmade
<1> QED BY <1>4, <1>6, <1>7 DEF SpawnInv

LEMMA StepJoin == ASSUME SpawnInv, NEW c \in Calls, Spawn!Join(c) PROVE SpawnInv'
<1> USE DEF Spawn!Join, Spawn!sync
<1>1. SpawnShape' BY DEF SpawnInv, SpawnShape
<1>2. QueueWaits' /\ ServedWaits' BY OthersWait DEF Unmade
<1>3. ReferencesCounted' BY DEF SpawnInv, SpawnShape, ReferencesCounted, CallCounted, Unmade
<1> QED BY <1>1, <1>2, <1>3 DEF SpawnInv

(* The maker or the thread gives up its reference.                         *)
LEMMA Given ==
    ASSUME SpawnInv, NEW c \in Calls, thread[c] = c, Spawn!Unref(c),
           \/ callPc[c] = "made" /\ callPc' = [callPc EXCEPT ![c] = "done"] /\ life' = life
           \/ life[c] = "ended" /\ life' = [life EXCEPT ![c] = "gone"] /\ callPc' = callPc,
           UNCHANGED thread
    PROVE  ReferencesCounted'
<1> USE DEF SpawnInv, SpawnShape, ReferencesCounted, CallCounted
<1>1. threadRefs[c] = 1 <=> (life[c] = "gone" \/ callPc[c] = "done") OBVIOUS
<1>2. /\ threadRefs' = [threadRefs EXCEPT ![c] = threadRefs[c] - 1]
      /\ detached' = [detached EXCEPT ![c] = detached[c] \/ (threadRefs[c] = 1 /\ ~joined[c])]
      /\ threadFreed' = [threadFreed EXCEPT ![c] = threadFreed[c] \/ threadRefs[c] = 1]
      /\ joined' = joined
  BY DEF Spawn!Unref
<1>3. \A d \in Calls \ {c} :
          UNCHANGED <<callPc[d], thread[d], threadRefs[d], joined[d], detached[d], life[d], threadFreed[d]>>
  BY <1>2
<1>4. \A d \in Calls \ {c} : CallCounted(d)' BY <1>3 DEF Unmade
<1>5. CallCounted(c)'
  <2>1. /\ threadRefs'[c] = threadRefs[c] - 1 /\ (threadFreed'[c] <=> threadRefs[c] = 1)
        /\ (detached'[c] <=> threadRefs[c] = 1 /\ ~joined[c]) /\ (joined'[c] <=> joined[c])
        /\ life[c] # "none" /\ thread'[c] = c /\ callPc[c] \notin {"new", "ready"}
    BY <1>1, <1>2 DEF Unmade
  <2>2. CASE callPc[c] = "made" /\ callPc'[c] = "done" /\ life'[c] = life[c]
    BY <1>1, <2>1, <2>2
  <2>3. CASE life[c] = "ended" /\ life'[c] = "gone" /\ callPc'[c] = callPc[c]
    BY <1>1, <2>1, <2>3
  <2> QED BY <2>2, <2>3
<1> QED BY <1>4, <1>5

LEMMA StepRelease == ASSUME SpawnInv, NEW c \in Calls, Spawn!Release(c) PROVE SpawnInv'
<1> USE DEF Spawn!Release, Spawn!Goto, Spawn!sync
<1>1. thread[c] = c /\ ~Unmade(c)
  BY DEF SpawnInv, ReferencesCounted, CallCounted, Unmade
<1>2. SpawnShape' BY DEF SpawnInv, SpawnShape, Spawn!Unref
<1>3. QueueWaits' /\ ServedWaits'
  BY OthersWait DEF SpawnInv, SpawnShape, Unmade, Spawn!Unref
<1>4. ReferencesCounted' BY <1>1, Given
<1> QED BY <1>2, <1>3, <1>4 DEF SpawnInv

LEMMA StepFuncReturns == ASSUME SpawnInv, NEW c \in Calls, Spawn!FuncReturns(c) PROVE SpawnInv'
<1> USE DEF Spawn!FuncReturns, Spawn!sync, Spawn!object
<1>1. SpawnShape' BY DEF SpawnInv, SpawnShape
<1>2. \A d \in Calls : Unmade(d) => Unmade(d)' BY DEF SpawnInv, SpawnShape, Unmade
<1>3. QueueWaits' BY <1>2 DEF SpawnInv, SpawnShape, QueueWaits, Calls, Spawn!Calls
<1>4. ServedWaits' BY <1>2 DEF SpawnInv, SpawnShape, ServedWaits, Calls, Spawn!Calls
<1>5. ReferencesCounted' BY DEF SpawnInv, SpawnShape, ReferencesCounted, CallCounted, Unmade
<1> QED BY <1>1, <1>3, <1>4, <1>5 DEF SpawnInv

LEMMA StepThreadExits == ASSUME SpawnInv, NEW c \in Calls, Spawn!ThreadExits(c) PROVE SpawnInv'
<1> USE DEF Spawn!ThreadExits, Spawn!sync
<1>1. thread[c] = c BY DEF SpawnInv, ReferencesCounted, CallCounted
<1>2. SpawnShape' BY DEF SpawnInv, SpawnShape, Spawn!Unref
<1>3. \A d \in Calls : Unmade(d) => Unmade(d)'
  BY DEF SpawnInv, SpawnShape, Unmade, Spawn!Unref
<1>4. QueueWaits' BY <1>3 DEF SpawnInv, SpawnShape, QueueWaits, Calls, Spawn!Calls
<1>5. ServedWaits' BY <1>3 DEF SpawnInv, SpawnShape, ServedWaits, Calls, Spawn!Calls
<1>6. ReferencesCounted' BY <1>1, Given DEF SpawnInv, SpawnShape
<1> QED BY <1>2, <1>4, <1>5, <1>6 DEF SpawnInv

LEMMA SpawnStep == SpawnInv /\ [Spawn!Next]_spawnVars => SpawnInv'
<1> SUFFICES ASSUME SpawnInv, [Spawn!Next]_spawnVars PROVE SpawnInv' OBVIOUS
<1>1. CASE UNCHANGED spawnVars
  BY <1>1 DEF spawnVars, SpawnInv, SpawnShape, QueueWaits, ServedWaits, ReferencesCounted,
     CallCounted, Unmade
<1>2. CASE Spawn!Next
  BY <1>2, StepInitPool, StepAsk, StepAskerWakes, StepPops, StepCreates, StepAnswer, StepMake,
     StepJoin, StepRelease, StepFuncReturns, StepThreadExits
  DEF Spawn!Next, Spawn!Spawner, Spawn!Call, Calls
<1> QED BY <1>1, <1>2
-----------------------------------------------------------------------------
(* Once.  The locations on a stack that a thread initialises.              *)
Initialises(t, i) ==
    /\ i \in 1 .. Len(stack[t])
    /\ \/ i > 1
       \/ oncePc[t] = "init"
       \/ goal[t] = "leave" /\ oncePc[t] \in {"lock", "cas", "acquire", "leave"}

OnceShape ==
    /\ p \in OnceThreads \cup {None}
    /\ holder \in [OnceThreads -> OnceThreads \cup {None}]
    /\ mutex \in [OnceThreads -> OnceThreads \cup {None}]
    /\ value \in [Locations -> OnceThreads \cup {None}]
    /\ init_list \subseteq Locations
    /\ stack \in [OnceThreads -> Seq(Locations)]
    /\ oncePc \in [OnceThreads -> {"idle", "lock", "cas", "acquire", "enter", "wait",
                                   "recheck", "init", "leave"}]
    /\ goal \in [OnceThreads -> {"enter", "recheck", "leave"}]
    /\ onceSeen \in [OnceThreads -> [value : OnceThreads \cup {None}, listed : BOOLEAN]]
    /\ begun \in [Locations -> Nat]
    /\ done \in [OnceThreads -> SUBSET Locations]
    /\ \A t \in OnceThreads : oncePc[t] = "idle" <=> stack[t] = <<>>

(* One thread at a time has the mutex, and it is the one in p.             *)
Inside == {"enter", "recheck", "leave"}
OneInside ==
    \A t \in OnceThreads :
        /\ oncePc[t] \in Inside \cup {"acquire"} => mutex[t] = p /\ p # None
        /\ oncePc[t] \in Inside => holder[p] = t /\ goal[t] = oncePc[t]

(* A location on the list has one initialiser.                             *)
Listed ==
    \A t \in OnceThreads, i \in Nat : Initialises(t, i) =>
        /\ stack[t][i] \in init_list
        /\ \A u \in OnceThreads, j \in Nat :
               Initialises(u, j) /\ stack[u][j] = stack[t][i] => u = t /\ j = i

(* Off the list, a location has been initialised or is as at the start.    *)
Stored == \A l \in Locations :
              IF l \in init_list THEN begun[l] = 1
              ELSE begun[l] = IF value[l] = None THEN 0 ELSE 1

DoneStored == \A t \in OnceThreads : \A l \in done[t] : value[l] # None

(* What a thread has read is still true while it has the mutex.            *)
HasWaited(t) == \/ oncePc[t] = "wait"
                \/ goal[t] = "recheck" /\ oncePc[t] \in {"lock", "cas", "acquire", "recheck"}

SeenCurrent ==
    \A t \in OnceThreads :
        /\ oncePc[t] \in {"enter", "recheck"} =>
              /\ onceSeen[t].listed = (Head(stack[t]) \in init_list)
              /\ onceSeen[t].value # None => value[Head(stack[t])] # None
        /\ oncePc[t] = "enter" /\ onceSeen[t].value = None /\ ~onceSeen[t].listed
              => begun[Head(stack[t])] = 0
        /\ HasWaited(t) => begun[Head(stack[t])] = 1

OnceInv == OnceShape /\ OneInside /\ Listed /\ Stored /\ DoneStored /\ SeenCurrent

LEMMA OnceStart == Location!Init => OnceInv
<1> SUFFICES ASSUME Location!Init PROVE OnceInv OBVIOUS
<1> USE DEF Location!Init, Location!Nothing
<1>1. OnceShape BY DEF OnceShape
<1>2. OneInside /\ Stored /\ DoneStored /\ SeenCurrent
  BY DEF OneInside, Inside, Stored, DoneStored, SeenCurrent, HasWaited
<1>3. Listed
  <2>1. \A t \in OnceThreads : Len(stack[t]) = 0 OBVIOUS
  <2> QED BY <2>1 DEF Listed, Initialises
<1> QED BY <1>1, <1>2, <1>3 DEF OnceInv

(* The stack of a thread with one location more or less.                   *)
LEMMA StackShape ==
    ASSUME NEW s \in Seq(Locations), NEW l \in Locations
    PROVE  /\ Len(s) \in Nat /\ (s = <<>> <=> Len(s) = 0)
           /\ <<l>> \o s \in Seq(Locations) /\ <<l>> \o s # <<>>
           /\ Len(<<l>> \o s) = Len(s) + 1 /\ (<<l>> \o s)[1] = l /\ Head(<<l>> \o s) = l
           /\ \A i \in 2 .. Len(s) + 1 : (<<l>> \o s)[i] = s[i - 1]
           /\ s # <<>> => /\ Head(s) = s[1] /\ Head(s) \in Locations
                          /\ Tail(s) \in Seq(Locations) /\ Len(Tail(s)) = Len(s) - 1
                          /\ \A i \in 1 .. Len(s) - 1 : Tail(s)[i] = s[i + 1]
OBVIOUS

(* Where a thread is, while it is in a call.                               *)
LEMMA AtHead ==
    ASSUME OnceInv, NEW t \in OnceThreads, oncePc[t] # "idle"
    PROVE  /\ stack[t] # <<>> /\ stack[t] \in Seq(Locations) /\ Len(stack[t]) \in Nat \ {0}
           /\ Head(stack[t]) = stack[t][1] /\ Head(stack[t]) \in Locations
           /\ 1 \in 1 .. Len(stack[t])
<1>1. stack[t] # <<>> /\ stack[t] \in Seq(Locations) BY DEF OnceInv, OnceShape
<1> QED BY <1>1

(* Nobody else has the mutex.                                              *)
LEMMA Alone ==
    ASSUME OnceInv, NEW t \in OnceThreads, NEW u \in OnceThreads,
           oncePc[t] \in Inside, oncePc[u] \in Inside
    PROVE  t = u
BY DEF OnceInv, OneInside

(* No thread becomes an initialiser, and none of the locations that threads*)
(* go on with leaves the list; stacks may grow and shrink at their head.   *)
LEMMA ListedKept ==
    ASSUME Listed, NEW k \in [OnceThreads -> Int],
           \A u \in OnceThreads, i \in Nat :
              Initialises(u, i)' => /\ Initialises(u, i + k[u]) /\ i + k[u] \in Nat
                                    /\ stack'[u][i] = stack[u][i + k[u]]
                                    /\ stack'[u][i] \in init_list'
    PROVE  Listed'
<1> SUFFICES ASSUME NEW t \in OnceThreads, NEW i \in Nat, Initialises(t, i)'
             PROVE  /\ stack'[t][i] \in init_list'
                    /\ \A u \in OnceThreads, j \in Nat :
                          Initialises(u, j)' /\ stack'[u][j] = stack'[t][i] => u = t /\ j = i
  BY DEF Listed
<1>1. stack'[t][i] \in init_list' OBVIOUS
<1>2. ASSUME NEW u \in OnceThreads, NEW j \in Nat, Initialises(u, j)', stack'[u][j] = stack'[t][i]
      PROVE  u = t /\ j = i
  <2>1. /\ Initialises(t, i + k[t]) /\ i + k[t] \in Nat /\ stack'[t][i] = stack[t][i + k[t]]
        /\ Initialises(u, j + k[u]) /\ j + k[u] \in Nat /\ stack'[u][j] = stack[u][j + k[u]]
    BY <1>2
  <2>2. u = t /\ j + k[u] = i + k[t] BY <1>2, <2>1 DEF Listed
  <2>3. k[t] \in Int OBVIOUS
  <2> QED BY <2>2, <2>3
<1> QED BY <1>1, <1>2

(* As above, with all the stacks and the list as they were.                *)
LEMMA ListedSame ==
    ASSUME Listed, UNCHANGED <<stack, init_list>>,
           \A u \in OnceThreads, i \in Nat : Initialises(u, i)' => Initialises(u, i)
    PROVE  Listed'
BY DEF Listed

LEMMA StepCall ==
    ASSUME OnceInv, NEW t \in OnceThreads, NEW l \in Locations, Location!Call(t, l)
    PROVE  OnceInv'
<1> USE DEF Location!Call
<1>0. /\ oncePc[t] \in {"idle", "init"} /\ stack[t] \in Seq(Locations)
      /\ DOMAIN stack = OnceThreads /\ DOMAIN oncePc = OnceThreads /\ DOMAIN goal = OnceThreads
  BY DEF OnceInv, OnceShape
<1>1. CASE l \notin Onces /\ value[l] # None
  <2>0. /\ done' = [done EXCEPT ![t] = @ \cup {l}]
        /\ UNCHANGED <<stack, oncePc, goal, p, holder, mutex, value, init_list, onceSeen, begun>>
    BY <1>1
  <2>1. OnceShape' BY <2>0 DEF OnceInv, OnceShape
  <2>2. OneInside' /\ Stored' /\ SeenCurrent'
    BY <2>0 DEF OnceInv, OneInside, Inside, Stored, SeenCurrent, HasWaited
  <2>3. DoneStored' BY <1>1, <2>0 DEF OnceInv, OnceShape, DoneStored
  <2>4. Listed' BY <2>0, ListedSame DEF OnceInv, Initialises
  <2> QED BY <2>1, <2>2, <2>3, <2>4 DEF OnceInv
<1>2. CASE ~(l \notin Onces /\ value[l] # None)
  <2>0. /\ stack' = [stack EXCEPT ![t] = <<l>> \o @]
        /\ oncePc' = [oncePc EXCEPT ![t] = "lock"] /\ goal' = [goal EXCEPT ![t] = "enter"]
        /\ UNCHANGED <<done, p, holder, mutex, value, init_list, onceSeen, begun>>
    BY <1>2 DEF Location!Lock, Location!Goto
  <2>1. /\ stack'[t] = <<l>> \o stack[t] /\ oncePc'[t] = "lock" /\ goal'[t] = "enter"
        /\ \A u \in OnceThreads \ {t} :
              stack'[u] = stack[u] /\ oncePc'[u] = oncePc[u] /\ goal'[u] = goal[u]
    BY <1>0, <2>0
  <2>2. OnceShape'
    <3>1. stack' \in [OnceThreads -> Seq(Locations)] /\ stack'[t] # <<>>
      BY <1>0, <2>0, StackShape DEF OnceInv, OnceShape
    <3> QED BY <2>0, <2>1, <3>1 DEF OnceInv, OnceShape
  <2>3. OneInside' BY <2>0, <2>1 DEF OnceInv, OneInside, Inside
  <2>4. Stored' /\ DoneStored' BY <2>0 DEF OnceInv, Stored, DoneStored
  <2>5. SeenCurrent' BY <2>0, <2>1 DEF OnceInv, SeenCurrent, HasWaited
  <2>6. Listed'
    <3> DEFINE k == [u \in OnceThreads |-> IF u = t THEN -1 ELSE 0]
    <3>1. ASSUME NEW u \in OnceThreads, NEW i \in Nat, Initialises(u, i)'
          PROVE  /\ Initialises(u, i + k[u]) /\ i + k[u] \in Nat
                 /\ stack'[u][i] = stack[u][i + k[u]] /\ stack'[u][i] \in init_list'
      <4>1. CASE u = t
        <5>1. i \in 1 .. Len(stack'[t]) /\ i > 1 BY <2>1, <3>1, <4>1 DEF Initialises
        <5>2. Len(stack'[t]) = Len(stack[t]) + 1 /\ Len(stack[t]) \in Nat
          BY <1>0, <2>1, StackShape
        <5>3. i \in 2 .. Len(stack[t]) + 1 BY <5>1, <5>2
        <5>4. stack'[t][i] = stack[t][i - 1] BY <1>0, <2>1, <5>3, StackShape
        <5>5. i - 1 \in 1 .. Len(stack[t]) /\ k[t] = -1 /\ i + k[t] = i - 1 BY <5>2, <5>3
        <5>6. oncePc[t] = "init"
          BY <1>0, <5>5 DEF OnceInv, OnceShape
        <5>7. Initialises(t, i - 1) BY <5>5, <5>6 DEF Initialises
        <5> QED BY <2>0, <4>1, <5>4, <5>5, <5>7 DEF OnceInv, Listed
      <4>2. CASE u # t
        <5>1. Initialises(u, i) BY <2>1, <3>1, <4>2 DEF Initialises
        <5>2. k[u] = 0 /\ i + k[u] = i BY <4>2
        <5> QED BY <2>0, <2>1, <4>2, <5>1, <5>2 DEF OnceInv, Listed
      <4> QED BY <4>1, <4>2
    <3>2. k \in [OnceThreads -> Int] OBVIOUS
    <3> HIDE DEF k
    <3> QED BY <3>1, <3>2, ListedKept DEF OnceInv
  <2> QED BY <2>2, <2>3, <2>4, <2>5, <2>6 DEF OnceInv
<1> QED BY <1>1, <1>2

LEMMA StepGetImpl == ASSUME OnceInv, NEW t \in OnceThreads, Location!GetImpl(t) PROVE OnceInv'
<1> USE DEF Location!GetImpl, Location!Goto
<1>1. OnceShape' BY DEF OnceInv, OnceShape
<1>2. OneInside' BY DEF OnceInv, OnceShape, OneInside, Inside
<1>3. Stored' /\ DoneStored' BY DEF OnceInv, Stored, DoneStored
<1>4. SeenCurrent' BY DEF OnceInv, OnceShape, SeenCurrent, HasWaited
<1>5. Listed' BY ListedSame DEF OnceInv, OnceShape, Initialises
<1> QED BY <1>1, <1>2, <1>3, <1>4, <1>5 DEF OnceInv

LEMMA StepPutImpl == ASSUME OnceInv, NEW t \in OnceThreads, Location!PutImpl(t) PROVE OnceInv'
<1> USE DEF Location!PutImpl, Location!Goto
<1>1. OnceShape' BY DEF OnceInv, OnceShape
<1>2. OneInside' BY DEF OnceInv, OnceShape, OneInside, Inside
<1>3. Stored' /\ DoneStored' BY DEF OnceInv, Stored, DoneStored
<1>4. SeenCurrent' BY DEF OnceInv, OnceShape, SeenCurrent, HasWaited
<1>5. Listed' BY ListedSame DEF OnceInv, OnceShape, Initialises
<1> QED BY <1>1, <1>2, <1>3, <1>4, <1>5 DEF OnceInv

LEMMA StepAcquire == ASSUME OnceInv, NEW t \in OnceThreads, Location!Acquire(t) PROVE OnceInv'
<1> USE DEF Location!Acquire, Location!Goto
<1> DEFINE l == Head(stack[t])
<1>0. /\ mutex[t] = p /\ p \in OnceThreads /\ holder[p] = None /\ l \in Locations
      /\ oncePc' = [oncePc EXCEPT ![t] = goal[t]] /\ goal[t] \in Inside
  BY AtHead DEF OnceInv, OnceShape, OneInside, Inside
<1>1. onceSeen' = [onceSeen EXCEPT ![t] = [value |-> value[l], listed |-> l \in init_list]]
  OBVIOUS
<1> HIDE DEF l
<1>2. OnceShape' BY <1>0, <1>1 DEF OnceInv, OnceShape, Inside
<1>3. \A u \in OnceThreads : oncePc[u] \notin Inside
  BY <1>0, NoneAssumption DEF OnceInv, OnceShape, OneInside
<1>4. OneInside' BY <1>0, <1>3 DEF OnceInv, OnceShape, OneInside, Inside
<1>5. Stored' /\ DoneStored' BY DEF OnceInv, Stored, DoneStored
<1>6. SeenCurrent'
  <2>1. onceSeen'[t].value = value[l] /\ onceSeen'[t].listed = (l \in init_list)
    BY <1>1 DEF OnceInv, OnceShape
  <2>2. onceSeen'[t].value = None /\ ~onceSeen'[t].listed => value[l] = None /\ l \notin init_list
    BY <2>1
  <2>3. onceSeen'[t].value = None /\ ~onceSeen'[t].listed => begun[l] = 0
    BY <1>0, <2>2 DEF OnceInv, Stored
  <2>4. HasWaited(t)' => HasWaited(t)
    BY <1>0 DEF OnceInv, OnceShape, HasWaited, Inside
  <2>5. \A u \in OnceThreads \ {t} : /\ oncePc'[u] = oncePc[u] /\ oncePc[u] \notin Inside
                                     /\ HasWaited(u)' => HasWaited(u)
    BY <1>0, <1>3 DEF OnceInv, OnceShape, HasWaited
  <2> QED BY <2>1, <2>3, <2>4, <2>5 DEF OnceInv, SeenCurrent, l, Inside
<1>7. Listed' BY <1>0, ListedSame DEF OnceInv, OnceShape, Initialises, Inside
<1> QED BY <1>2, <1>4, <1>5, <1>6, <1>7 DEF OnceInv

(* The thread with the mutex gives it up; others only wake up.             *)
LEMMA Unlocked ==
    ASSUME OnceInv, NEW t \in OnceThreads, oncePc[t] \in Inside, Location!Unlock(t),
           oncePc' \in [OnceThreads -> {"idle", "lock", "acquire", "cas", "enter", "wait",
                                        "recheck", "init", "leave"}],
           oncePc'[t] \in {"idle", "init", "wait"}, UNCHANGED <<p, mutex>>,
           \A u \in OnceThreads \ {t} :
              \/ oncePc'[u] = oncePc[u] /\ goal'[u] = goal[u]
              \/ oncePc'[u] = "lock"
    PROVE  /\ OneInside'
           /\ holder' \in [OnceThreads -> OnceThreads \cup {None}]
           /\ onceSeen' \in [OnceThreads -> [value : OnceThreads \cup {None}, listed : BOOLEAN]]
           /\ \A u \in OnceThreads \ {t} : onceSeen'[u] = onceSeen[u] /\ oncePc'[u] \notin Inside
<1>1. \A u \in OnceThreads \ {t} : oncePc[u] \notin Inside /\ oncePc'[u] \notin Inside
  BY Alone DEF Inside
<1>2. OneInside' BY <1>1 DEF OnceInv, OnceShape, OneInside, Inside
<1>3. /\ holder' \in [OnceThreads -> OnceThreads \cup {None}]
      /\ onceSeen' \in [OnceThreads -> [value : OnceThreads \cup {None}, listed : BOOLEAN]]
      /\ \A u \in OnceThreads \ {t} : onceSeen'[u] = onceSeen[u]
  BY DEF OnceInv, OnceShape, Location!Unlock, Location!Nothing
<1> QED BY <1>1, <1>2, <1>3

(* A call returns: the caller goes on with what it was initialising.       *)
LEMMA Popped ==
    ASSUME OnceInv, NEW t \in OnceThreads, oncePc[t] \in Inside,
           stack' = [stack EXCEPT ![t] = Tail(@)],
           oncePc'[t] = IF Tail(stack[t]) = <<>> THEN "idle" ELSE "init",
           \A u \in OnceThreads \ {t} : \A i \in Nat : Initialises(u, i)' => Initialises(u, i),
           \/ init_list' = init_list
           \/ init_list' = init_list \ {Head(stack[t])} /\ Initialises(t, 1)
    PROVE  /\ stack' \in [OnceThreads -> Seq(Locations)]
           /\ oncePc'[t] = "idle" <=> stack'[t] = <<>>
           /\ \A u \in OnceThreads \ {t} : stack'[u] = stack[u]
           /\ Listed'
<1>1. /\ stack[t] # <<>> /\ stack[t] \in Seq(Locations) /\ Head(stack[t]) = stack[t][1]
      /\ Len(stack[t]) \in Nat \ {0}
  BY AtHead DEF Inside
<1>2. /\ Tail(stack[t]) \in Seq(Locations) /\ Len(Tail(stack[t])) = Len(stack[t]) - 1
      /\ \A i \in 1 .. Len(stack[t]) - 1 : Tail(stack[t])[i] = stack[t][i + 1]
  BY <1>1
<1>3. /\ stack'[t] = Tail(stack[t]) /\ \A u \in OnceThreads \ {t} : stack'[u] = stack[u]
      /\ stack' \in [OnceThreads -> Seq(Locations)]
  BY <1>2 DEF OnceInv, OnceShape
<1>4. oncePc'[t] = "idle" <=> stack'[t] = <<>> BY <1>3
<1>5. Listed'
  <2> DEFINE k == [u \in OnceThreads |-> IF u = t THEN 1 ELSE 0]
  <2>1. ASSUME NEW u \in OnceThreads, NEW i \in Nat, Initialises(u, i)'
        PROVE  /\ Initialises(u, i + k[u]) /\ i + k[u] \in Nat
               /\ stack'[u][i] = stack[u][i + k[u]]
               /\ stack[u][i + k[u]] = Head(stack[t]) => init_list' = init_list
    <3>1. CASE u = t
      <4>1. i \in 1 .. Len(stack[t]) - 1 BY <1>2, <1>3, <2>1, <3>1 DEF Initialises
      <4>2. k[t] = 1 /\ i + 1 \in 1 .. Len(stack[t]) /\ i + 1 > 1 BY <1>1, <4>1
      <4>3. Initialises(t, i + 1) BY <4>2 DEF Initialises
      <4>4. stack'[t][i] = stack[t][i + 1] BY <1>2, <1>3, <4>1
      <4>5. Initialises(t, 1) => stack[t][i + 1] # stack[t][1]
        BY <4>2, <4>3 DEF OnceInv, Listed
      <4> QED BY <1>1, <3>1, <4>2, <4>3, <4>4, <4>5
    <3>2. CASE u # t
      <4>1. Initialises(u, i) /\ k[u] = 0 /\ i + k[u] = i BY <2>1, <3>2
      <4>2. Initialises(t, 1) => stack[u][i] # stack[t][1] BY <3>2, <4>1 DEF OnceInv, Listed
      <4> QED BY <1>1, <1>3, <3>2, <4>1, <4>2
    <3> QED BY <3>1, <3>2
  <2>2. k \in [OnceThreads -> Int] OBVIOUS
  <2> HIDE DEF k
  <2>3. ASSUME NEW u \in OnceThreads, NEW i \in Nat, Initialises(u, i)'
        PROVE  stack'[u][i] \in init_list'
    <3>1. /\ Initialises(u, i + k[u]) /\ i + k[u] \in Nat
          /\ stack'[u][i] = stack[u][i + k[u]]
          /\ stack[u][i + k[u]] = Head(stack[t]) => init_list' = init_list
      BY <2>1, <2>3
    <3>2. stack[u][i + k[u]] \in init_list BY <3>1 DEF OnceInv, Listed
    <3> QED BY <3>1, <3>2
  <2> QED BY <2>1, <2>2, <2>3, ListedKept DEF OnceInv
<1> QED BY <1>3, <1>4, <1>5

LEMMA StepRecheck == ASSUME OnceInv, NEW t \in OnceThreads, Location!Recheck(t) PROVE OnceInv'
<1> USE DEF Location!Recheck, Location!Goto, Location!Return
<1> DEFINE l == Head(stack[t])
<1>0. /\ oncePc[t] \in Inside /\ \A u \in OnceThreads \ {t} : oncePc'[u] = oncePc[u]
      /\ oncePc'[t] \in {"idle", "init", "wait"} /\ l \in Locations
      /\ oncePc' \in [OnceThreads -> {"idle", "lock", "acquire", "cas", "enter", "wait",
                                      "recheck", "init", "leave"}]
  <2>1. oncePc[t] \in Inside /\ l \in Locations BY AtHead DEF Inside
  <2>2. PICK label \in {"idle", "init", "wait"} : oncePc' = [oncePc EXCEPT ![t] = label]
    OBVIOUS
  <2> QED BY <2>1, <2>2 DEF OnceInv, OnceShape
<1>1. /\ OneInside' /\ holder' \in [OnceThreads -> OnceThreads \cup {None}]
      /\ onceSeen' \in [OnceThreads -> [value : OnceThreads \cup {None}, listed : BOOLEAN]]
      /\ \A u \in OnceThreads \ {t} : oncePc'[u] \notin Inside
  BY <1>0, Unlocked
<1>2. Stored' BY DEF OnceInv, Stored
<1>3. goal[t] = "recheck" /\ begun[l] = 1
  BY DEF OnceInv, OneInside, SeenCurrent, HasWaited, Inside
<1>4. \A u \in OnceThreads \ {t} : \A i \in Nat : stack'[u] = stack[u] =>
          (Initialises(u, i)' => Initialises(u, i))
  BY <1>0 DEF Initialises
<1>5. CASE onceSeen[t].listed
  <2>1. oncePc'[t] = "wait" /\ UNCHANGED <<stack, done>> BY <1>5 DEF OnceInv, OnceShape
  <2>2. OnceShape' BY <1>0, <1>1, <2>1 DEF OnceInv, OnceShape
  <2>3. Listed' BY <1>3, <1>4, <2>1, ListedSame DEF OnceInv, Initialises
  <2>4. DoneStored' BY <2>1 DEF OnceInv, DoneStored
  <2>5. SeenCurrent'
    BY <1>0, <1>1, <1>3, <2>1 DEF OnceInv, SeenCurrent, HasWaited, Inside
  <2> QED BY <1>1, <1>2, <2>2, <2>3, <2>4, <2>5 DEF OnceInv
<1>6. CASE ~onceSeen[t].listed
  <2>1. /\ stack' = [stack EXCEPT ![t] = Tail(@)] /\ done' = [done EXCEPT ![t] = @ \cup {l}]
        /\ oncePc'[t] = IF Tail(stack[t]) = <<>> THEN "idle" ELSE "init"
    BY <1>6 DEF OnceInv, OnceShape
  <2>2. /\ stack' \in [OnceThreads -> Seq(Locations)]
        /\ oncePc'[t] = "idle" <=> stack'[t] = <<>>
        /\ \A u \in OnceThreads \ {t} : stack'[u] = stack[u]
        /\ Listed'
    <3>1. \A u \in OnceThreads \ {t} : stack'[u] = stack[u]
      BY <2>1 DEF OnceInv, OnceShape
    <3> QED BY <1>0, <1>4, <2>1, <3>1, Popped
  <2>3. OnceShape'
    <3>1. \A u \in OnceThreads : oncePc'[u] = "idle" <=> stack'[u] = <<>>
      BY <1>0, <2>2, SMTT(30) DEF OnceInv, OnceShape
    <3>2. done' \in [OnceThreads -> SUBSET Locations]
      BY <1>0, <2>1 DEF OnceInv, OnceShape
    <3> HIDE DEF l
    <3> QED BY <1>0, <1>1, <2>2, <3>1, <3>2 DEF OnceInv, OnceShape
  <2>4. l \notin init_list BY <1>6 DEF OnceInv, SeenCurrent
  <2>5. value[l] # None BY <1>0, <1>3, <2>4 DEF OnceInv, Stored
  <2>6. DoneStored' BY <2>1, <2>5 DEF OnceInv, OnceShape, DoneStored
  <2>7. SeenCurrent'
    BY <1>0, <1>1, <2>1, <2>2 DEF OnceInv, SeenCurrent, HasWaited, Inside
  <2> QED BY <1>1, <1>2, <2>2, <2>3, <2>6, <2>7 DEF OnceInv
<1> QED BY <1>5, <1>6

LEMMA StepEnter == ASSUME OnceInv, NEW t \in OnceThreads, Location!Enter(t) PROVE OnceInv'
<1> USE DEF Location!Enter, Location!Goto, Location!Return
<1> DEFINE l == Head(stack[t])
<1>0. /\ oncePc[t] \in Inside /\ \A u \in OnceThreads \ {t} : oncePc'[u] = oncePc[u]
      /\ oncePc'[t] \in {"idle", "init", "wait"} /\ l \in Locations
      /\ oncePc' \in [OnceThreads -> {"idle", "lock", "acquire", "cas", "enter", "wait",
                                      "recheck", "init", "leave"}]
  <2>1. oncePc[t] \in Inside /\ l \in Locations BY AtHead DEF Inside
  <2>2. PICK label \in {"idle", "init", "wait"} : oncePc' = [oncePc EXCEPT ![t] = label]
    OBVIOUS
  <2> QED BY <2>1, <2>2 DEF OnceInv, OnceShape
<1>1. /\ OneInside' /\ holder' \in [OnceThreads -> OnceThreads \cup {None}]
      /\ onceSeen' \in [OnceThreads -> [value : OnceThreads \cup {None}, listed : BOOLEAN]]
      /\ \A u \in OnceThreads \ {t} : oncePc'[u] \notin Inside
  BY <1>0, Unlocked
<1>2. /\ onceSeen[t].listed = (l \in init_list)
      /\ onceSeen[t].value # None => value[l] # None
      /\ onceSeen[t].value = None /\ ~onceSeen[t].listed => begun[l] = 0
  BY DEF OnceInv, SeenCurrent
<1>3. goal[t] = "enter" BY DEF OnceInv, OneInside, Inside
<1>4. \A u \in OnceThreads \ {t} : \A i \in Nat : stack'[u] = stack[u] =>
          (Initialises(u, i)' => Initialises(u, i))
  BY <1>0 DEF Initialises
<1>5. CASE onceSeen[t].value # None
  <2>1. /\ stack' = [stack EXCEPT ![t] = Tail(@)] /\ done' = [done EXCEPT ![t] = @ \cup {l}]
        /\ oncePc'[t] = IF Tail(stack[t]) = <<>> THEN "idle" ELSE "init"
        /\ UNCHANGED <<p, mutex, value, goal, init_list, begun>>
    BY <1>5 DEF OnceInv, OnceShape
  <2>2. /\ stack' \in [OnceThreads -> Seq(Locations)]
        /\ oncePc'[t] = "idle" <=> stack'[t] = <<>>
        /\ \A u \in OnceThreads \ {t} : stack'[u] = stack[u]
        /\ Listed'
    <3>1. \A u \in OnceThreads \ {t} : stack'[u] = stack[u]
      BY <2>1 DEF OnceInv, OnceShape
    <3> QED BY <1>0, <1>4, <2>1, <3>1, Popped
  <2>3. OnceShape'
    <3>1. \A u \in OnceThreads : oncePc'[u] = "idle" <=> stack'[u] = <<>>
      BY <1>0, <2>2, SMTT(30) DEF OnceInv, OnceShape
    <3>2. done' \in [OnceThreads -> SUBSET Locations]
      BY <1>0, <2>1 DEF OnceInv, OnceShape
    <3> HIDE DEF l
    <3> QED BY <1>0, <1>1, <2>1, <2>2, <3>1, <3>2 DEF OnceInv, OnceShape
  <2>4. DoneStored' BY <1>2, <1>5, <2>1 DEF OnceInv, OnceShape, DoneStored
  <2>5. SeenCurrent'
    BY <1>0, <1>1, <2>1, <2>2 DEF OnceInv, SeenCurrent, HasWaited, Inside
  <2>6. Stored' BY <2>1 DEF OnceInv, Stored
  <2> QED BY <1>1, <2>2, <2>3, <2>4, <2>5, <2>6 DEF OnceInv
<1>6. CASE onceSeen[t].value = None /\ onceSeen[t].listed
  <2>1. /\ oncePc'[t] = "wait"
        /\ UNCHANGED <<stack, done, init_list, begun, p, mutex, value, goal>>
    BY <1>6 DEF OnceInv, OnceShape
  <2>2. OnceShape' BY <1>0, <1>1, <2>1 DEF OnceInv, OnceShape
  <2>3. Listed' BY <1>3, <1>4, <2>1, ListedSame DEF OnceInv, Initialises
  <2>4. DoneStored' /\ Stored' BY <2>1 DEF OnceInv, DoneStored, Stored
  <2>5. begun[l] = 1 BY <1>0, <1>2, <1>6 DEF OnceInv, Stored
  <2>6. SeenCurrent'
    BY <1>0, <1>1, <2>1, <2>5 DEF OnceInv, SeenCurrent, HasWaited, Inside
  <2> QED BY <1>1, <2>2, <2>3, <2>4, <2>6 DEF OnceInv
<1>7. CASE onceSeen[t].value = None /\ ~onceSeen[t].listed
  <2>1. /\ oncePc'[t] = "init" /\ init_list' = init_list \cup {l}
        /\ begun' = [begun EXCEPT ![l] = @ + 1]
        /\ UNCHANGED <<stack, done, p, mutex, value, goal>>
    BY <1>7 DEF OnceInv, OnceShape
  <2>2. begun[l] = 0 /\ l \notin init_list BY <1>2, <1>7
  <2>3. begun' = [begun EXCEPT ![l] = 1] BY <2>1, <2>2
  <2> HIDE DEF l
  <2>4. OnceShape' BY <1>0, <1>1, <2>1, <2>3 DEF OnceInv, OnceShape
  <2>5. DoneStored' BY <2>1 DEF OnceInv, DoneStored
  <2>6. Stored' BY <1>0, <2>1, <2>3 DEF OnceInv, OnceShape, Stored
  <2>7. \A u \in OnceThreads : HasWaited(u)' => HasWaited(u) /\ begun'[Head(stack[u])] = 1
    <3>1. \A u \in OnceThreads : HasWaited(u)' => HasWaited(u)
      BY <1>0, <2>1 DEF HasWaited
    <3>2. \A u \in OnceThreads : HasWaited(u) => begun[Head(stack[u])] = 1
      BY DEF OnceInv, SeenCurrent
    <3>3. \A u \in OnceThreads : HasWaited(u) => Head(stack[u]) \in Locations
      BY AtHead DEF HasWaited
    <3> QED BY <1>0, <2>3, <3>1, <3>2, <3>3 DEF OnceInv, OnceShape
  <2>8. SeenCurrent' BY <1>0, <1>1, <2>1, <2>7 DEF SeenCurrent, Inside
  <2>9. Listed'
    <3>1. /\ Head(stack[t]) = stack[t][1] /\ stack[t][1] = l
          /\ \A u \in OnceThreads, i \in Nat :
                Initialises(u, i)' => Initialises(u, i) \/ (u = t /\ i = 1)
      BY <1>0, <2>1, AtHead DEF Initialises, Inside, l
    <3>2. \A u \in OnceThreads, i \in Nat : Initialises(u, i) => stack[u][i] # l
      BY <2>2 DEF OnceInv, Listed
    <3> QED BY <2>1, <3>1, <3>2 DEF OnceInv, Listed
  <2> QED BY <1>1, <2>4, <2>5, <2>6, <2>8, <2>9 DEF OnceInv
<1> QED BY <1>5, <1>6, <1>7

LEMMA StepPublish == ASSUME OnceInv, NEW t \in OnceThreads, Location!Publish(t) PROVE OnceInv'
<1> USE DEF Location!Publish, Location!Goto, Location!Lock
<1> DEFINE l == Head(stack[t])
<1>0. /\ l \in Locations /\ l = stack[t][1] /\ Initialises(t, 1) /\ l \in init_list
  BY AtHead DEF Initialises, OnceInv, Listed
<1>1. value' = value \/ value' = [value EXCEPT ![l] = t] OBVIOUS
<1> HIDE DEF l
<1>2. OnceShape' BY <1>0, <1>1 DEF OnceInv, OnceShape
<1>3. OneInside' BY DEF OnceInv, OnceShape, OneInside, Inside
<1>4. \A m \in Locations : value[m] # None => value'[m] # None
  BY <1>0, <1>1, NoneAssumption DEF OnceInv, OnceShape
<1>5. Stored' BY <1>0, <1>1 DEF OnceInv, OnceShape, Stored
<1>6. DoneStored' BY <1>4 DEF OnceInv, OnceShape, DoneStored
<1>7. SeenCurrent'
  <2>1. \A u \in OnceThreads : oncePc[u] \in {"enter", "recheck"} => Head(stack[u]) \in Locations
    BY AtHead
  <2> QED BY <1>4, <2>1 DEF OnceInv, OnceShape, SeenCurrent, HasWaited
<1>8. Listed' BY ListedSame DEF OnceInv, OnceShape, Initialises
<1> QED BY <1>2, <1>3, <1>5, <1>6, <1>7, <1>8 DEF OnceInv

LEMMA StepLeave == ASSUME OnceInv, NEW t \in OnceThreads, Location!Leave(t) PROVE OnceInv'
<1> USE DEF Location!Leave
<1> DEFINE l == Head(stack[t])
<1>0. /\ oncePc[t] \in Inside /\ l \in Locations /\ l = stack[t][1] /\ Initialises(t, 1)
      /\ l \in init_list /\ t # None
  BY AtHead, NoneAssumption DEF Inside, Initialises, OnceInv, OneInside, Listed
<1>1. /\ oncePc'[t] = IF Tail(stack[t]) = <<>> THEN "idle" ELSE "init"
      /\ \A u \in OnceThreads \ {t} :
            \/ oncePc'[u] = oncePc[u] /\ goal'[u] = goal[u] /\ oncePc[u] # "wait"
            \/ oncePc[u] = "wait" /\ oncePc'[u] = "lock" /\ goal'[u] = "recheck"
      /\ oncePc' \in [OnceThreads -> {"idle", "lock", "acquire", "cas", "enter", "wait",
                                      "recheck", "init", "leave"}]
      /\ goal' \in [OnceThreads -> {"enter", "recheck", "leave"}]
  BY DEF OnceInv, OnceShape
<1>2. /\ stack' = [stack EXCEPT ![t] = Tail(@)] /\ done' = [done EXCEPT ![t] = @ \cup {l}]
      /\ value' = [value EXCEPT ![l] = t] /\ init_list' = init_list \ {l}
      /\ UNCHANGED <<p, mutex, begun>>
  OBVIOUS
<1>3. /\ OneInside' /\ holder' \in [OnceThreads -> OnceThreads \cup {None}]
      /\ onceSeen' \in [OnceThreads -> [value : OnceThreads \cup {None}, listed : BOOLEAN]]
      /\ \A u \in OnceThreads \ {t} : oncePc'[u] \notin Inside
  BY <1>0, <1>1, <1>2, Unlocked
<1>4. /\ stack' \in [OnceThreads -> Seq(Locations)]
      /\ oncePc'[t] = "idle" <=> stack'[t] = <<>>
      /\ \A u \in OnceThreads \ {t} : stack'[u] = stack[u]
      /\ Listed'
  <2>1. \A u \in OnceThreads \ {t} : stack'[u] = stack[u]
    BY <1>2 DEF OnceInv, OnceShape
  <2>2. \A u \in OnceThreads \ {t} : \A i \in Nat : Initialises(u, i)' => Initialises(u, i)
    BY <1>1, <2>1 DEF Initialises
  <2> QED BY <1>0, <1>1, <1>2, <2>2, Popped
<1> HIDE DEF l
<1>5. OnceShape'
  <2>1. \A u \in OnceThreads : oncePc'[u] = "idle" <=> stack'[u] = <<>>
    BY <1>1, <1>4 DEF OnceInv, OnceShape
  <2>2. done' \in [OnceThreads -> SUBSET Locations]
    BY <1>0, <1>2 DEF OnceInv, OnceShape
  <2>3. value' \in [Locations -> OnceThreads \cup {None}] /\ init_list' \subseteq Locations
    BY <1>0, <1>2 DEF OnceInv, OnceShape
  <2> QED BY <1>1, <1>2, <1>3, <1>4, <2>1, <2>2, <2>3, SMTT(30) DEF OnceInv, OnceShape
<1>6. Stored' BY <1>0, <1>2 DEF OnceInv, OnceShape, Stored
<1>7. \A m \in Locations : value[m] # None \/ m = l => value'[m] # None
  BY <1>0, <1>2 DEF OnceInv, OnceShape
<1>8. DoneStored' BY <1>0, <1>2, <1>7 DEF OnceInv, OnceShape, DoneStored
<1>9. SeenCurrent'
  <2>1. \A u \in OnceThreads : HasWaited(u)' => HasWaited(u) /\ u # t
    BY <1>1 DEF HasWaited
  <2> QED BY <1>1, <1>2, <1>3, <1>4, <2>1 DEF OnceInv, SeenCurrent, Inside
<1> QED BY <1>3, <1>4, <1>5, <1>6, <1>8, <1>9 DEF OnceInv

LEMMA OnceStep == OnceInv /\ [Location!Next]_onceVars => OnceInv'
<1> SUFFICES ASSUME OnceInv, [Location!Next]_onceVars PROVE OnceInv' OBVIOUS
<1>1. CASE UNCHANGED onceVars
  BY <1>1 DEF onceVars, OnceInv, OnceShape, OneInside, Listed, Initialises, Stored, DoneStored,
     SeenCurrent, HasWaited
<1>2. CASE Location!Next
  BY <1>2, StepCall, StepGetImpl, StepPutImpl, StepAcquire, StepEnter, StepRecheck, StepPublish,
     StepLeave
  DEF Location!Next, Location!Step
<1> QED BY <1>1, <1>2
-----------------------------------------------------------------------------
(* A step of the whole is one of each part, or leaves the part alone.      *)
LEMMA StepOfPart ==
    [AllNext]_allVars => /\ [Object!Next]_objectVars /\ [Location!Next]_onceVars
                         /\ [Spawn!Next]_spawnVars /\ [Memory!Next]_memVars
BY DEF AllNext, allVars, MutexNext, ObjectNext, OnceNext, PoolNext, SpawnNext, MemoryNext

(* The object is freed once, when its last reference is given up, for any  *)
(* number of references and any interleaving of ref() and unref().         *)
THEOREM ObjectFreedOnce == AllSpec => []FreedAtLastRef
<1>1. AllInit => ObjectInv BY ObjectStart DEF AllInit
<1>2. ObjectInv => FreedAtLastRef BY DEF ObjectInv
<1> QED BY <1>1, <1>2, StepOfPart, ObjectStep, PTL DEF AllSpec

(* a_once_init_enter() and a_once_impl() initialise each location once,    *)
(* whatever locations initialisers need, and nobody returns without it.    *)
THEOREM OnceOnly == AllSpec => []InitialisedOnce
<1>1. AllInit => OnceInv BY OnceStart DEF AllInit
<1>2. OnceInv => InitialisedOnce
  <2> SUFFICES ASSUME OnceInv, NEW l \in Locations
               PROVE  /\ begun[l] <= 1
                      /\ \A t \in OnceThreads : l \in done[t] => value[l] \in OnceThreads
                      /\ \A t \in OnceThreads :
                            oncePc[t] = "leave" /\ l = Head(stack[t]) => l \in init_list
    BY DEF InitialisedOnce, Location!InitialisedOnce
  <2>1. begun[l] \in {0, 1} BY DEF OnceInv, Stored
  <2>2. \A t \in OnceThreads : l \in done[t] => value[l] \in OnceThreads
    BY DEF OnceInv, OnceShape, DoneStored
  <2>3. ASSUME NEW t \in OnceThreads, oncePc[t] = "leave", l = Head(stack[t])
        PROVE  l \in init_list
    <3>1. Initialises(t, 1) /\ stack[t][1] = l
      BY <2>3, AtHead DEF Initialises, OnceInv, OneInside, Inside
    <3> QED BY <3>1 DEF OnceInv, Listed
  <2>4. begun[l] <= 1 BY <2>1
  <2> QED BY <2>2, <2>3, <2>4
<1> QED BY <1>1, <1>2, StepOfPart, OnceStep, PTL DEF AllSpec

(* The record that the spawner writes to belongs to a call that waits, and *)
(* a call that goes on has its thread.                                     *)
THEOREM SpawnerWritesToLiving == AllSpec => []RecordsAlive
<1>1. AllInit => SpawnInv BY SpawnStart DEF AllInit
<1>2. SpawnInv => RecordsAlive
  <2> SUFFICES ASSUME SpawnInv PROVE RecordsAlive OBVIOUS
  <2>1. \A i \in 1 .. Len(queue) : callPc[queue[i]] \in {"wait", "woken"}
    BY DEF SpawnInv, QueueWaits
  <2>2. DOMAIN queue = 1 .. Len(queue) BY DEF SpawnInv, SpawnShape
  <2>3. \A c \in Spawn!ToSet(queue) : callPc[c] \in {"wait", "woken"}
    BY <2>1, <2>2 DEF Spawn!ToSet
  <2>4. serving # None => callPc[serving] \in {"wait", "woken"}
    BY DEF SpawnInv, ServedWaits
  <2>5. \A c \in Calls : callPc[c] \in {"made", "done"} => thread[c] = c
    BY DEF SpawnInv, ReferencesCounted, CallCounted
  <2> QED BY <2>3, <2>4, <2>5 DEF RecordsAlive, Spawn!RecordsAlive, Calls
<1> QED BY <1>1, <1>2, StepOfPart, SpawnStep, PTL DEF AllSpec

(* An AThread is freed when both its maker and its thread have given up    *)
(* their references, and then the system thread is joined or detached.     *)
THEOREM ThreadFreedOnce == AllSpec => []ThreadGivenBack
<1>1. AllInit => SpawnInv BY SpawnStart DEF AllInit
<1>2. SpawnInv => ThreadGivenBack
  <2> SUFFICES ASSUME SpawnInv, NEW c \in Calls
               PROVE  /\ threadFreed[c] => life[c] = "gone" /\ callPc[c] = "done"
                      /\ life[c] = "gone" /\ callPc[c] = "done"
                            => threadFreed[c] /\ (joined[c] # detached[c])
    BY DEF ThreadGivenBack, Spawn!ThreadGivenBack, Calls
  <2>1. CallCounted(c) /\ joined[c] \in BOOLEAN /\ detached[c] \in BOOLEAN
    BY DEF SpawnInv, SpawnShape, ReferencesCounted
  <2>2. /\ threadFreed[c] <=> life[c] = "gone" /\ callPc[c] = "done"
        /\ detached[c] <=> threadFreed[c] /\ ~joined[c]
    BY <2>1 DEF CallCounted
  <2>3. threadFreed[c] => joined[c] # detached[c] BY <2>1, <2>2
  <2> QED BY <2>2, <2>3
<1> QED BY <1>1, <1>2, StepOfPart, SpawnStep, PTL DEF AllSpec

(* Memory in use is registered under its device and freed there, for any   *)
(* number of threads, addresses and devices, until the program aborts.     *)
THEOREM MemoryStaysRegistered == AllSpec => []MemoryRegistered
<1>1. AllInit => MemoryInv BY MemoryStart DEF AllInit
<1>2. MemoryInv => MemoryRegistered
  BY DEF MemoryInv, Handled, InMemory, MemoryRegistered, Memory!MemoryRegistered
<1> QED BY <1>1, <1>2, StepOfPart, MemoryStep, PTL DEF AllSpec
=============================================================================
