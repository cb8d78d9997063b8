------------------------- MODULE AThreadPool_proofs -------------------------
(***************************************************************************)
(* Proofs about the thread pool, for any threads, tasks, limits and sort   *)
(* function: numThreads is right; the pool is freed at most once, when no  *)
(* thread has it any more (IInv); each task is run once, and all of them   *)
(* before a pool that is not freed at once is gone (TInv).                 *)
(***************************************************************************)
EXTENDS AThreadPool, AQueue_proofs

Places == {"none", "enter", "pop", "run", "freeing", "spare"}

Shape == /\ pc \in [Workers -> Places]
         /\ opc \in {"new", "ready", "free", "wait", "woken", "clear", "done"}
         /\ requests \in Nat /\ freed \in Nat
         /\ pushing \in [Workers \cup {Owner} -> Tasks \cup {None}]

(* A push() is under way only in a task, or in an owner that does not free *)
(* the pool: it can start threads, so nobody clears the pool meanwhile.    *)
Pushers == /\ \A w \in Workers : pushing[w] # None => pc[w] = "run"
           /\ pushing[Owner] # None => opc = "ready"

(* free() ends running for good; while it waits the threads know that they *)
(* must not clear the pool; a thread that does clears it after free().     *)
OwnerPhase == /\ running <=> opc \in {"new", "ready", "free"}
              /\ opc \in {"wait", "woken"} => waiting
              /\ In("freeing") # {} => opc = "done"

IInv == Shape /\ Pushers /\ OwnerPhase /\ ThreadsCounted /\ FreedOnce

LEMMA FiniteWorkers ==
    \A S \in SUBSET Workers : IsFiniteSet(S) /\ Cardinality(S) \in Nat
  BY WorkersAssumption, FS_Subset, FS_CardinalityType

LEMMA FiniteParts ==
    /\ IsFiniteSet(Attached) /\ Cardinality(Attached) \in Nat
    /\ IsFiniteSet(In("freeing")) /\ Cardinality(In("freeing")) \in Nat
<1>1. Attached \subseteq Workers /\ In("freeing") \subseteq Workers
  BY DEF Attached, In
<1> QED
  BY <1>1, FiniteWorkers

LEMMA InitIInv == Init => IInv
<1> SUFFICES ASSUME Init PROVE IInv
  OBVIOUS
<1>1. In("freeing") = {} /\ Attached = {}
  BY DEF Init, In, Attached
<1>2. Shape
  BY DEF Init, Shape, Places
<1>3. Pushers
  BY DEF Init, Pushers
<1>4. OwnerPhase
  BY <1>1 DEF Init, OwnerPhase
<1>5. ThreadsCounted
  BY <1>1, FS_EmptySet DEF Init, ThreadsCounted
<1>6. FreedOnce
  <2>1. Clearing = 0
    <3>1. Cardinality(In("freeing")) = 0
      BY <1>1, FS_EmptySet
    <3>2. opc # "clear" /\ freed = 0
      BY DEF Init
    <3> QED
      BY <3>1, <3>2 DEF Clearing
  <2> QED
    BY <2>1 DEF FreedOnce, Init
<1> QED
  BY <1>2, <1>3, <1>4, <1>5, <1>6 DEF IInv
-----------------------------------------------------------------------------
(* One thread goes to another place.                                       *)
LEMMA Moves ==
    ASSUME Shape, NEW w \in Workers, NEW label \in Places,
           pc' = [pc EXCEPT ![w] = label]
    PROVE  /\ Attached' = IF label \in {"enter", "pop", "run"}
                          THEN Attached \cup {w} ELSE Attached \ {w}
           /\ In("freeing")' = IF label = "freeing" THEN In("freeing") \cup {w}
                               ELSE In("freeing") \ {w}
  BY DEF Shape, Places, Attached, In

(* startThread(): the threads that are started and the requests that are   *)
(* accepted are counted.                                                   *)
LEMMA ThreadsStarted ==
    ASSUME Shape, ThreadsCounted, NEW k, NEW max, StartThreads(k, max)
    PROVE  /\ ThreadsCounted'
           /\ pc' \in [Workers -> Places] /\ requests' \in Nat
           /\ In("freeing")' = In("freeing")
           /\ \A w \in Workers : pc[w] = "run" => pc'[w] = "run"
<1>1. PICK new \in SUBSET In("none"), reused \in 0 .. Cardinality(In("spare")) - requests :
           /\ numThreads' = numThreads + (Cardinality(new) + reused)
           /\ requests' = requests + reused
           /\ pc' = [w \in Workers |-> IF w \in new THEN "enter" ELSE pc[w]]
  BY DEF StartThreads
<1>2. new \subseteq Workers
  BY DEF In
<1>3. IsFiniteSet(new) /\ Cardinality(new) \in Nat /\ reused \in Nat /\ requests \in Nat
  <2>1. Cardinality(In("spare")) \in Nat
    BY FiniteWorkers DEF In
  <2> QED
    BY <1>2, <2>1, FiniteWorkers DEF Shape
<1>4. Attached' = Attached \cup new /\ Attached \cap new = {}
  BY <1>1, <1>2 DEF Shape, Places, Attached, In
<1>5. Cardinality(Attached') = Cardinality(Attached) + Cardinality(new)
  <2>1. Cardinality(Attached \cup new)
            = Cardinality(Attached) + Cardinality(new) - Cardinality(Attached \cap new)
    BY <1>3, FiniteParts, FS_Union
  <2>2. Cardinality(Attached \cap new) = 0
    BY <1>4, FS_EmptySet
  <2>3. Cardinality(Attached') = Cardinality(Attached \cup new)
    BY <1>4
  <2> QED
    BY <1>3, <2>1, <2>2, <2>3, FiniteParts
<1>6. ThreadsCounted'
  BY <1>1, <1>3, <1>5, FiniteParts DEF ThreadsCounted
<1>7. In("freeing")' = In("freeing")
  BY <1>1, <1>2 DEF Shape, In
<1>8. pc' \in [Workers -> Places] /\ \A w \in Workers : pc[w] = "run" => pc'[w] = "run"
  BY <1>1, <1>2 DEF Shape, Places, In
<1> QED
  BY <1>1, <1>3, <1>6, <1>7, <1>8

(* waitNewTask() and the pops: the thread goes on for the pool ...         *)
GoesOn(w) == /\ pc[w] \in {"enter", "pop"}
             /\ \/ pc' = [pc EXCEPT ![w] = "run"]
                \/ pc' = [pc EXCEPT ![w] = "pop"]
             /\ UNCHANGED <<numThreads, opc>>

(* ... or leaves it, and clears it or wakes its owner.                     *)
Leaves(w) == /\ pc[w] \in {"enter", "pop"}
             /\ numThreads' = numThreads - 1
             /\ \/ /\ ~running /\ ~waiting /\ numThreads = 1
                   /\ pc' = [pc EXCEPT ![w] = "freeing"]
                \/ pc' = [pc EXCEPT ![w] = "spare"]
             /\ opc' = opc \/ (opc = "wait" /\ opc' = "woken")

Looks(w) == WaitNewTask(w) \/ PopReturns(w) \/ PopTimesOut(w)

LEMMA LookKinds ==
    ASSUME Shape, ThreadsCounted, NEW w \in Workers, Looks(w)
    PROVE  /\ GoesOn(w) \/ Leaves(w)
           /\ UNCHANGED <<requests, running, waiting, freed, pushing>>
<1>0. numThreads \in Int /\ \A n \in Int : n - 1 = 0 => n = 1
  BY FiniteParts DEF ThreadsCounted, Shape
<1>1. ASSUME NEW q, LeavePool(w, q), pc[w] \in {"enter", "pop"} PROVE Leaves(w)
  BY <1>0, <1>1 DEF LeavePool, Leaves
<1>2. ASSUME TakeTask(w), pc[w] \in {"enter", "pop"} PROVE GoesOn(w) \/ Leaves(w)
  <2>1. CASE running \/ ~immediate
    BY <1>2, <2>1 DEF TakeTask, GoesOn
  <2>2. CASE ~(running \/ ~immediate)
    BY <1>1, <1>2, <2>2 DEF TakeTask
  <2> QED
    BY <2>1, <2>2
<1>3. GoesOn(w) \/ Leaves(w)
  <2>1. CASE WaitNewTask(w)
    BY <1>1, <1>2, <2>1 DEF WaitNewTask, GoesOn
  <2>2. CASE PopReturns(w)
    BY <1>2, <2>2 DEF PopReturns
  <2>3. CASE PopTimesOut(w)
    BY <1>1, <2>3 DEF PopTimesOut
  <2> QED
    BY <2>1, <2>2, <2>3 DEF Looks
<1>4. UNCHANGED <<requests, running, waiting, freed, pushing>>
  BY DEF Looks, WaitNewTask, PopReturns, PopTimesOut, UnchangedByWorkers
<1> QED
  BY <1>3, <1>4
-----------------------------------------------------------------------------
(* As long as a thread has the pool nobody clears it.                      *)
LEMMA NobodyClears ==
    ASSUME Shape, FreedOnce, Attached # {} \/ requests # 0 \/ running
    PROVE  Clearing = 0 /\ In("freeing") = {} /\ opc # "clear" /\ freed = 0
<1> DEFINE c == Cardinality(In("freeing"))
           d == IF opc = "clear" THEN 1 ELSE 0
<1>1. c \in Nat /\ d \in {0, 1} /\ freed \in Nat /\ Clearing = c + d + freed
  BY FiniteParts DEF Shape, Clearing
<1>2. Clearing = 0
  <2>1. Clearing <= 1 /\ Clearing # 1
    BY DEF FreedOnce
  <2> HIDE DEF c, d
  <2> QED
    BY <1>1, <2>1
<1>3. c = 0 /\ d = 0 /\ freed = 0
  <2> HIDE DEF c, d
  <2> QED
    BY <1>1, <1>2
<1> QED
  BY <1>2, <1>3, FiniteParts, FS_EmptySet

LEMMA ClearingKept ==
    ASSUME FreedOnce, UNCHANGED freed, In("freeing")' = In("freeing"),
           opc' = "clear" <=> opc = "clear",
           Clearing = 1 => Attached' = {} /\ requests' = 0 /\ ~running',
           freed = 1 => opc' = "done"
    PROVE  FreedOnce'
<1>1. Clearing' = Clearing
  BY DEF Clearing
<1> QED
  BY <1>1 DEF FreedOnce

(* The step that decides to clear the pool: the owner or the last thread.  *)
LEMMA ClearingBegins ==
    ASSUME Shape, FreedOnce, Clearing = 0, UNCHANGED freed, freed = 0,
           Clearing' = 1,
           Attached' = {}, requests' = 0, ~running'
    PROVE  FreedOnce'
  BY DEF FreedOnce

(* numThreads = 0: nobody has the pool.                                    *)
LEMMA NobodyAttached ==
    ASSUME Shape, ThreadsCounted, numThreads = 0
    PROVE  Attached = {} /\ requests = 0
<1>1. Cardinality(Attached) = 0 /\ requests = 0
  BY FiniteParts DEF ThreadsCounted, Shape
<1> QED
  BY <1>1, FiniteParts, FS_EmptySet

(* The last one to leave.                                                  *)
LEMMA LastAttached ==
    ASSUME Shape, ThreadsCounted, numThreads = 1, NEW w \in Attached
    PROVE  Attached = {w} /\ requests = 0
<1>1. Cardinality(Attached) # 0
  BY FiniteParts, FS_EmptySet
<1>2. Cardinality(Attached) = 1 /\ requests = 0
  BY <1>1, FiniteParts DEF ThreadsCounted, Shape
<1>3. Cardinality(Attached \ {w}) = 0 /\ IsFiniteSet(Attached \ {w})
  <2>1. Cardinality(Attached \ {w}) = Cardinality(Attached) - 1
    BY FiniteParts, FS_RemoveElement
  <2> QED
    BY <1>2, <2>1, FiniteParts, FS_RemoveElement
<1>4. Attached \ {w} = {}
  BY <1>3, FS_EmptySet
<1> QED
  BY <1>2, <1>4

LEMMA Disjoint ==
    ASSUME Shape, NEW w \in Workers, pc[w] \in {"enter", "pop", "run"}
    PROVE  w \in Attached /\ w \notin In("freeing")
  BY DEF Shape, Attached, In
-----------------------------------------------------------------------------
(* A thread that looks for a task.                                         *)
LEMMA LooksStep ==
    ASSUME IInv, NEW w \in Workers, Looks(w)
    PROVE  IInv'
<1>0. Shape /\ Pushers /\ OwnerPhase /\ ThreadsCounted /\ FreedOnce
  BY DEF IInv
<1>1. /\ GoesOn(w) \/ Leaves(w)
      /\ UNCHANGED <<requests, running, waiting, freed, pushing>>
  BY <1>0, LookKinds
<1> HIDE DEF Looks, IInv
<1>2. pc[w] \in {"enter", "pop"}
  BY <1>1 DEF GoesOn, Leaves
<1>3. /\ w \in Attached /\ w \notin In("freeing")
      /\ Clearing = 0 /\ In("freeing") = {} /\ opc # "clear" /\ freed = 0
  BY <1>0, <1>2, Disjoint, NobodyClears
<1>4. Shape' /\ Pushers'
  BY <1>0, <1>1, <1>2 DEF Shape, Pushers, Places, GoesOn, Leaves
<1>5. CASE GoesOn(w)
  <2>1. Attached' = Attached /\ In("freeing")' = In("freeing")
    BY <1>0, <1>3, <1>5, Moves DEF GoesOn, Places
  <2>2. ThreadsCounted'
    BY <1>0, <1>1, <1>5, <2>1 DEF ThreadsCounted, GoesOn
  <2>3. OwnerPhase'
    BY <1>0, <1>1, <1>5, <2>1 DEF OwnerPhase, GoesOn
  <2>4. FreedOnce'
    BY <1>0, <1>1, <1>3, <1>5, <2>1, ClearingKept DEF GoesOn
  <2> QED
    BY <1>4, <2>2, <2>3, <2>4 DEF IInv
<1>6. CASE Leaves(w)
  <2>1. Attached' = Attached \ {w}
    BY <1>0, <1>6, Moves DEF Leaves, Places
  <2>2. Cardinality(Attached') = Cardinality(Attached) - 1
    BY <1>3, <2>1, FiniteParts, FS_RemoveElement
  <2>3. ThreadsCounted'
    BY <1>0, <1>1, <1>6, <2>2, FiniteParts DEF ThreadsCounted, Leaves, Shape
  <2>4. CASE pc' = [pc EXCEPT ![w] = "spare"]
    <3>1. In("freeing")' = In("freeing")
      BY <1>0, <1>3, <2>4, Moves DEF Places
    <3>2. OwnerPhase'
      BY <1>0, <1>1, <1>3, <1>6, <3>1 DEF OwnerPhase, Leaves
    <3>3. FreedOnce'
      BY <1>0, <1>1, <1>3, <1>6, <3>1, ClearingKept DEF Leaves
    <3> QED
      BY <1>4, <2>3, <3>2, <3>3 DEF IInv
  <2>5. CASE ~running /\ ~waiting /\ numThreads = 1 /\ pc' = [pc EXCEPT ![w] = "freeing"]
    <3>1. In("freeing")' = {w}
      BY <1>0, <1>3, <2>5, Moves DEF Places
    <3>2. opc = "done" /\ opc' = "done"
      BY <1>0, <1>3, <1>6, <2>5 DEF OwnerPhase, Leaves, Shape
    <3>3. OwnerPhase'
      BY <1>1, <2>5, <3>2 DEF OwnerPhase
    <3>4. Attached' = {} /\ requests' = 0
      BY <1>0, <1>1, <1>3, <2>1, <2>5, LastAttached
    <3>5. Clearing' = 1
      <4>1. Cardinality(In("freeing")') = 1
        BY <3>1, FS_Singleton
      <4> QED
        BY <1>1, <1>3, <3>2, <4>1 DEF Clearing
    <3>6. FreedOnce'
      BY <1>0, <1>1, <1>3, <2>5, <3>4, <3>5, ClearingBegins
    <3> QED
      BY <1>4, <2>3, <3>3, <3>6 DEF IInv
  <2> QED
    BY <1>6, <2>4, <2>5 DEF Leaves
<1> QED
  BY <1>1, <1>5, <1>6

(* Threads are started only while nobody clears the pool.                  *)
LEMMA StartsStep ==
    ASSUME IInv, NEW k, NEW max, StartThreads(k, max) \/ NoThreadStarted,
           UNCHANGED <<running, waiting, freed>>,
           Attached # {} \/ running,
           opc' = opc \/ (opc = "new" /\ opc' = "ready"),
           Shape', Pushers'
    PROVE  IInv'
<1>0. Shape /\ OwnerPhase /\ ThreadsCounted /\ FreedOnce
  BY DEF IInv
<1>1. ThreadsCounted' /\ In("freeing")' = In("freeing")
  <2>1. CASE StartThreads(k, max)
    BY <1>0, <2>1, ThreadsStarted
  <2>2. CASE NoThreadStarted
    BY <1>0, <2>2 DEF NoThreadStarted, ThreadsCounted, Attached, In
  <2> QED
    BY <2>1, <2>2
<1>2. Clearing = 0 /\ opc # "clear" /\ freed = 0
  BY <1>0, NobodyClears
<1>3. FreedOnce'
  BY <1>0, <1>1, <1>2, ClearingKept
<1>4. OwnerPhase'
  BY <1>0, <1>1 DEF OwnerPhase
<1> QED
  BY <1>1, <1>3, <1>4 DEF IInv

(* The steps that start threads: the constructor, push() and               *)
(* setMaxThreads().                                                        *)
LEMMA StartersStep ==
    ASSUME IInv,
           Construct \/ (\E a \in Workers \cup {Owner} : PushLocked(a))
                     \/ (\E n \in MaxThreads : SetMaxThreads(n))
    PROVE  IInv'
<1>0. Shape /\ Pushers /\ OwnerPhase /\ ThreadsCounted /\ FreedOnce
  BY DEF IInv
<1>1. ASSUME NEW k, NEW max, StartThreads(k, max) \/ NoThreadStarted
      PROVE  /\ pc' \in [Workers -> Places] /\ requests' \in Nat
             /\ \A w \in Workers : pc[w] = "run" => pc'[w] = "run"
  BY <1>0, <1>1, ThreadsStarted DEF NoThreadStarted, Shape
<1>2. CASE Construct
  <2>1. PICK k, max : StartThreads(k, max) \/ NoThreadStarted
    BY <1>2 DEF Construct
  <2>2. /\ UNCHANGED <<running, waiting, freed, pushing>>
        /\ opc = "new" /\ opc' = "ready" /\ running
    BY <1>0, <1>2 DEF Construct, OwnerPhase
  <2>3. Shape' /\ Pushers'
    BY <1>0, <1>1, <2>1, <2>2 DEF Shape, Pushers
  <2> QED
    BY <2>1, <2>2, <2>3, StartsStep
<1>3. ASSUME NEW a \in Workers \cup {Owner}, PushLocked(a) PROVE IInv'
  <2>1. PICK k, max : StartThreads(k, max) \/ NoThreadStarted
    BY <1>3 DEF PushLocked
  <2>2. /\ UNCHANGED <<running, waiting, freed, opc>>
        /\ pushing' = [pushing EXCEPT ![a] = None] /\ pushing[a] # None
    BY <1>3 DEF PushLocked
  <2>3. Shape' /\ Pushers'
    BY <1>0, <1>1, <2>1, <2>2 DEF Shape, Pushers
  <2>4. Attached # {} \/ running
    BY <1>0, <2>2 DEF Pushers, OwnerPhase, Attached
  <2> QED
    BY <2>1, <2>2, <2>3, <2>4, StartsStep
<1>4. ASSUME NEW n \in MaxThreads, SetMaxThreads(n) PROVE IInv'
  <2>1. PICK k, max : StartThreads(k, max) \/ NoThreadStarted
    BY <1>4 DEF SetMaxThreads
  <2>2. UNCHANGED <<running, waiting, freed, pushing, opc>> /\ opc = "ready" /\ running
    BY <1>0, <1>4 DEF SetMaxThreads, OwnerReady, OwnerPhase
  <2>3. Shape' /\ Pushers'
    BY <1>0, <1>1, <2>1, <2>2 DEF Shape, Pushers
  <2> QED
    BY <2>1, <2>2, <2>3, StartsStep
<1> QED
  BY <1>2, <1>3, <1>4

(* A step that moves no thread and clears nothing.                         *)
LEMMA NothingMoves ==
    ASSUME IInv, UNCHANGED <<pc, requests, numThreads, running, waiting, freed>>,
           opc' = opc \/ (opc = "ready" /\ opc' = "free")
                      \/ (opc = "wait" /\ opc' = "woken"),
           Shape', Pushers'
    PROVE  IInv'
<1>0. Shape /\ OwnerPhase /\ ThreadsCounted /\ FreedOnce
  BY DEF IInv
<1>1. Attached' = Attached /\ In("freeing")' = In("freeing")
  BY DEF Attached, In
<1>2. ThreadsCounted'
  BY <1>0, <1>1 DEF ThreadsCounted
<1>3. OwnerPhase'
  BY <1>0, <1>1 DEF OwnerPhase
<1>4. FreedOnce'
  <2>1. Clearing = 1 => Attached' = {} /\ requests' = 0 /\ ~running'
    BY <1>0, <1>1 DEF FreedOnce
  <2>2. freed = 1 => opc' = "done"
    BY <1>0 DEF FreedOnce
  <2> QED
    BY <1>0, <1>1, <2>1, <2>2, ClearingKept
<1> QED
  BY <1>2, <1>3, <1>4 DEF IInv

(* free() with the mutex.                                                  *)
LEMMA FreeStep ==
    ASSUME IInv, FreeLocked \/ FreeWakes
    PROVE  IInv'
<1>0. Shape /\ Pushers /\ OwnerPhase /\ ThreadsCounted /\ FreedOnce
  BY DEF IInv
<1>1. /\ opc \in {"free", "woken"} /\ ~running'
      /\ UNCHANGED <<pc, pushing, requests, numThreads, freed>>
      /\ \/ opc' = "wait" /\ waiting'
         \/ opc' = "clear" /\ numThreads = 0
         \/ opc' = "done"
  BY <1>0 DEF FreeLocked, FreeWakes, FreeGoesOn, OwnerPhase, history
<1>2. Attached' = Attached /\ In("freeing")' = In("freeing")
  BY <1>1 DEF Attached, In
<1>3. In("freeing") = {} /\ freed = 0 /\ Clearing = 0
  <2>1. In("freeing") = {} /\ freed # 1 /\ opc # "clear"
    BY <1>0, <1>1 DEF OwnerPhase, FreedOnce
  <2>2. Clearing = freed
    BY <1>0, <2>1, FS_EmptySet DEF Clearing, Shape
  <2> QED
    BY <1>0, <2>1, <2>2 DEF FreedOnce, Shape
<1>4. Shape' /\ Pushers'
  BY <1>0, <1>1 DEF Shape, Pushers
<1>5. ThreadsCounted'
  BY <1>0, <1>1, <1>2 DEF ThreadsCounted
<1>6. OwnerPhase'
  BY <1>1, <1>2, <1>3 DEF OwnerPhase
<1>7. FreedOnce'
  <2>1. CASE opc' = "clear" /\ numThreads = 0
    <3>1. Attached' = {} /\ requests' = 0
      BY <1>0, <1>1, <1>2, <2>1, NobodyAttached
    <3>2. Clearing' = 1
      BY <1>1, <1>2, <1>3, <2>1, FS_EmptySet DEF Clearing
    <3> QED
      BY <1>0, <1>1, <1>3, <3>1, <3>2, ClearingBegins
  <2>2. CASE opc' # "clear"
    BY <1>0, <1>1, <1>2, <1>3, <2>2, ClearingKept
  <2> QED
    BY <1>1, <2>1, <2>2
<1> QED
  BY <1>4, <1>5, <1>6, <1>7 DEF IInv

(* The pool is cleared by the one who was to clear it.                     *)
LEMMA ClearedStep ==
    ASSUME IInv, InternalClear \/ (\E w \in Workers : FreePool(w))
    PROVE  IInv'
<1>0. Shape /\ Pushers /\ OwnerPhase /\ ThreadsCounted /\ FreedOnce
  BY DEF IInv
<1>1. /\ UNCHANGED <<requests, numThreads, running, waiting, pushing>>
      /\ freed' = freed + 1 /\ opc' = "done" /\ ~running
  <2>1. CASE InternalClear
    BY <1>0, <2>1 DEF InternalClear, Cleared, OwnerPhase
  <2>2. ASSUME NEW w \in Workers, FreePool(w)
        PROVE  /\ UNCHANGED <<requests, numThreads, running, waiting, pushing>>
               /\ freed' = freed + 1 /\ opc' = "done" /\ ~running
    <3>1. w \in In("freeing")
      BY <2>2 DEF FreePool, In
    <3> QED
      BY <1>0, <2>2, <3>1 DEF FreePool, Cleared, OwnerPhase
  <2> QED
    BY <2>1, <2>2
<1>2. Attached' = Attached /\ In("freeing")' \subseteq In("freeing") /\ Clearing' = Clearing
  <2>1. CASE InternalClear
    <3>1. UNCHANGED pc /\ opc = "clear"
      BY <2>1 DEF InternalClear
    <3>2. Attached' = Attached /\ In("freeing")' = In("freeing")
      BY <3>1 DEF Attached, In
    <3> QED
      BY <1>0, <1>1, <3>1, <3>2, FiniteParts DEF Clearing, Shape
  <2>2. ASSUME NEW w \in Workers, FreePool(w)
        PROVE  /\ Attached' = Attached /\ In("freeing")' \subseteq In("freeing")
               /\ Clearing' = Clearing
    <3>1. /\ w \in In("freeing") /\ w \notin Attached /\ UNCHANGED opc
          /\ pc' = [pc EXCEPT ![w] = "spare"]
      BY <2>2 DEF FreePool, In, Attached
    <3>2. Attached' = Attached /\ In("freeing")' = In("freeing") \ {w}
      <4>1. Attached' = Attached \ {w} /\ In("freeing")' = In("freeing") \ {w}
        BY <1>0, <3>1, Moves DEF Places
      <4> QED
        BY <3>1, <4>1
    <3>3. Cardinality(In("freeing")') = Cardinality(In("freeing")) - 1
      BY <3>1, <3>2, FiniteParts, FS_RemoveElement
    <3> QED
      BY <1>0, <1>1, <3>1, <3>2, <3>3, FiniteParts DEF Clearing, Shape
  <2> QED
    BY <2>1, <2>2
<1>3. Shape' /\ Pushers'
  <2>1. /\ pc' \in [Workers -> Places]
        /\ \A w \in Workers : pc[w] = "run" => pc'[w] = "run"
    BY <1>0 DEF InternalClear, FreePool, Shape, Places
  <2>2. opc # "ready"
    BY <1>0, <1>1 DEF OwnerPhase
  <2> QED
    BY <1>0, <1>1, <2>1, <2>2 DEF Shape, Pushers
<1>4. ThreadsCounted' /\ OwnerPhase'
  BY <1>0, <1>1, <1>2 DEF ThreadsCounted, OwnerPhase
<1>5. FreedOnce'
  BY <1>0, <1>1, <1>2 DEF FreedOnce
<1> QED
  BY <1>3, <1>4, <1>5 DEF IInv

(* The global pool, and a task that returns.                               *)
LEMMA ThreadStep ==
    ASSUME IInv, NEW w \in Workers,
           TaskReturns(w) \/ Serve(w) \/ Depart(w) \/ Arrive(w)
    PROVE  IInv'
<1>0. Shape /\ Pushers /\ OwnerPhase /\ ThreadsCounted /\ FreedOnce
  BY DEF IInv
<1>1. UNCHANGED <<numThreads, running, waiting, freed, opc, pushing>>
  BY DEF TaskReturns, Serve, Depart, Arrive, pool, history
<1>2. Shape' /\ Pushers'
  BY <1>0, <1>1 DEF TaskReturns, Serve, Depart, Arrive, Shape, Pushers, Places
<1>3. /\ In("freeing")' = In("freeing")
      /\ Cardinality(Attached') + requests' = Cardinality(Attached) + requests
      /\ Clearing = 1 => Attached' = {} /\ requests' = 0
  <2>0. Clearing = 1 => Attached = {} /\ requests = 0
    BY <1>0 DEF FreedOnce
  <2>1. CASE TaskReturns(w)
    <3>1. pc[w] = "run" /\ pc' = [pc EXCEPT ![w] = "enter"] /\ requests' = requests
      BY <2>1 DEF TaskReturns
    <3>2. w \in Attached /\ w \notin In("freeing")
      BY <1>0, <3>1, Disjoint
    <3>3. Attached' = Attached \cup {w} /\ In("freeing")' = In("freeing") \ {w}
      BY <1>0, <3>1, Moves DEF Places
    <3>4. Attached' = Attached /\ In("freeing")' = In("freeing")
      BY <3>2, <3>3
    <3> QED
      BY <2>0, <3>1, <3>4
  <2>2. CASE Serve(w)
    <3>1. /\ pc[w] = "spare" /\ pc' = [pc EXCEPT ![w] = "enter"]
          /\ requests > 0 /\ requests' = requests - 1
      BY <2>2 DEF Serve
    <3>2. w \notin Attached /\ w \notin In("freeing")
      BY <3>1 DEF Attached, In
    <3>3. Attached' = Attached \cup {w} /\ In("freeing")' = In("freeing") \ {w}
      BY <1>0, <3>1, Moves DEF Places
    <3>4. Cardinality(Attached') = Cardinality(Attached) + 1
      BY <3>2, <3>3, FiniteParts, FS_AddElement
    <3>5. In("freeing")' = In("freeing")
      BY <3>2, <3>3
    <3> QED
      BY <1>0, <2>0, <3>1, <3>4, <3>5, FiniteParts DEF Shape
  <2>3. CASE Depart(w) \/ Arrive(w)
    <3>1. /\ pc[w] \in {"spare", "none"} /\ requests' = requests
          /\ pc' = [pc EXCEPT ![w] = "none"] \/ pc' = [pc EXCEPT ![w] = "spare"]
      BY <2>3 DEF Depart, Arrive
    <3>2. w \notin Attached /\ w \notin In("freeing")
      BY <3>1 DEF Attached, In
    <3>3. Attached' = Attached \ {w} /\ In("freeing")' = In("freeing") \ {w}
      BY <1>0, <3>1, Moves DEF Places
    <3>4. Attached' = Attached /\ In("freeing")' = In("freeing")
      BY <3>2, <3>3
    <3> QED
      BY <2>0, <3>1, <3>4
  <2> QED
    BY <2>1, <2>2, <2>3
<1>4. ThreadsCounted'
  BY <1>0, <1>1, <1>3 DEF ThreadsCounted
<1>5. OwnerPhase'
  BY <1>0, <1>1, <1>3 DEF OwnerPhase
<1>6. FreedOnce'
  <2>1. Clearing = 1 => Attached' = {} /\ requests' = 0 /\ ~running'
    BY <1>0, <1>1, <1>3 DEF FreedOnce
  <2>2. freed = 1 => opc' = "done"
    BY <1>0, <1>1 DEF FreedOnce
  <2> QED
    BY <1>0, <1>1, <1>3, <2>1, <2>2, ClearingKept
<1> QED
  BY <1>2, <1>4, <1>5, <1>6 DEF IInv

(* The parts of push(), free() and of the rest that only the caller sees.  *)
LEMMA CallerStep ==
    ASSUME IInv,
           \/ \E a \in Workers \cup {Owner}, x \in Tasks : PushBegins(a, x)
           \/ \E on \in BOOLEAN : SetSortFunction(on)
           \/ \E now, wait \in BOOLEAN : FreeBegins(now, wait)
           \/ FreeInterrupted
    PROVE  IInv'
<1>0. Shape /\ Pushers
  BY DEF IInv
<1>1. ASSUME NEW a \in Workers \cup {Owner}, NEW x \in Tasks, PushBegins(a, x) PROVE IInv'
  <2>1. UNCHANGED <<pc, requests, numThreads, running, waiting, freed, opc>>
    BY <1>1 DEF PushBegins, pool
  <2>2. pushing' = [pushing EXCEPT ![a] = x] /\ (IF a = Owner THEN opc = "ready" ELSE pc[a] = "run")
    BY <1>1 DEF PushBegins
  <2>3. Shape' /\ Pushers'
    BY <1>0, <2>1, <2>2, WorkersAssumption DEF Shape, Pushers
  <2> QED
    BY <2>1, <2>3, NothingMoves
<1>2. ASSUME NEW on \in BOOLEAN, SetSortFunction(on) PROVE IInv'
  <2>1. UNCHANGED <<pc, requests, numThreads, running, waiting, freed, opc, pushing>>
    BY <1>2 DEF SetSortFunction, history
  <2>2. Shape' /\ Pushers'
    BY <1>0, <2>1 DEF Shape, Pushers
  <2> QED
    BY <2>1, <2>2, NothingMoves
<1>3. ASSUME NEW now \in BOOLEAN, NEW wait \in BOOLEAN, FreeBegins(now, wait) PROVE IInv'
  <2>1. /\ UNCHANGED <<pc, requests, numThreads, running, waiting, freed, pushing>>
        /\ opc = "ready" /\ opc' = "free" /\ pushing[Owner] = None
    BY <1>3 DEF FreeBegins, OwnerReady, pool, history
  <2>2. Shape' /\ Pushers'
    BY <1>0, <2>1 DEF Shape, Pushers
  <2> QED
    BY <2>1, <2>2, NothingMoves
<1>4. CASE FreeInterrupted
  <2>1. /\ UNCHANGED <<pc, requests, numThreads, running, waiting, freed, pushing>>
        /\ opc = "wait" /\ opc' = "woken"
    BY <1>4 DEF FreeInterrupted, pool, history
  <2>2. Shape' /\ Pushers'
    BY <1>0, <2>1 DEF Shape, Pushers
  <2> QED
    BY <2>1, <2>2, NothingMoves
<1> QED
  BY <1>1, <1>2, <1>3, <1>4
-----------------------------------------------------------------------------
THEOREM ThreadPoolInvariance == SafeSpec => []IInv
<1>1. IInv /\ [Next]_vars => IInv'
  <2> SUFFICES ASSUME IInv, [Next]_vars PROVE IInv'
    OBVIOUS
  <2>1. CASE OwnerStep
    BY <2>1, StartersStep, FreeStep, ClearedStep, CallerStep DEF OwnerStep
  <2>2. ASSUME NEW w \in Workers, WorkerStep(w) \/ Serve(w) \/ Depart(w) \/ Arrive(w)
        PROVE  IInv'
    BY <2>2, LooksStep, ThreadStep, StartersStep, ClearedStep, CallerStep
       DEF WorkerStep, Looks
  <2>3. CASE UNCHANGED vars
    BY <2>3 DEF vars, pool, history, IInv, Shape, Pushers, OwnerPhase, ThreadsCounted,
                FreedOnce, Clearing, Attached, In
  <2> QED
    BY <2>1, <2>2, <2>3 DEF Next
<1> QED
  BY <1>1, InitIInv, PTL DEF SafeSpec

(* startThread(), waitNewTask() and proxy_cb(): numThreads is the number   *)
(* of threads at work for the pool and of its requests in the global pool. *)
THEOREM PoolCountsThreads == SafeSpec => []ThreadsCounted
<1>1. IInv => ThreadsCounted
  BY DEF IInv
<1> QED
  BY <1>1, ThreadPoolInvariance, PTL

(* free(), proxy_cb() and internalClear(): no double free, and no thread   *)
(* or pending request is left when the pool is freed, whatever the tasks,  *)
(* the limits and the schedule.                                            *)
THEOREM PoolFreedOnce == SafeSpec => []FreedOnce
<1>1. IInv => FreedOnce
  BY DEF IInv
<1> QED
  BY <1>1, ThreadPoolInvariance, PTL
-----------------------------------------------------------------------------
(* The tasks: each is pushed by one caller at a time, is in the queue once *)
(* and not both in the queue and run.                                      *)
Items == Tasks \cup {Marker}

TaskState ==
    /\ queue \in Seq(Items) /\ Single(queue, Tasks)
    /\ task \in [Workers -> Tasks \cup {Marker, None}]
    /\ \A w \in Workers : pc[w] = "run" <=> task[w] # None
    /\ \A w \in Workers : pc[w] = "run" => task[w] \in Tasks
    /\ ran \in [Tasks -> {0, 1}]
    /\ accepted \subseteq offered /\ offered \subseteq Tasks
    /\ \A a \in Workers \cup {Owner} : pushing[a] # None => pushing[a] \in offered \ accepted
    /\ \A a, b \in Workers \cup {Owner} : pushing[a] # None /\ pushing[a] = pushing[b] => a = b
    /\ \A x \in Tasks : /\ x \in ToSet(queue) => x \in accepted /\ ran[x] = 0
                        /\ x \notin accepted => ran[x] = 0

(* The pointer 1 is in the queue only when the threads are told to stop.   *)
MarkersLate == Marker \in ToSet(queue) => opc = "done" /\ immediate /\ ~running

(* No task runs and none is left: nobody can push one any more.            *)
Calm == In("run") = {} /\ ToSet(queue) \subseteq {Marker}

(* If free() was told to let the tasks finish, then when the threads are   *)
(* told to stop, when free() returns after waiting, and when the pool is   *)
(* about to be cleared, all is calm.                                       *)
Graceful ==
    ~asked.immediate =>
        /\ immediate => opc = "done" /\ Calm
        /\ Waited => Calm
        /\ Clearing = 1 /\ maxThreads # 0 => ToSet(queue) \subseteq {Marker}
        /\ \A x \in accepted : x \in ToSet(queue) \/ ran[x] = 1

(* After a free() that has waited no thread will take a task.              *)
WaitedInv == Waited => In("run") = {} /\ (immediate \/ (Attached = {} /\ requests = 0))

Limits == /\ maxThreads \in Nat \cup {-1} /\ (immediate => ~running)
          /\ opc \in {"new", "ready"} => ~asked.immediate

TInv == TaskState /\ MarkersLate /\ Graceful /\ WaitedInv /\ Limits

LEMMA CompareType == compare_cb \in [Items -> Int]
  BY RankAssumption DEF compare_cb, Items

LEMMA EmptyItems == ToSet(<<>>) = {} /\ <<>> \in Seq(Items) /\ Single(<<>>, Tasks)
  BY DEF ToSet, Single

LEMMA TInit == Init => TInv
<1> SUFFICES ASSUME Init PROVE TInv
  OBVIOUS
<1>1. In("run") = {}
  BY DEF Init, In
<1>2. TaskState
  BY EmptyItems DEF Init, TaskState
<1>3. Graceful /\ WaitedInv
  <2>1. ~immediate /\ opc = "new" /\ freed = 0 /\ accepted = {} /\ queue = <<>>
    BY DEF Init
  <2> QED
    BY <2>1, EmptyItems DEF Graceful, WaitedInv, Waited
<1>4. MarkersLate /\ Limits
  BY EmptyItems, MaxThreadsAssumption DEF Init, MarkersLate, Limits
<1> QED
  BY <1>2, <1>3, <1>4 DEF TInv

(* Once all is calm after free(), nobody is in push().                     *)
LEMMA CalmPushes ==
    ASSUME IInv, In("run") = {}, opc # "ready"
    PROVE  \A a \in Workers \cup {Owner} : pushing[a] = None
  BY DEF IInv, Pushers, In

(* numThreads is the number of threads in pop() and the queue is empty: no *)
(* other thread has the pool.                                              *)
LEMMA AllInPop ==
    ASSUME Shape, TaskState, ThreadsCounted, NEW n \in Nat, NEW q \in Seq(Items),
           NEW P \in SUBSET Workers, NEW A \in SUBSET Workers, P \subseteq A,
           n = Cardinality(A) + requests, Len(q) - Cardinality(P) = -n
    PROVE  q = <<>> /\ A = P /\ requests = 0
<1>1. /\ IsFiniteSet(A) /\ IsFiniteSet(P) /\ Cardinality(P) \in Nat /\ Cardinality(A) \in Nat
      /\ Cardinality(P) <= Cardinality(A)
      /\ Cardinality(P) = Cardinality(A) => P = A
  BY FiniteWorkers, FS_Subset
<1>2. Len(q) \in Nat /\ requests \in Nat
  BY DEF Shape
<1>3. Len(q) = 0 /\ requests = 0 /\ Cardinality(P) = Cardinality(A)
  BY <1>1, <1>2
<1>4. q = <<>>
  BY <1>3
<1> QED
  BY <1>1, <1>3, <1>4

LEMMA AllWaiting ==
    ASSUME Shape, TaskState, ThreadsCounted, AllWait
    PROVE  queue = <<>> /\ In("run") = {} /\ requests = 0
<1>1. In("pop") \subseteq Attached /\ Attached \subseteq Workers /\ queue \in Seq(Items)
  BY DEF In, Attached, TaskState
<1>2. numThreads = Cardinality(Attached) + requests /\ numThreads \in Nat
  BY FiniteParts DEF ThreadsCounted, Shape
<1>3. Len(queue) - Cardinality(In("pop")) = -numThreads
  BY DEF AllWait, length
<1>4. queue = <<>> /\ Attached = In("pop") /\ requests = 0
  BY <1>1, <1>2, <1>3, AllInPop
<1>5. In("run") = {}
  BY <1>4 DEF In, Attached
<1> QED
  BY <1>4, <1>5
-----------------------------------------------------------------------------
LEMMA TasksSame ==
    ASSUME TaskState, UNCHANGED <<queue, task, ran, offered, accepted, pushing>>,
           \A w \in Workers : pc'[w] = "run" <=> pc[w] = "run"
    PROVE  TaskState'
  BY DEF TaskState

(* A step that adds nothing to the queue, runs no task, and tells nobody   *)
(* to stop.                                                                *)
LEMMA RestKept ==
    ASSUME TInv, In("run")' \subseteq In("run"), ToSet(queue') \subseteq ToSet(queue),
           UNCHANGED <<immediate, running, asked>>, opc = "done" => opc' = "done",
           Waited' => Waited /\ (Attached = {} /\ requests = 0 => Attached' = {} /\ requests' = 0),
           ~asked.immediate /\ Clearing' = 1 /\ maxThreads' # 0 => ToSet(queue') \subseteq {Marker},
           ~asked.immediate => \A x \in accepted' : x \in ToSet(queue') \/ ran'[x] = 1
    PROVE  MarkersLate' /\ Graceful' /\ WaitedInv'
<1>1. Calm => Calm'
  BY DEF Calm
<1>2. MarkersLate'
  BY DEF TInv, MarkersLate
<1>3. Graceful'
  BY <1>1 DEF TInv, Graceful
<1>4. WaitedInv'
  BY DEF TInv, WaitedInv
<1> QED
  BY <1>2, <1>3, <1>4

(* While a thread has the pool, or before free().                          *)
LEMMA StillUsed ==
    ASSUME IInv, Attached # {} \/ requests # 0 \/ running, UNCHANGED freed,
           In("freeing")' = In("freeing"), opc' # "clear"
    PROVE  Clearing' = 0
<1>1. In("freeing") = {} /\ freed = 0
  BY NobodyClears DEF IInv
<1> QED
  BY <1>1, FS_EmptySet DEF Clearing

LEMMA StartedTasks ==
    ASSUME Shape, NEW k, NEW max, StartThreads(k, max) \/ NoThreadStarted
    PROVE  /\ \A w \in Workers : pc'[w] = "run" <=> pc[w] = "run"
           /\ In("run")' = In("run") /\ In("freeing")' = In("freeing")
<1>1. CASE StartThreads(k, max)
  <2>1. PICK new \in SUBSET In("none") :
           pc' = [w \in Workers |-> IF w \in new THEN "enter" ELSE pc[w]]
    BY <1>1 DEF StartThreads
  <2> QED
    BY <2>1 DEF Shape, In
<1>2. CASE NoThreadStarted
  BY <1>2 DEF NoThreadStarted, In
<1> QED
  BY <1>1, <1>2

LEMMA TStarters ==
    ASSUME IInv, TInv, Construct \/ \E n \in MaxThreads : SetMaxThreads(n)
    PROVE  TInv'
<1>1. PICK k, max : StartThreads(k, max) \/ NoThreadStarted
  BY DEF Construct, SetMaxThreads
<1>2. /\ UNCHANGED <<queue, task, ran, offered, accepted, pushing, immediate, running, asked, freed>>
      /\ opc \in {"new", "ready"} /\ opc' = "ready" /\ running
      /\ maxThreads' \in Nat \cup {-1}
  BY MaxThreadsAssumption DEF Construct, SetMaxThreads, OwnerReady, IInv, OwnerPhase, TInv, Limits
<1>3. /\ \A w \in Workers : pc'[w] = "run" <=> pc[w] = "run"
      /\ In("run")' = In("run") /\ In("freeing")' = In("freeing")
  BY <1>1, StartedTasks DEF IInv
<1>4. TaskState'
  BY <1>2, <1>3, TasksSame DEF TInv
<1>5. Clearing' = 0
  BY <1>2, <1>3, StillUsed
<1>6. MarkersLate' /\ Graceful' /\ WaitedInv'
  <2>1. ~Waited'
    BY <1>2 DEF Waited
  <2>2. ~asked.immediate => \A x \in accepted' : x \in ToSet(queue') \/ ran'[x] = 1
    BY <1>2 DEF TInv, Graceful
  <2> QED
    BY <1>2, <1>3, <1>5, <2>1, <2>2, RestKept
<1>7. Limits'
  BY <1>2 DEF TInv, Limits
<1> QED
  BY <1>4, <1>6, <1>7 DEF TInv

(* push(): the task is new in the queue.                                   *)
LEMMA TPushLocked ==
    ASSUME IInv, TInv, NEW a \in Workers \cup {Owner}, PushLocked(a)
    PROVE  TInv'
<1> DEFINE x == pushing[a]
<1>1. PICK k, max : StartThreads(k, max) \/ NoThreadStarted
  BY DEF PushLocked
<1>2. /\ x # None /\ x \in Tasks /\ x # Marker
      /\ queue' = (IF sorted THEN InsertSorted(queue, x, compare_cb) ELSE PushHead(queue, x))
      /\ accepted' = accepted \cup {x} /\ pushing' = [pushing EXCEPT ![a] = None]
      /\ UNCHANGED <<task, ran, offered, immediate, running, asked, freed, opc, maxThreads>>
  BY TasksAssumption DEF PushLocked, IInv, Shape
<1>3. /\ \A w \in Workers : pc'[w] = "run" <=> pc[w] = "run"
      /\ In("run")' = In("run") /\ In("freeing")' = In("freeing")
  BY <1>1, StartedTasks DEF IInv
<1>4. x \in offered \ accepted /\ x \notin ToSet(queue)
  BY <1>2 DEF TInv, TaskState
<1>5. /\ ToSet(queue') = ToSet(queue) \cup {x} /\ Single(queue', Tasks)
      /\ queue' \in Seq(Items)
  <2>1. x \in Items /\ queue \in Seq(Items) /\ Single(queue, Tasks)
    BY <1>2 DEF Items, TInv, TaskState
  <2> HIDE DEF x
  <2>2. CASE sorted
    BY <1>2, <1>4, <2>1, <2>2, CompareType, InsertSortedItems, InsertSortedShape
  <2>3. CASE ~sorted
    BY <1>2, <1>4, <2>1, <2>3, PushHeadItems, PushHeadShape
  <2> QED
    BY <2>2, <2>3
<1>6. pushing \in [Workers \cup {Owner} -> Tasks \cup {None}]
  BY DEF IInv, Shape
<1>7. TaskState'
  <2>1. /\ \A b \in Workers \cup {Owner} : pushing'[b] # None => pushing'[b] \in offered \ accepted'
        /\ \A b, c \in Workers \cup {Owner} :
              pushing'[b] # None /\ pushing'[b] = pushing'[c] => b = c
    BY <1>2, <1>6 DEF TInv, TaskState
  <2>2. \A y \in Tasks : /\ y \in ToSet(queue') => y \in accepted' /\ ran[y] = 0
                         /\ y \notin accepted' => ran[y] = 0
    BY <1>2, <1>4, <1>5 DEF TInv, TaskState
  <2>3. /\ task \in [Workers -> Tasks \cup {Marker, None}]
        /\ \A w \in Workers : pc'[w] = "run" <=> task[w] # None
        /\ \A w \in Workers : pc'[w] = "run" => task[w] \in Tasks
        /\ ran \in [Tasks -> {0, 1}] /\ accepted' \subseteq offered /\ offered \subseteq Tasks
    BY <1>2, <1>3, <1>4 DEF TInv, TaskState
  <2> HIDE DEF x
  <2> QED
    BY <1>2, <1>5, <2>1, <2>2, <2>3 DEF TaskState
<1>8. opc = "ready" \/ In("run") # {}
  BY <1>2, CalmPushes
<1>9. ~(asked.immediate = FALSE /\ immediate) /\ ~Waited /\ ~Waited'
  <2>1. ~Waited
    BY <1>8 DEF TInv, WaitedInv, Waited
  <2>2. opc # "ready" \/ ~(immediate /\ ~asked.immediate)
    BY DEF TInv, Graceful
  <2>3. ~asked.immediate /\ immediate => In("run") = {} /\ opc = "done"
    BY DEF TInv, Graceful, Calm
  <2> QED
    BY <1>2, <1>8, <2>1, <2>3 DEF Waited
<1>10. Clearing' = 0
  <2>1. Attached # {} \/ running
    BY <1>8 DEF IInv, OwnerPhase, Attached, In
  <2>2. opc # "clear"
    BY <2>1, NobodyClears DEF IInv
  <2> QED
    BY <1>2, <1>3, <2>1, <2>2, StillUsed
<1>11. Graceful'
  <2>1. ~asked.immediate => \A y \in accepted' : y \in ToSet(queue') \/ ran'[y] = 1
    BY <1>2, <1>5 DEF TInv, Graceful
  <2> QED
    BY <1>2, <1>9, <1>10, <2>1 DEF Graceful
<1>12. MarkersLate' /\ WaitedInv' /\ Limits'
  BY <1>2, <1>5, <1>9 DEF TInv, MarkersLate, WaitedInv, Limits
<1> QED
  BY <1>7, <1>11, <1>12 DEF TInv
-----------------------------------------------------------------------------
(* wakeupAndStopAll(): the pointer 1, n times, at the head of the queue.   *)
LEMMA MarkersItems ==
    ASSUME NEW n \in Nat, NEW q \in Seq(Items), Single(q, Tasks)
    PROVE  /\ Markers(n) \o q \in Seq(Items) /\ Single(Markers(n) \o q, Tasks)
           /\ ToSet(q) \subseteq ToSet(Markers(n) \o q)
           /\ ToSet(Markers(n) \o q) \subseteq ToSet(q) \cup {Marker}
<1> DEFINE m == Markers(n)
           s == m \o q
<1>1. m \in Seq(Items) /\ Len(m) = n /\ \A i \in 1 .. n : m[i] = Marker
  BY DEF Markers, Items
<1>2. Len(q) \in Nat
  OBVIOUS
<1>3. /\ s \in Seq(Items) /\ Len(s) = n + Len(q)
      /\ \A i \in 1 .. n + Len(q) : s[i] = IF i <= n THEN m[i] ELSE q[i - n]
  <2> HIDE DEF m
  <2>1. /\ s \in Seq(Items) /\ Len(s) = Len(m) + Len(q)
        /\ \A i \in 1 .. Len(m) + Len(q) : s[i] = IF i <= Len(m) THEN m[i] ELSE q[i - Len(m)]
    BY <1>1, ConcatProperties
  <2> QED
    BY <1>1, <2>1
<1> HIDE DEF s, m
<1>4. ASSUME NEW i \in 1 .. Len(s)
      PROVE  s[i] = Marker \/ (i > n /\ i - n \in 1 .. Len(q) /\ s[i] = q[i - n])
  <2>1. CASE i <= n
    BY <1>1, <1>2, <1>3, <2>1
  <2>2. CASE ~(i <= n)
    BY <1>2, <1>3, <2>2
  <2> QED
    BY <2>1, <2>2
<1>5. Single(s, Tasks)
  <2>1. SUFFICES ASSUME NEW i \in 1 .. Len(s), NEW j \in 1 .. Len(s), s[i] = s[j], s[i] \in Tasks
                 PROVE  i = j
    BY DEF Single
  <2>2. /\ i - n \in 1 .. Len(q) /\ s[i] = q[i - n]
        /\ j - n \in 1 .. Len(q) /\ s[j] = q[j - n]
    BY <1>4, <2>1, TasksAssumption
  <2>3. i - n = j - n
    BY <2>1, <2>2 DEF Single
  <2> QED
    BY <1>3, <2>3
<1>6. ASSUME NEW z \in ToSet(q) PROVE z \in ToSet(s)
  <2>1. PICK i \in 1 .. Len(q) : q[i] = z
    BY InToSet
  <2>2. i + n \in 1 .. Len(s) /\ ~(i + n <= n) /\ (i + n) - n = i
    BY <1>2, <1>3
  <2>3. s[i + n] = z
    BY <1>3, <2>1, <2>2
  <2> QED
    BY <1>3, <2>2, <2>3, InToSet
<1>7. ASSUME NEW z \in ToSet(s) PROVE z \in ToSet(q) \cup {Marker}
  <2>1. PICK i \in 1 .. Len(s) : s[i] = z
    BY <1>3, InToSet
  <2> QED
    BY <1>4, <2>1, InToSet
<1> QED
  BY <1>3, <1>5, <1>6, <1>7 DEF s, m

(* proxy_cb(): what becomes of the queue when thread w leaves the pool and *)
(* q was left in it.                                                       *)
LEMMA LeaveKinds ==
    ASSUME IInv, TInv, NEW w \in Workers, pc[w] \in {"enter", "pop"}, NEW q \in Seq(Items),
           Single(q, Tasks), LeavePool(w, q), UNCHANGED <<running, freed, requests, asked, waiting>>
    PROVE  /\ opc' = opc \/ (opc = "wait" /\ opc' = "woken")
           /\ In("run")' = In("run") /\ \A v \in Workers : pc'[v] = "run" <=> pc[v] = "run"
           /\ queue' \in Seq(Items) /\ Single(queue', Tasks)
           /\ ToSet(q) \subseteq ToSet(queue')
           /\ \/ queue' = q /\ UNCHANGED immediate
              \/ /\ immediate' /\ ~running /\ opc = "done"
                 /\ In("run") = {} /\ ToSet(queue') \subseteq {Marker}
           /\ Clearing' # 0 => numThreads = 1 /\ ~running /\ queue' = q
<1>0. Shape /\ OwnerPhase /\ ThreadsCounted /\ FreedOnce /\ TaskState
  BY DEF IInv, TInv
<1>1. /\ w \in Attached /\ w \notin In("freeing")
      /\ In("freeing") = {} /\ opc # "clear" /\ freed = 0
  BY <1>0, Disjoint, NobodyClears
<1> DEFINE A == Attached \ {w}
           P == In("pop") \ {w}
<1>2. /\ A \in SUBSET Workers /\ P \in SUBSET Workers /\ P \subseteq A
      /\ Cardinality(A) \in Nat /\ requests \in Nat
      /\ numThreads - 1 = Cardinality(A) + requests
  <2>1. Cardinality(A) = Cardinality(Attached) - 1
    BY <1>1, FiniteParts, FS_RemoveElement
  <2>2. A \in SUBSET Workers /\ P \in SUBSET Workers /\ P \subseteq A
    BY DEF Attached, In
  <2>3. Cardinality(A) \in Nat
    BY <2>2, FiniteWorkers
  <2> QED
    BY <1>0, <2>1, <2>2, <2>3, FiniteParts DEF ThreadsCounted, Shape
<1>3. numThreads - 1 \in Nat /\ numThreads \in Int
  BY <1>0, <1>2, FiniteParts DEF ThreadsCounted, Shape
<1>4. opc' = opc \/ (opc = "wait" /\ opc' = "woken")
  BY DEF LeavePool
<1>5. /\ pc' = [pc EXCEPT ![w] = IF ~running /\ ~waiting /\ numThreads - 1 = 0
                                 THEN "freeing" ELSE "spare"]
      /\ IF ~running /\ ~waiting /\ numThreads - 1 # 0 /\ Len(q) - Cardinality(P) = -(numThreads - 1)
         THEN immediate' = TRUE /\ queue' = Markers(numThreads - 1) \o q
         ELSE UNCHANGED immediate /\ queue' = q
  BY DEF LeavePool
<1> DEFINE told == ~running /\ ~waiting /\ numThreads - 1 # 0 /\ Len(q) - Cardinality(P) = -(numThreads - 1)
<1>6. In("run")' = In("run") /\ \A v \in Workers : pc'[v] = "run" <=> pc[v] = "run"
  BY <1>0, <1>5 DEF In, Shape
<1>7. Clearing' # 0 => numThreads = 1 /\ ~running /\ ~told
  <2>1. CASE ~running /\ ~waiting /\ numThreads - 1 = 0
    BY <1>3, <2>1
  <2>2. CASE ~(~running /\ ~waiting /\ numThreads - 1 = 0)
    <3>1. pc' = [pc EXCEPT ![w] = "spare"]
      BY <1>5, <2>2
    <3>2. In("freeing")' = {}
      BY <1>0, <1>1, <3>1, Moves DEF Places
    <3>3. opc' # "clear" /\ freed' = 0
      BY <1>1, <1>4
    <3>4. Cardinality(In("freeing")') = 0
      BY <3>2, FS_EmptySet
    <3>5. Clearing' = 0
      BY <3>3, <3>4 DEF Clearing
    <3> QED
      BY <3>5
  <2> QED
    BY <2>1, <2>2
<1>8. CASE told
  <2>1. opc = "done"
    BY <1>0, <1>1, <1>8 DEF OwnerPhase, Shape
  <2>2. q = <<>> /\ A = P
    <3>1. \E n \in Nat : n = numThreads - 1
      BY <1>3
    <3>2. PICK n \in Nat : n = numThreads - 1
      BY <3>1
    <3>3. n = Cardinality(A) + requests /\ Len(q) - Cardinality(P) = -n
      BY <1>2, <1>8, <3>2
    <3> HIDE DEF A, P, told
    <3> QED
      BY <1>0, <1>2, <3>3, AllInPop
  <2>3. In("run") = {}
    BY <2>2 DEF Attached, In
  <2>4. immediate' /\ queue' = Markers(numThreads - 1) \o q
    BY <1>5, <1>8
  <2>5. /\ queue' \in Seq(Items) /\ Single(queue', Tasks) /\ ToSet(q) \subseteq ToSet(queue')
        /\ ToSet(queue') \subseteq ToSet(q) \cup {Marker}
    BY <1>3, <2>4, MarkersItems
  <2>6. ToSet(queue') \subseteq {Marker}
    BY <2>2, <2>5, EmptyItems
  <2> QED
    BY <1>4, <1>6, <1>7, <1>8, <2>1, <2>3, <2>4, <2>5, <2>6
<1>9. CASE ~told
  <2>1. UNCHANGED immediate /\ queue' = q
    BY <1>5, <1>9
  <2> QED
    BY <1>4, <1>6, <1>7, <2>1
<1> QED
  BY <1>8, <1>9

LEMMA LeaveStep ==
    ASSUME IInv, TInv, NEW w \in Workers, pc[w] \in {"enter", "pop"}, NEW q \in Seq(Items),
           Single(q, Tasks), ToSet(q) \subseteq ToSet(queue),
           q = queue \/ (~running /\ immediate),
           numThreads = 1 /\ ~running /\ ~asked.immediate /\ maxThreads # 0
               => ToSet(q) \subseteq {Marker},
           LeavePool(w, q), UNCHANGED <<task, ran>>, UnchangedByWorkers
    PROVE  TInv'
<1>0. TaskState /\ MarkersLate /\ Graceful /\ WaitedInv /\ Limits
  BY DEF TInv
<1>1. UNCHANGED <<running, freed, requests, asked, waiting, task, ran, offered, accepted,
                  pushing, maxThreads>>
  BY DEF UnchangedByWorkers
<1>2. /\ opc' = opc \/ (opc = "wait" /\ opc' = "woken")
      /\ In("run")' = In("run") /\ \A v \in Workers : pc'[v] = "run" <=> pc[v] = "run"
      /\ queue' \in Seq(Items) /\ Single(queue', Tasks)
      /\ ToSet(q) \subseteq ToSet(queue')
      /\ \/ queue' = q /\ UNCHANGED immediate
         \/ /\ immediate' /\ ~running /\ opc = "done"
            /\ In("run") = {} /\ ToSet(queue') \subseteq {Marker}
      /\ Clearing' # 0 => numThreads = 1 /\ ~running /\ queue' = q
  BY <1>1, LeaveKinds
<1>3. opc # "clear" /\ w \in Attached
  <2>1. w \in Attached
    BY DEF Attached
  <2> QED
    BY <2>1, NobodyClears DEF IInv
<1>4. \A x \in Tasks : x \in ToSet(queue') => x \in ToSet(queue)
  BY <1>2, TasksAssumption
<1>5. TaskState'
  <2>1. \A x \in Tasks : /\ x \in ToSet(queue') => x \in accepted' /\ ran'[x] = 0
                         /\ x \notin accepted' => ran'[x] = 0
    BY <1>0, <1>1, <1>4 DEF TaskState
  <2>2. /\ task' \in [Workers -> Tasks \cup {Marker, None}]
        /\ \A v \in Workers : pc'[v] = "run" <=> task'[v] # None
        /\ \A v \in Workers : pc'[v] = "run" => task'[v] \in Tasks
        /\ ran' \in [Tasks -> {0, 1}]
        /\ accepted' \subseteq offered' /\ offered' \subseteq Tasks
    BY <1>0, <1>1, <1>2 DEF TaskState
  <2>3. /\ \A a \in Workers \cup {Owner} : pushing'[a] # None => pushing'[a] \in offered' \ accepted'
        /\ \A a, b \in Workers \cup {Owner} :
              pushing'[a] # None /\ pushing'[a] = pushing'[b] => a = b
    BY <1>0, <1>1 DEF TaskState
  <2> QED
    BY <1>2, <2>1, <2>2, <2>3 DEF TaskState
<1>6. MarkersLate' /\ Limits'
  <2>1. opc = "done" => opc' = "done"
    BY <1>2
  <2>2. MarkersLate'
    BY <1>0, <1>1, <1>2, <2>1 DEF MarkersLate
  <2>3. (opc' = opc \/ opc' = "woken") /\ (immediate' => ~running)
    BY <1>0, <1>2 DEF Limits
  <2>4. Limits'
    BY <1>0, <1>1, <2>3 DEF Limits
  <2> QED
    BY <2>2, <2>4
<1>7. Waited' => Waited
  <2>1. (opc' = opc \/ opc' = "woken") /\ asked' = asked
    BY <1>1, <1>2
  <2> QED
    BY <2>1 DEF Waited
<1>8. WaitedInv'
  <2>1. Waited => In("run") = {} /\ immediate
    BY <1>0, <1>3 DEF WaitedInv
  <2>2. (immediate => immediate') /\ In("run")' = In("run")
    BY <1>2
  <2>3. Waited' => In("run")' = {} /\ immediate'
    BY <1>7, <2>1, <2>2
  <2> QED
    BY <2>3 DEF WaitedInv
<1>9. ASSUME ~asked.immediate PROVE Calm => Calm'
  BY <1>2 DEF Calm
<1>10. ASSUME ~asked.immediate, NEW x \in accepted PROVE x \in ToSet(queue') \/ ran[x] = 1
  <2>1. x \in Tasks /\ (x \in ToSet(queue) \/ ran[x] = 1)
    BY <1>0, <1>10 DEF TaskState, Graceful
  <2>2. CASE q = queue
    BY <1>2, <2>1, <2>2
  <2>3. CASE immediate
    BY <1>0, <1>10, <2>1, <2>3, TasksAssumption DEF Graceful, Calm
  <2> QED
    BY <2>2, <2>3
<1>11. ASSUME ~asked.immediate PROVE immediate' => opc' = "done" /\ Calm'
  BY <1>0, <1>2, <1>9, <1>11 DEF Graceful, Calm
<1>12. ASSUME ~asked.immediate PROVE Waited' => Calm'
  BY <1>0, <1>7, <1>9, <1>12 DEF Graceful
<1>13. ASSUME ~asked.immediate, Clearing' = 1, maxThreads # 0 PROVE ToSet(queue') \subseteq {Marker}
  BY <1>2, <1>13
<1>14. Graceful'
  BY <1>1, <1>10, <1>11, <1>12, <1>13 DEF Graceful
<1> QED
  BY <1>5, <1>6, <1>8, <1>14 DEF TInv

(* A thread takes a task, or drops it and leaves.                          *)
LEMMA TakeStep ==
    ASSUME IInv, TInv, NEW w \in Workers, pc[w] \in {"enter", "pop"}, TakeTask(w),
           UnchangedByWorkers
    PROVE  TInv'
<1> DEFINE x == Last(queue)
<1>0. TaskState /\ MarkersLate /\ Graceful /\ WaitedInv /\ Limits /\ Shape
  BY DEF TInv, IInv
<1>1. UNCHANGED <<running, freed, requests, asked, waiting, offered, accepted,
                  pushing, maxThreads>>
  BY DEF UnchangedByWorkers
<1>2. /\ queue \in Seq(Items) /\ queue # <<>> /\ Single(queue, Tasks)
      /\ Front(queue) \in Seq(Items) /\ x \in Items
      /\ ToSet(queue) = ToSet(Front(queue)) \cup {x}
      /\ Single(Front(queue), Tasks) /\ (x \in Tasks => x \notin ToSet(Front(queue)))
  <2>1. queue \in Seq(Items) /\ Single(queue, Tasks) /\ queue # <<>>
    BY <1>0 DEF TaskState, TakeTask
  <2> QED
    BY <2>1, FrontShape, FrontItems
<1> HIDE DEF x
<1>3. CASE running \/ ~immediate
  <2>1. x \in Tasks /\ x \in ToSet(queue)
    BY <1>0, <1>2, <1>3 DEF MarkersLate, Items
  <2>2. /\ queue' = Front(queue) /\ pc' = [pc EXCEPT ![w] = "run"]
        /\ task' = [task EXCEPT ![w] = x] /\ ran' = [ran EXCEPT ![x] = ran[x] + 1]
        /\ UNCHANGED <<numThreads, immediate, opc>>
    BY <1>3, <2>1 DEF TakeTask, x
  <2>3. ran[x] = 0 /\ x \in accepted
    BY <1>0, <2>1 DEF TaskState
  <2>4. ran' \in [Tasks -> {0, 1}] /\ ran'[x] = 1 /\ \A y \in Tasks : y # x => ran'[y] = ran[y]
    <3>1. ran \in [Tasks -> {0, 1}] /\ ran' = [ran EXCEPT ![x] = 1]
      BY <1>0, <2>2, <2>3 DEF TaskState
    <3> QED
      BY <2>1, <3>1
  <2>5. TaskState'
    <3>1. \A y \in Tasks : /\ y \in ToSet(queue') => y \in accepted' /\ ran'[y] = 0
                           /\ y \notin accepted' => ran'[y] = 0
      BY <1>0, <1>1, <1>2, <2>1, <2>2, <2>3, <2>4 DEF TaskState
    <3>2. /\ task' \in [Workers -> Tasks \cup {Marker, None}]
          /\ \A v \in Workers : pc'[v] = "run" <=> task'[v] # None
          /\ \A v \in Workers : pc'[v] = "run" => task'[v] \in Tasks
      BY <1>0, <2>1, <2>2, TasksAssumption DEF TaskState, Shape
    <3>3. accepted' \subseteq offered' /\ offered' \subseteq Tasks
      BY <1>0, <1>1 DEF TaskState
    <3>4. /\ \A a \in Workers \cup {Owner} : pushing'[a] # None => pushing'[a] \in offered' \ accepted'
          /\ \A a, b \in Workers \cup {Owner} :
                pushing'[a] # None /\ pushing'[a] = pushing'[b] => a = b
      BY <1>0, <1>1 DEF TaskState
    <3> QED
      BY <1>2, <2>2, <2>4, <3>1, <3>2, <3>3, <3>4 DEF TaskState
  <2>6. w \in Attached /\ opc # "clear" /\ In("freeing") = {}
    <3>1. w \in Attached
      BY DEF Attached
    <3> QED
      BY <3>1, NobodyClears DEF IInv
  <2>7. ~Waited' /\ (~asked.immediate => ~immediate)
    BY <1>0, <1>1, <1>3, <2>2, <2>6 DEF WaitedInv, Waited, Limits
  <2>8. Clearing' = 0
    <3>1. In("freeing")' = In("freeing")
      BY <1>0, <2>2, <2>6, Moves DEF Places
    <3> QED
      BY <1>1, <2>2, <2>6, <3>1, StillUsed
  <2>9. ~asked.immediate => \A y \in accepted : y \in ToSet(queue') \/ ran'[y] = 1
    <3> SUFFICES ASSUME ~asked.immediate, NEW y \in accepted, y # x
                 PROVE  y \in ToSet(queue') \/ ran'[y] = 1
      BY <2>4
    <3>1. y \in Tasks /\ (y \in ToSet(queue) \/ ran[y] = 1)
      BY <1>0 DEF TaskState, Graceful
    <3> QED
      BY <1>2, <2>2, <2>4, <3>1
  <2>10. Graceful'
    BY <1>1, <2>2, <2>7, <2>8, <2>9 DEF Graceful
  <2>11. MarkersLate' /\ WaitedInv' /\ Limits'
    BY <1>0, <1>1, <1>2, <2>2, <2>7 DEF MarkersLate, WaitedInv, Limits
  <2> QED
    BY <2>5, <2>10, <2>11 DEF TInv
<1>4. CASE ~(running \/ ~immediate)
  <2>1. LeavePool(w, Front(queue)) /\ UNCHANGED <<task, ran>>
    BY <1>4 DEF TakeTask
  <2>2. ~asked.immediate => ToSet(Front(queue)) \subseteq {Marker}
    BY <1>0, <1>2, <1>4 DEF Graceful, Calm
  <2> QED
    BY <1>2, <1>4, <2>1, <2>2, LeaveStep
<1> QED
  BY <1>3, <1>4

(* waitNewTask() and the pops.                                             *)
LEMMA TLooks ==
    ASSUME IInv, TInv, NEW w \in Workers, Looks(w)
    PROVE  TInv'
<1>0. TaskState /\ MarkersLate /\ Graceful /\ WaitedInv /\ Limits /\ Shape /\ ThreadsCounted
  BY DEF TInv, IInv
<1>1. queue \in Seq(Items) /\ Single(queue, Tasks)
  BY <1>0 DEF TaskState
<1>2. CASE PopReturns(w)
  BY <1>2, TakeStep DEF PopReturns
<1>3. CASE PopTimesOut(w)
  <2>1. ToSet(queue) = {}
    BY <1>3, EmptyItems DEF PopTimesOut
  <2> QED
    BY <1>1, <1>3, <2>1, LeaveStep DEF PopTimesOut
<1>4. CASE WaitNewTask(w)
  <2>0. pc[w] = "enter" /\ UnchangedByWorkers
    BY <1>4 DEF WaitNewTask
  <2>1. CASE Active /\ ~Superfluous /\ queue # <<>>
    BY <1>4, <2>0, <2>1, TakeStep DEF WaitNewTask
  <2>2. CASE Active /\ ~Superfluous /\ queue = <<>>
    <3>1. /\ pc' = [pc EXCEPT ![w] = "pop"]
          /\ UNCHANGED <<queue, immediate, opc, task, ran, running, freed, requests, asked,
                         offered, accepted, pushing, maxThreads>>
      BY <1>4, <2>0, <2>2 DEF WaitNewTask, UnchangedByWorkers
    <3>2. /\ \A v \in Workers : pc'[v] = "run" <=> pc[v] = "run"
          /\ In("run")' = In("run")
      BY <1>0, <2>0, <3>1 DEF Shape, In
    <3>3. TaskState'
      BY <1>0, <3>1, <3>2, TasksSame
    <3>4. w \in Attached /\ opc # "clear" /\ In("freeing") = {}
      <4>1. w \in Attached
        BY <2>0 DEF Attached
      <4> QED
        BY <4>1, NobodyClears DEF IInv
    <3>5. Clearing' = 0
      <4>1. In("freeing")' = In("freeing")
        BY <1>0, <3>1, <3>4, Moves DEF Places
      <4> QED
        BY <3>1, <3>4, <4>1, StillUsed
    <3>6. ~asked.immediate => \A x \in accepted' : x \in ToSet(queue') \/ ran'[x] = 1
      BY <1>0, <3>1 DEF Graceful
    <3>7. Waited' => Waited /\ ~(Attached = {} /\ requests = 0)
      BY <3>1, <3>4 DEF Waited
    <3>8. MarkersLate' /\ Graceful' /\ WaitedInv'
      BY <3>1, <3>2, <3>5, <3>6, <3>7, RestKept
    <3> QED
      BY <1>0, <3>1, <3>3, <3>8 DEF TInv, Limits
  <2>3. CASE ~(Active /\ ~Superfluous)
    <3>1. LeavePool(w, queue) /\ UNCHANGED <<task, ran>>
      BY <1>4, <2>3 DEF WaitNewTask
    <3>2. ASSUME numThreads = 1, ~running, ~asked.immediate, maxThreads # 0
          PROVE  ToSet(queue) \subseteq {Marker}
      <4>1. ~Superfluous
        BY <1>0, <3>2 DEF Superfluous, Limits
      <4>2. CASE immediate
        BY <1>0, <3>2, <4>2 DEF Graceful, Calm
      <4>3. CASE ~(length > 0)
        <5>1. Attached = {w}
          <6>1. w \in Attached
            BY <2>0 DEF Attached
          <6> QED
            BY <1>0, <3>2, <6>1, LastAttached
        <5>2. In("pop") = {}
          BY <2>0, <5>1 DEF Attached, In
        <5>3. Len(queue) \in Nat /\ ~(Len(queue) > 0)
          BY <1>1, <4>3, <5>2, FS_EmptySet DEF length
        <5>4. queue = <<>>
          BY <1>1, <5>3
        <5> QED
          BY <5>4, EmptyItems
      <4> QED
        BY <2>3, <3>2, <4>1, <4>2, <4>3 DEF Active
    <3> QED
      BY <1>1, <2>0, <3>1, <3>2, LeaveStep
  <2> QED
    BY <2>1, <2>2, <2>3
<1> QED
  BY <1>2, <1>3, <1>4 DEF Looks
-----------------------------------------------------------------------------
(* free() with the mutex.                                                  *)
LEMMA TFree ==
    ASSUME IInv, TInv, FreeLocked \/ FreeWakes
    PROVE  TInv'
<1>0. /\ TaskState /\ MarkersLate /\ Graceful /\ WaitedInv /\ Limits
      /\ Shape /\ OwnerPhase /\ ThreadsCounted /\ FreedOnce
  BY DEF TInv, IInv
<1>1. /\ opc \in {"free", "woken"} /\ ~running'
      /\ UNCHANGED <<pc, task, ran, offered, accepted, pushing, requests, freed, asked, maxThreads>>
  BY <1>0 DEF FreeLocked, FreeWakes, FreeGoesOn, OwnerPhase, history
<1>2. /\ queue \in Seq(Items) /\ Single(queue, Tasks) /\ Marker \notin ToSet(queue)
      /\ numThreads \in Nat
  BY <1>0, <1>1, FiniteParts DEF TaskState, MarkersLate, ThreadsCounted, Shape
<1>3. Attached' = Attached /\ In("freeing")' = In("freeing") /\ In("run")' = In("run")
  BY <1>1 DEF Attached, In
<1>4. In("freeing") = {} /\ freed = 0
  <2>1. In("freeing") = {} /\ freed # 1 /\ opc # "clear"
    BY <1>0, <1>1 DEF OwnerPhase, FreedOnce
  <2>2. Clearing = freed
    BY <1>0, <2>1, FS_EmptySet DEF Clearing, Shape
  <2> QED
    BY <1>0, <2>1, <2>2 DEF FreedOnce, Shape
<1>5. opc' # "clear" => Clearing' = 0
  BY <1>1, <1>3, <1>4, FS_EmptySet DEF Clearing
<1>6. AllWait => queue = <<>> /\ In("run") = {}
  BY <1>0, AllWaiting
<1>7. UNCHANGED queue => TaskState' /\ MarkersLate'
  BY <1>0, <1>1, <1>2, TasksSame DEF MarkersLate
<1>8. ASSUME ~asked.immediate
      PROVE  ~immediate /\ \A x \in accepted : x \in ToSet(queue) \/ ran[x] = 1
  BY <1>0, <1>1, <1>8 DEF Graceful
<1>9. opc' \in {"wait", "clear", "done"}
  BY DEF FreeLocked, FreeWakes, FreeGoesOn
<1>10. Limits'
  BY <1>0, <1>1, <1>9 DEF Limits
<1>11. CASE /\ FreeMustWait
            /\ opc' = "wait" /\ immediate' = asked.immediate /\ waiting' = TRUE
            /\ UNCHANGED queue
  <2>1. ~Waited' /\ Clearing' = 0
    BY <1>5, <1>11 DEF Waited
  <2>2. Graceful'
    BY <1>1, <1>8, <1>11, <2>1 DEF Graceful
  <2> QED
    BY <1>7, <1>10, <1>11, <2>1, <2>2 DEF TInv, WaitedInv
<1>12. CASE /\ ~FreeMustWait /\ (asked.immediate \/ AllWait) /\ numThreads = 0
            /\ opc' = "clear" /\ immediate' = asked.immediate /\ waiting' = asked.wait
            /\ UNCHANGED queue
  <2>1. Attached' = {} /\ requests' = 0
    BY <1>0, <1>1, <1>3, <1>12, NobodyAttached
  <2>2. In("run")' = {}
    BY <2>1 DEF Attached, In
  <2>3. ~asked.immediate => ToSet(queue') = {}
    BY <1>6, <1>12, EmptyItems
  <2>4. Graceful'
    BY <1>1, <1>8, <1>12, <2>2, <2>3 DEF Graceful, Calm
  <2>5. WaitedInv'
    BY <2>1, <2>2 DEF WaitedInv
  <2> QED
    BY <1>7, <1>10, <1>12, <2>4, <2>5 DEF TInv
<1>13. CASE /\ ~FreeMustWait /\ (asked.immediate \/ AllWait) /\ numThreads > 0
            /\ opc' = "done" /\ immediate' = TRUE /\ waiting' = FALSE
            /\ queue' = Markers(numThreads) \o queue
  <2>1. /\ queue' \in Seq(Items) /\ Single(queue', Tasks) /\ ToSet(queue) \subseteq ToSet(queue')
        /\ ToSet(queue') \subseteq ToSet(queue) \cup {Marker}
    BY <1>2, <1>13, MarkersItems
  <2>2. MarkersLate'
    BY <1>1, <1>13 DEF MarkersLate
  <2>3. TaskState'
    <3>1. \A x \in Tasks : /\ x \in ToSet(queue') => x \in accepted' /\ ran'[x] = 0
                           /\ x \notin accepted' => ran'[x] = 0
      BY <1>0, <1>1, <2>1, TasksAssumption DEF TaskState
    <3> QED
      BY <1>0, <1>1, <2>1, <3>1 DEF TaskState
  <2>4. ~asked.immediate => Calm'
    BY <1>3, <1>6, <1>13, <2>1, EmptyItems DEF Calm
  <2>5. ~asked.immediate => \A x \in accepted : x \in ToSet(queue') \/ ran[x] = 1
    BY <1>8, <2>1
  <2>6. Graceful'
    BY <1>1, <1>5, <1>13, <2>4, <2>5 DEF Graceful
  <2>7. WaitedInv'
    <3>1. asked.wait => AllWait
      BY <1>13 DEF FreeMustWait
    <3> QED
      BY <1>1, <1>3, <1>6, <1>13, <3>1 DEF WaitedInv, Waited
  <2> QED
    BY <1>10, <2>2, <2>3, <2>6, <2>7 DEF TInv
<1>14. CASE /\ ~FreeMustWait /\ ~(asked.immediate \/ AllWait)
            /\ opc' = "done" /\ immediate' = asked.immediate /\ waiting' = FALSE
            /\ UNCHANGED queue
  <2>1. ~Waited' /\ Clearing' = 0
    BY <1>1, <1>5, <1>14 DEF Waited, FreeMustWait
  <2>2. Graceful'
    BY <1>1, <1>8, <1>14, <2>1 DEF Graceful
  <2> QED
    BY <1>7, <1>10, <1>14, <2>1, <2>2 DEF TInv, WaitedInv
<1> QED
  BY <1>11, <1>12, <1>13, <1>14 DEF FreeLocked, FreeWakes, FreeGoesOn

(* internalClear(): at most a pointer 1 is taken out of the queue.         *)
LEMMA TCleared ==
    ASSUME IInv, TInv, InternalClear \/ \E w \in Workers : FreePool(w)
    PROVE  TInv'
<1>0. /\ TaskState /\ MarkersLate /\ Graceful /\ WaitedInv /\ Limits
      /\ Shape /\ OwnerPhase /\ FreedOnce
  BY DEF TInv, IInv
<1>1. UNCHANGED <<task, ran, offered, accepted, pushing, requests, asked, maxThreads,
                  immediate, running>>
  BY DEF InternalClear, FreePool
<1>2. /\ queue' \in Seq(Items) /\ Single(queue', Tasks) /\ ToSet(queue') \subseteq ToSet(queue)
      /\ ToSet(queue) \subseteq ToSet(queue') \cup {Marker}
  <2>1. queue \in Seq(Items) /\ Single(queue, Tasks)
    BY <1>0 DEF TaskState
  <2>2. queue' = IF Marker \in ToSet(queue) THEN RemoveItem(queue, Marker) ELSE queue
    BY DEF InternalClear, FreePool, Cleared
  <2>3. CASE Marker \in ToSet(queue)
    BY <2>1, <2>2, <2>3, RemoveItemPlaces, RemoveItemItems
  <2> QED
    BY <2>1, <2>2, <2>3
<1>3. /\ opc \in {"clear", "done"} /\ opc' = "done"
      /\ \A w \in Workers : pc'[w] = "run" <=> pc[w] = "run"
      /\ Attached' \subseteq Attached
      /\ Clearing # 0
  <2>1. CASE InternalClear
    <3>1. UNCHANGED pc /\ opc = "clear" /\ opc' = "done"
      BY <2>1 DEF InternalClear
    <3>2. Clearing # 0
      BY <1>0, <3>1, FiniteParts DEF Clearing, Shape
    <3> QED
      BY <3>1, <3>2 DEF Attached
  <2>2. ASSUME NEW w \in Workers, FreePool(w)
        PROVE  /\ opc = "done" /\ opc' = "done"
               /\ \A v \in Workers : pc'[v] = "run" <=> pc[v] = "run"
               /\ Attached' \subseteq Attached
               /\ Clearing # 0
    <3>1. pc[w] = "freeing" /\ w \in In("freeing") /\ UNCHANGED opc /\ pc' = [pc EXCEPT ![w] = "spare"]
      BY <2>2 DEF FreePool, In
    <3>2. opc = "done"
      BY <1>0, <3>1 DEF OwnerPhase
    <3>3. Cardinality(In("freeing")) # 0
      BY <3>1, FiniteParts, FS_EmptySet
    <3>4. Clearing # 0
      BY <1>0, <3>2, <3>3, FiniteParts DEF Clearing, Shape
    <3>5. Attached' \subseteq Attached
      BY <1>0, <3>1, Moves DEF Places
    <3>6. \A v \in Workers : pc'[v] = "run" <=> pc[v] = "run"
      BY <1>0, <3>1 DEF Shape
    <3> QED
      BY <3>1, <3>2, <3>4, <3>5, <3>6
  <2> QED
    BY <2>1, <2>2
<1>4. Clearing = 1 /\ Attached = {} /\ requests = 0
  <2>1. Clearing \in Nat
    BY <1>0, FiniteParts DEF Clearing, Shape
  <2>2. Clearing = 1
    BY <1>0, <1>3, <2>1 DEF FreedOnce
  <2> QED
    BY <1>0, <2>2 DEF FreedOnce
<1>5. In("run")' \subseteq In("run")
  BY <1>3 DEF In
<1>6. TaskState'
  <2>1. \A x \in Tasks : /\ x \in ToSet(queue') => x \in accepted' /\ ran'[x] = 0
                         /\ x \notin accepted' => ran'[x] = 0
    BY <1>0, <1>1, <1>2 DEF TaskState
  <2> QED
    BY <1>0, <1>1, <1>2, <1>3, <2>1 DEF TaskState
<1>7. ~asked.immediate => \A x \in accepted' : x \in ToSet(queue') \/ ran'[x] = 1
  BY <1>0, <1>1, <1>2, TasksAssumption DEF TaskState, Graceful
<1>8. Waited' => Waited
  BY <1>1, <1>3 DEF Waited
<1>9. ~asked.immediate /\ maxThreads' # 0 => ToSet(queue') \subseteq {Marker}
  BY <1>0, <1>1, <1>2, <1>4 DEF Graceful
<1>10. MarkersLate' /\ Graceful' /\ WaitedInv'
  BY <1>1, <1>2, <1>3, <1>4, <1>5, <1>7, <1>8, <1>9, RestKept
<1> QED
  BY <1>0, <1>1, <1>3, <1>6, <1>10 DEF TInv, Limits

(* A task returns.                                                         *)
LEMMA TReturns ==
    ASSUME IInv, TInv, NEW w \in Workers, TaskReturns(w)
    PROVE  TInv'
<1>0. /\ TaskState /\ Graceful /\ WaitedInv /\ Limits /\ Shape
  BY DEF TInv, IInv
<1>1. /\ pc[w] = "run" /\ pc' = [pc EXCEPT ![w] = "enter"] /\ task' = [task EXCEPT ![w] = None]
      /\ UNCHANGED <<queue, ran, offered, accepted, pushing, requests, asked, maxThreads,
                     immediate, running, opc, freed>>
  BY DEF TaskReturns, pool, history
<1>2. TaskState'
  <2>1. /\ task' \in [Workers -> Tasks \cup {Marker, None}]
        /\ \A v \in Workers : pc'[v] = "run" <=> task'[v] # None
        /\ \A v \in Workers : pc'[v] = "run" => task'[v] \in Tasks
    BY <1>0, <1>1 DEF TaskState, Shape
  <2> QED
    BY <1>0, <1>1, <2>1 DEF TaskState
<1>3. w \in Attached /\ w \in In("run") /\ opc # "clear" /\ w \notin In("freeing")
  <2>1. w \in Attached /\ w \in In("run") /\ w \notin In("freeing")
    BY <1>1 DEF Attached, In
  <2> QED
    BY <2>1, NobodyClears DEF IInv
<1>4. In("run")' \subseteq In("run")
  BY <1>0, <1>1 DEF Shape, In
<1>5. Clearing' = 0
  <2>1. In("freeing")' = In("freeing")
    BY <1>0, <1>1 DEF Shape, In
  <2> QED
    BY <1>1, <1>3, <2>1, StillUsed
<1>6. ~Waited'
  BY <1>0, <1>1, <1>3 DEF WaitedInv, Waited
<1>7. ~asked.immediate => \A x \in accepted' : x \in ToSet(queue') \/ ran'[x] = 1
  BY <1>0, <1>1 DEF Graceful
<1>8. MarkersLate' /\ Graceful' /\ WaitedInv'
  BY <1>1, <1>4, <1>5, <1>6, <1>7, RestKept
<1> QED
  BY <1>0, <1>1, <1>2, <1>8 DEF TInv, Limits

(* The global pool.                                                        *)
LEMMA TGlobal ==
    ASSUME IInv, TInv, NEW w \in Workers, Serve(w) \/ Depart(w) \/ Arrive(w)
    PROVE  TInv'
<1>0. /\ TaskState /\ Graceful /\ WaitedInv /\ Limits /\ Shape
  BY DEF TInv, IInv
<1>1. UNCHANGED <<queue, task, ran, offered, accepted, pushing, asked, maxThreads,
                  immediate, running, opc, freed>>
  BY DEF Serve, Depart, Arrive, pool, history
<1>2. /\ \A v \in Workers : pc'[v] = "run" <=> pc[v] = "run"
      /\ In("run")' = In("run") /\ In("freeing")' = In("freeing")
  BY <1>0 DEF Serve, Depart, Arrive, Shape, In
<1>3. Attached = {} /\ requests = 0 => Attached' = {} /\ requests' = 0
  BY <1>0 DEF Serve, Depart, Arrive, Shape, Attached
<1>4. TaskState'
  BY <1>0, <1>1, <1>2, TasksSame
<1>5. Clearing' = Clearing /\ (Waited' => Waited)
  BY <1>1, <1>2 DEF Clearing, Waited
<1>6. /\ ~asked.immediate => \A x \in accepted' : x \in ToSet(queue') \/ ran'[x] = 1
      /\ ~asked.immediate /\ Clearing' = 1 /\ maxThreads' # 0 => ToSet(queue') \subseteq {Marker}
  BY <1>0, <1>1, <1>5 DEF Graceful
<1>7. MarkersLate' /\ Graceful' /\ WaitedInv'
  BY <1>1, <1>2, <1>3, <1>5, <1>6, RestKept
<1> QED
  BY <1>0, <1>1, <1>4, <1>7 DEF TInv, Limits

(* The steps that only the caller sees.                                    *)
LEMMA TCaller ==
    ASSUME IInv, TInv,
           \/ \E a \in Workers \cup {Owner}, x \in Tasks : PushBegins(a, x)
           \/ \E on \in BOOLEAN : SetSortFunction(on)
           \/ \E now, wait \in BOOLEAN : FreeBegins(now, wait)
           \/ FreeInterrupted
    PROVE  TInv'
<1>0. /\ TaskState /\ MarkersLate /\ Graceful /\ WaitedInv /\ Limits /\ Shape /\ OwnerPhase
  BY DEF TInv, IInv
<1>1. UNCHANGED <<pc, task, ran, accepted, requests, maxThreads, immediate, running, freed>>
  BY DEF PushBegins, SetSortFunction, FreeBegins, FreeInterrupted, pool, history
<1>2. Attached' = Attached /\ In("freeing")' = In("freeing") /\ In("run")' = In("run")
  BY <1>1 DEF Attached, In
<1>3. ASSUME UNCHANGED asked, ToSet(queue') = ToSet(queue),
             opc' = opc \/ (opc = "wait" /\ opc' = "woken"), TaskState'
      PROVE  TInv'
  <2>1. Clearing' = Clearing /\ (Waited' => Waited) /\ (opc = "done" => opc' = "done")
    BY <1>1, <1>2, <1>3 DEF Clearing, Waited
  <2>2. /\ ~asked.immediate => \A x \in accepted' : x \in ToSet(queue') \/ ran'[x] = 1
        /\ ~asked.immediate /\ Clearing' = 1 /\ maxThreads' # 0 => ToSet(queue') \subseteq {Marker}
    BY <1>0, <1>1, <1>3, <2>1 DEF Graceful
  <2>3. MarkersLate' /\ Graceful' /\ WaitedInv'
    BY <1>1, <1>2, <1>3, <2>1, <2>2, RestKept
  <2> QED
    BY <1>0, <1>1, <1>3, <2>3 DEF TInv, Limits
<1>4. ASSUME NEW a \in Workers \cup {Owner}, NEW x \in Tasks, PushBegins(a, x) PROVE TInv'
  <2>1. /\ x \notin offered /\ offered' = offered \cup {x} /\ pushing' = [pushing EXCEPT ![a] = x]
        /\ UNCHANGED <<queue, asked, opc>>
    BY <1>4 DEF PushBegins, pool
  <2>2. x # None /\ pushing \in [Workers \cup {Owner} -> Tasks \cup {None}]
    BY <1>0, TasksAssumption DEF Shape
  <2>3. /\ \A b \in Workers \cup {Owner} : pushing'[b] # None => pushing'[b] \in offered' \ accepted
        /\ \A b, c \in Workers \cup {Owner} :
              pushing'[b] # None /\ pushing'[b] = pushing'[c] => b = c
    BY <1>0, <2>1, <2>2 DEF TaskState
  <2>4. TaskState'
    BY <1>0, <1>1, <2>1, <2>3 DEF TaskState
  <2> QED
    BY <1>3, <2>1, <2>4
<1>5. ASSUME NEW on \in BOOLEAN, SetSortFunction(on) PROVE TInv'
  <2>1. /\ queue' = IF on THEN SortQueue(queue, compare_cb) ELSE queue
        /\ UNCHANGED <<asked, opc, offered, pushing>>
    BY <1>5 DEF SetSortFunction, history
  <2>2. queue \in Seq(Items) /\ Single(queue, Tasks)
    BY <1>0 DEF TaskState
  <2>3. queue' \in Seq(Items) /\ Single(queue', Tasks) /\ ToSet(queue') = ToSet(queue)
    <3>1. CASE on
      BY <2>1, <2>2, <3>1, CompareType, SortQueueShape, SortQueueItems
    <3> QED
      BY <2>1, <2>2, <3>1
  <2>4. TaskState'
    BY <1>0, <1>1, <2>1, <2>3 DEF TaskState
  <2> QED
    BY <1>3, <2>1, <2>3, <2>4
<1>6. ASSUME NEW now \in BOOLEAN, NEW wait \in BOOLEAN, FreeBegins(now, wait) PROVE TInv'
  <2>1. opc = "ready" /\ opc' = "free" /\ UNCHANGED <<queue, offered, pushing>>
    BY <1>6 DEF FreeBegins, OwnerReady, pool, history
  <2>2. running /\ ~immediate /\ ~asked.immediate /\ ~Waited'
    BY <1>0, <2>1 DEF OwnerPhase, Limits, Waited
  <2>3. TaskState'
    BY <1>0, <1>1, <2>1, TasksSame
  <2>4. Clearing' = 0
    BY <1>1, <1>2, <2>1, <2>2, StillUsed
  <2>5. \A x \in accepted : x \in ToSet(queue) \/ ran[x] = 1
    BY <1>0, <2>2 DEF Graceful
  <2>6. Graceful'
    BY <1>1, <2>1, <2>2, <2>4, <2>5 DEF Graceful
  <2> QED
    BY <1>0, <1>1, <2>1, <2>2, <2>3, <2>6 DEF TInv, MarkersLate, WaitedInv, Limits
<1>7. CASE FreeInterrupted
  <2>1. opc = "wait" /\ opc' = "woken" /\ UNCHANGED <<queue, offered, pushing, asked>>
    BY <1>7 DEF FreeInterrupted, pool, history
  <2>2. TaskState'
    BY <1>0, <1>1, <2>1, TasksSame
  <2> QED
    BY <1>3, <2>1, <2>2
<1> QED
  BY <1>4, <1>5, <1>6, <1>7
-----------------------------------------------------------------------------
THEOREM TasksInvariance == SafeSpec => []TInv
<1>1. IInv /\ TInv /\ [Next]_vars => TInv'
  <2> SUFFICES ASSUME IInv, TInv, [Next]_vars PROVE TInv'
    OBVIOUS
  <2>1. CASE OwnerStep
    BY <2>1, TStarters, TPushLocked, TFree, TCleared, TCaller DEF OwnerStep
  <2>2. ASSUME NEW w \in Workers, WorkerStep(w) \/ Serve(w) \/ Depart(w) \/ Arrive(w)
        PROVE  TInv'
    BY <2>2, TLooks, TReturns, TGlobal, TCleared, TPushLocked, TCaller DEF WorkerStep, Looks
  <2>3. CASE UNCHANGED vars
    BY <2>3 DEF vars, pool, history, TInv, TaskState, MarkersLate, Graceful, WaitedInv, Limits,
                Calm, Waited, Clearing, Attached, In
  <2> QED
    BY <2>1, <2>2, <2>3 DEF Next
<1> QED
  BY <1>1, TInit, ThreadPoolInvariance, PTL DEF SafeSpec

(* The pointers 1 that wakeupAndStopAll() puts in the queue are popped     *)
(* only by threads that look at immediate: func is never called with one,  *)
(* and with each task once, whatever the tasks, the limits and the order.  *)
THEOREM PoolRunsTasksOnce == SafeSpec => []RunsTasksOnce
<1>1. TInv => RunsTasksOnce
  BY DEF TInv, TaskState, RunsTasksOnce, In
<1> QED
  BY <1>1, TasksInvariance, PTL

(* A pool that is freed with immediate = FALSE has done all it was given.  *)
THEOREM PoolFreedGracefully == SafeSpec => []GracefulFree
<1>1. IInv /\ TInv => GracefulFree
  <2> SUFFICES ASSUME IInv, TInv PROVE GracefulFree
    OBVIOUS
  <2>0. TaskState /\ Graceful /\ WaitedInv /\ Shape /\ FreedOnce
    BY DEF TInv, IInv
  <2>1. ASSUME ~asked.immediate, In("run") = {}, ToSet(queue) \subseteq {Marker} PROVE AllDone
    <3>1. ASSUME NEW x \in accepted
          PROVE  ran[x] = 1 /\ \A w \in Workers : task[w] # x
      <4>1. x \in Tasks /\ x # None /\ x # Marker
        BY <2>0, TasksAssumption DEF TaskState
      <4>2. ran[x] = 1
        BY <2>0, <2>1, <4>1 DEF Graceful
      <4>3. \A w \in Workers : task[w] = None
        BY <2>0, <2>1 DEF TaskState, In
      <4> QED
        BY <4>1, <4>2, <4>3
    <3> QED
      BY <3>1 DEF AllDone
  <2>2. CASE freed = 1
    <3>1. Clearing = 1
      <4>1. Clearing <= 1 /\ opc = "done"
        BY <2>0, <2>2 DEF FreedOnce
      <4> QED
        BY <2>2, <4>1, FiniteParts DEF Clearing
    <3>2. In("run") = {}
      BY <2>0, <3>1 DEF FreedOnce, Attached, In
    <3>3. ~asked.immediate /\ maxThreads # 0 => AllDone
      BY <2>0, <2>1, <3>1, <3>2 DEF Graceful
    <3> QED
      BY <3>2, <3>3 DEF GracefulFree
  <2>3. CASE ~(freed = 1)
    <3>1. Waited => In("run") = {}
      BY <2>0 DEF WaitedInv
    <3>2. Waited /\ ~asked.immediate => AllDone
      BY <2>0, <2>1 DEF Graceful, Calm
    <3> QED
      BY <2>3, <3>1, <3>2 DEF GracefulFree
  <2> QED
    BY <2>2, <2>3
<1> QED
  BY <1>1, ThreadPoolInvariance, TasksInvariance, PTL
=============================================================================
