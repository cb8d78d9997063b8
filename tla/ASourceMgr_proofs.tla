------------------------- MODULE ASourceMgr_proofs -------------------------
(***************************************************************************)
(* Proofs about the manager of event sources, for any threads, sources,    *)
(* priorities and bounds: one thread at a time runs the manager, no waiter *)
(* and no wake-up is forgotten, the iteration over the storage finds a     *)
(* source at each step, and a round dispatches sources of one priority.    *)
(***************************************************************************)
EXTENDS ASourceMgr, AQueue_proofs

(* In which calls a thread may be at a stage.  Without it OwnerCounted is  *)
(* not inductive: a thread in run() that found the manager taken in        *)
(* iterate() would wait for itself.                                        *)
StageOf(t) ==
    /\ pc[t] \in {"acquired", "contend"} => call[t] = "run"
    /\ pc[t] = "leave" => call[t] \in {"run", "invoke"}
    /\ pc[t] = "refused" => call[t] = "iterate"
    /\ pc[t] \in {"waiting", "woken"} => call[t] \in {"run", "iterate"}
    /\ InIteration(t) \/ pc[t] = "begun" => call[t] \in {"run", "iterate", "try", "pending"}

Shape == /\ pc \in [Threads -> Stages] /\ call \in [Threads -> CallNames]
         /\ owner \in Threads \cup {NULL}
         /\ \A t \in Threads : StageOf(t)

IInv == Shape /\ OwnerCounted

LEMMA NullIsNoThread == NULL \notin Threads
  BY SourcesAssumption

LEMMA HeldType == \A t \in Threads : Held(t) \in 0 .. 2 /\ Held(t)' \in 0 .. 2
  BY DEF Held

(* Nobody acquires or releases.                                            *)
LEMMA CountKept ==
    ASSUME OwnerCounted, owner \in Threads \cup {NULL}, UNCHANGED <<owner, ownerCount>>,
           \A x \in Threads : Held(x)' = Held(x)
    PROVE  OwnerCounted'
  BY DEF OwnerCounted

(* acquire() and wait() of a thread that finds the manager free or its own. *)
LEMMA CountTaken ==
    ASSUME OwnerCounted, NEW t \in Threads, MayAcquire(t), Take(t),
           Held(t)' = Held(t) + 1,
           \A x \in Threads \ {t} : Held(x)' = Held(x)
    PROVE  OwnerCounted'
<1>1. owner' = t /\ ownerCount' = ownerCount + 1 /\ t # NULL
  BY NullIsNoThread DEF Take
<1>2. \A x \in Threads \ {t} : Held(x) = 0
  BY HeldType, NullIsNoThread DEF OwnerCounted, MayAcquire
<1>3. ownerCount = Held(t)
  <2>1. CASE owner = NULL
    <3>1. Held(t) = 0
      BY <2>1, <1>1, HeldType DEF OwnerCounted
    <3> QED
      BY <2>1, <3>1 DEF OwnerCounted
  <2>2. CASE owner = t
    BY <2>2, <1>1 DEF OwnerCounted
  <2> QED
    BY <2>1, <2>2 DEF MayAcquire
<1> QED
  BY <1>1, <1>2, <1>3 DEF OwnerCounted

(* release(), whichever threads it wakes.                                  *)
LEMMA CountReleased ==
    ASSUME OwnerCounted, NEW t \in Threads, Held(t) > 0,
           ownerCount' = ownerCount - 1,
           owner' = IF ownerCount = 1 THEN NULL ELSE owner,
           Held(t)' = Held(t) - 1,
           \A x \in Threads \ {t} : Held(x)' = Held(x)
    PROVE  OwnerCounted'
<1>1. owner = t /\ t # NULL /\ ownerCount = Held(t)
  BY NullIsNoThread DEF OwnerCounted
<1>2. \A x \in Threads \ {t} : Held(x) = 0
  BY <1>1, HeldType DEF OwnerCounted
<1> QED
  BY <1>1, <1>2, HeldType DEF OwnerCounted
-----------------------------------------------------------------------------
LEMMA InitInv == Init => IInv
  BY NullIsNoThread DEF Init, IInv, Shape, StageOf, OwnerCounted, Held, InIteration,
     Stages, CallNames, NotRunning

(* A release leaves the threads it does not concern where they count the   *)
(* same: waiting and woken threads hold nothing.                           *)
LEMMA ReleaseStep ==
    ASSUME IInv, NEW t \in Threads, NEW stage \in {"idle", "begun", "leave"},
           Held(t) > 0, Release(t, stage),
           call' \in [Threads -> CallNames],
           \A x \in Threads \ {t} : call'[x] = call[x],
           stage = "begun" => call'[t] = "run",
           stage = "leave" => call'[t] = "run",
           stage # "idle" => Held(t) = 2 /\ ownerCount = 2,
           stage = "idle" => Held(t) = 1
    PROVE  IInv'
<1> USE DEF IInv, Shape
<1>1. owner = t /\ t # NULL /\ ownerCount = Held(t)
  BY NullIsNoThread DEF OwnerCounted
<1>2. owner' = IF ownerCount = 1 THEN NULL ELSE owner
  BY DEF Release
<1>3. ownerCount' = ownerCount - 1
  BY DEF Release
<1>4. /\ pc' \in [Threads -> Stages] /\ pc'[t] = stage
      /\ \A x \in Threads \ {t} : \/ pc'[x] = pc[x]
                                  \/ pc[x] = "waiting" /\ pc'[x] = "woken"
  <2>1. CASE ownerCount = 1
    <3>1. PICK W \in WakeSome : pc' = Woken([pc EXCEPT ![t] = stage], W)
      BY <2>1 DEF Release
    <3>2. \A x \in W : x \in Threads /\ pc[x] = "waiting"
      BY DEF WakeSome
    <3>3. t \notin W
      BY <3>2, <1>1 DEF Held, InIteration
    <3> QED
      BY <3>1, <3>2, <3>3 DEF Woken, Stages
  <2>2. CASE ownerCount # 1
    BY <2>2 DEF Release, Goto, Stages
  <2> QED
    BY <2>1, <2>2
<1>5. \A x \in Threads \ {t} : Held(x)' = Held(x) /\ StageOf(x)'
  BY <1>4 DEF Held, InIteration, StageOf
<1>6. Held(t)' = Held(t) - 1 /\ StageOf(t)'
  BY <1>4 DEF Held, InIteration, StageOf
<1>7. OwnerCounted'
  BY <1>2, <1>3, <1>5, <1>6, CountReleased
<1>8. Shape'
  BY <1>1, <1>2, <1>4, <1>5, <1>6
<1> QED
  BY <1>7, <1>8

(* A thread goes on from one stage to another with the same acquisitions.  *)
LEMMA MoveStep ==
    ASSUME IInv, NEW t \in Threads, NEW stage \in Stages,
           Goto(t, stage), UNCHANGED <<owner, ownerCount>>,
           call' \in [Threads -> CallNames],
           \A x \in Threads \ {t} : call'[x] = call[x],
           StageOf(t)', Held(t)' = Held(t)
    PROVE  IInv'
<1> USE DEF IInv, Shape
<1>1. pc' \in [Threads -> Stages] /\ \A x \in Threads \ {t} : pc'[x] = pc[x]
  BY DEF Goto
<1>2. \A x \in Threads \ {t} : Held(x)' = Held(x) /\ StageOf(x)'
  BY <1>1 DEF Held, InIteration, StageOf
<1>3. OwnerCounted'
  BY <1>2, CountKept
<1> QED
  BY <1>1, <1>2, <1>3

(* A thread acquires the manager and goes on.                              *)
LEMMA TakeStep ==
    ASSUME IInv, NEW t \in Threads, NEW stage \in Stages,
           MayAcquire(t), Take(t), Goto(t, stage),
           call' \in [Threads -> CallNames],
           \A x \in Threads \ {t} : call'[x] = call[x],
           StageOf(t)', Held(t)' = Held(t) + 1
    PROVE  IInv'
<1> USE DEF IInv, Shape
<1>1. pc' \in [Threads -> Stages] /\ \A x \in Threads \ {t} : pc'[x] = pc[x]
  BY DEF Goto
<1>2. \A x \in Threads \ {t} : Held(x)' = Held(x) /\ StageOf(x)'
  BY <1>1 DEF Held, InIteration, StageOf
<1>3. OwnerCounted'
  BY <1>2, CountTaken
<1> QED
  BY <1>1, <1>2, <1>3 DEF Take

(* Threads are woken, by quit() or by themselves.                          *)
LEMMA WakeStep ==
    ASSUME IInv, owner' = owner, ownerCount' = ownerCount, call' = call,
           pc' \in [Threads -> Stages],
           \A x \in Threads : pc'[x] = pc[x] \/ (pc[x] = "waiting" /\ pc'[x] = "woken")
    PROVE  IInv'
<1> USE DEF IInv, Shape
<1>1. \A x \in Threads : Held(x)' = Held(x) /\ StageOf(x)'
  BY DEF Held, InIteration, StageOf
<1>2. OwnerCounted'
  BY <1>1, CountKept
<1> QED
  BY <1>1, <1>2

LEMMA StutterStep == ASSUME IInv, UNCHANGED threadVars PROVE IInv'
  BY DEF IInv, Shape, StageOf, OwnerCounted, Held, InIteration, threadVars

LEMMA EnteringStep == ASSUME IInv, NEW t \in Threads, Entering(t) PROVE IInv'
<1> USE DEF IInv, Shape, Stages, Held, InIteration, StageOf, Goto
<1>1. CASE LoopContends(t)
  <2>1. CASE MayAcquire(t)
    <3>1. Goto(t, "begun") /\ Take(t) /\ UNCHANGED call
      BY <1>1, <2>1 DEF LoopContends, StartLoop
    <3>2. pc[t] = "contend"
      BY <1>1 DEF LoopContends
    <3>3. StageOf(t)' /\ Held(t)' = Held(t) + 1
      BY <3>1, <3>2
    <3>4. IInv /\ "begun" \in Stages /\ call' \in [Threads -> CallNames]
      BY <3>1
    <3> HIDE DEF IInv, Shape, Stages, Held, InIteration, StageOf, Goto
    <3> QED
      BY <2>1, <3>1, <3>3, <3>4, TakeStep
  <2>2. CASE ~MayAcquire(t)
    BY <1>1, <2>2, MoveStep DEF LoopContends
  <2> QED
    BY <2>1, <2>2
<1>2. CASE LoopWakes(t)
  <2>1. CASE MayAcquire(t)
    <3>1. PICK stage \in {"begun", "leave"} : Goto(t, stage)
      BY <1>2, <2>1 DEF LoopWakes, StartLoop
    <3>2. Take(t) /\ UNCHANGED call
      BY <1>2, <2>1 DEF LoopWakes
    <3>3. pc[t] = "woken" /\ call[t] = "run"
      BY <1>2 DEF LoopWakes
    <3>4. StageOf(t)' /\ Held(t)' = Held(t) + 1
      BY <3>1, <3>2, <3>3
    <3>5. IInv /\ stage \in Stages /\ call' \in [Threads -> CallNames]
      BY <3>2
    <3> HIDE DEF IInv, Shape, Stages, Held, InIteration, StageOf, Goto
    <3> QED
      BY <2>1, <3>1, <3>2, <3>4, <3>5, TakeStep
  <2>2. CASE ~MayAcquire(t)
    <3>1. CASE isRunning[t]
      BY <1>2, <2>2, <3>1, MoveStep DEF LoopWakes
    <3>2. CASE ~isRunning[t]
      BY <1>2, <2>2, <3>2, MoveStep DEF LoopWakes, CallNames
    <3> QED
      BY <3>1, <3>2
  <2> QED
    BY <2>1, <2>2
<1>3. CASE IterateAcquires(t)
  <2>1. CASE MayAcquire(t)
    BY <1>3, <2>1, TakeStep DEF IterateAcquires
  <2>2. CASE ~MayAcquire(t)
    <3>1. call[t] # "run"
      BY <1>3, <2>2 DEF IterateAcquires, MayAcquire, OwnerCounted
    <3>2. CASE Block(t)
      BY <1>3, <2>2, <3>1, <3>2, MoveStep DEF IterateAcquires, Block
    <3>3. CASE ~Block(t)
      BY <1>3, <2>2, <3>1, <3>3, MoveStep DEF IterateAcquires, CallNames
    <3> QED
      BY <3>2, <3>3
  <2> QED
    BY <2>1, <2>2
<1>4. CASE IterateWaits(t)
  <2>1. CASE MayAcquire(t)
    BY <1>4, <2>1, TakeStep DEF IterateWaits
  <2>2. CASE ~MayAcquire(t)
    BY <1>4, <2>2, MoveStep DEF IterateWaits
  <2> QED
    BY <2>1, <2>2
<1>5. CASE IterateWakes(t)
  <2>1. CASE MayAcquire(t)
    BY <1>5, <2>1, TakeStep DEF IterateWakes
  <2>2. CASE ~MayAcquire(t)
    BY <1>5, <2>2, MoveStep DEF IterateWakes, CallNames
  <2> QED
    BY <2>1, <2>2
<1> QED
  BY <1>1, <1>2, <1>3, <1>4, <1>5 DEF Entering

LEMMA OwningStep == ASSUME IInv, NEW t \in Threads, Owning(t) PROVE IInv'
<1> USE DEF IInv, Shape, Stages, Held, InIteration, StageOf, Goto
<1>1. CASE LoopStarts(t)
  BY <1>1, MoveStep DEF LoopStarts, StartLoop
<1>2. CASE LoopLeaves(t)
  BY <1>2, ReleaseStep DEF LoopLeaves, CallNames
<1>3. CASE Prepare(t)
  BY <1>3, MoveStep DEF Prepare
<1>4. CASE PollReturns(t)
  BY <1>4, MoveStep DEF PollReturns
<1>5. CASE Acknowledge(t)
  BY <1>5, MoveStep DEF Acknowledge
<1>6. CASE CheckNext(t)
  <2>1. CASE Goto(t, "excute")
    BY <1>6, <2>1, MoveStep DEF CheckNext
  <2>2. CASE UNCHANGED pc
    BY <1>6, <2>2, StutterStep DEF CheckNext, threadVars
  <2> QED
    BY <1>6, <2>1, <2>2 DEF CheckNext
<1>7. CASE ExcuteNext(t)
  <2>1. CASE Goto(t, "callback")
    BY <1>7, <2>1, MoveStep DEF ExcuteNext
  <2>2. CASE UNCHANGED pc
    BY <1>7, <2>2, StutterStep DEF ExcuteNext, threadVars
  <2> QED
    BY <1>7, <2>1, <2>2 DEF ExcuteNext
<1>8. CASE CallbackReturns(t)
  BY <1>8, MoveStep DEF CallbackReturns
<1>9. CASE IterateReturns(t)
  <2>1. owner = t /\ t # NULL /\ ownerCount = Held(t)
    BY <1>9, NullIsNoThread DEF IterateReturns, OwnerCounted
  <2>2. CASE call[t] = "run"
    <3>1. PICK stage \in {"begun", "leave"} : Release(t, stage)
      BY <1>9, <2>2 DEF IterateReturns
    <3> QED
      BY <1>9, <2>1, <2>2, <3>1, ReleaseStep DEF IterateReturns
  <2>3. CASE call[t] # "run"
    BY <1>9, <2>1, <2>3, ReleaseStep DEF IterateReturns, CallNames
  <2> QED
    BY <2>2, <2>3
<1> QED
  BY <1>1, <1>2, <1>3, <1>4, <1>5, <1>6, <1>7, <1>8, <1>9 DEF Owning

LEMMA CallingStep == ASSUME IInv, NEW t \in Threads, Calling(t) PROVE IInv'
<1> USE DEF IInv, Shape, Stages, Held, InIteration, StageOf, Goto, CallNames
<1>1. CASE Run(t)
  <2>1. CASE MayAcquire(t)
    BY <1>1, <2>1, TakeStep DEF Run
  <2>2. CASE ~MayAcquire(t)
    BY <1>1, <2>2, MoveStep DEF Run
  <2> QED
    BY <2>1, <2>2
<1>2. CASE Invoke(t)
  <2>1. MayAcquire(t) /\ Take(t) /\ Goto(t, "leave") /\ call' = [call EXCEPT ![t] = "invoke"]
    BY <1>2 DEF Invoke, MayAcquire
  <2>2. pc[t] = "idle"
    BY <1>2 DEF Invoke
  <2>3. StageOf(t)' /\ Held(t)' = Held(t) + 1
    BY <2>1, <2>2
  <2>4. call' \in [Threads -> CallNames] /\ \A x \in Threads \ {t} : call'[x] = call[x]
    BY <2>1
  <2>5. IInv /\ "leave" \in Stages
    OBVIOUS
  <2> HIDE DEF IInv, Shape, Stages, Held, InIteration, StageOf, Goto, CallNames
  <2> QED
    BY <2>1, <2>3, <2>4, <2>5, TakeStep
<1>3. CASE \E c \in Calls[t] : Iterate(t, c)
  <2>1. PICK c \in Calls[t] : Iterate(t, c)
    BY <1>3
  <2> QED
    BY <2>1, MoveStep DEF Iterate
<1>4. CASE \E l \in Threads : Quit(t, l)
  <2>1. pc' = Woken(pc, {w \in Threads : pc[w] = "waiting"}) /\ UNCHANGED <<owner, ownerCount, call>>
    BY <1>4 DEF Quit
  <2>2. pc' \in [Threads -> Stages]
    BY <2>1 DEF Woken
  <2>3. \A x \in Threads : pc'[x] = pc[x] \/ (pc[x] = "waiting" /\ pc'[x] = "woken")
    BY <2>1 DEF Woken
  <2> HIDE DEF IInv, Shape, Stages
  <2>4. owner' = owner /\ ownerCount' = ownerCount /\ call' = call
    BY <2>1
  <2> QED
    BY <2>2, <2>3, <2>4, WakeStep
<1>5. CASE UNCHANGED threadVars
  BY <1>5, StutterStep
<1>6. UNCHANGED threadVars
      \/ Run(t) \/ Invoke(t) \/ (\E c \in Calls[t] : Iterate(t, c))
      \/ \E l \in Threads : Quit(t, l)
  BY DEF Calling, Add, RemoveSource, RemoveAll, SetReadyTime
<1> QED
  BY <1>1, <1>2, <1>3, <1>4, <1>5, <1>6

LEMMA NextInv == IInv /\ [Next]_vars => IInv'
<1> SUFFICES ASSUME IInv, [Next]_vars PROVE IInv'
  OBVIOUS
<1>1. ASSUME NEW t \in Threads, Owning(t) \/ Entering(t) \/ Calling(t) PROVE IInv'
  BY <1>1, OwningStep, EnteringStep, CallingStep
<1>2. ASSUME NEW t \in Threads, PollInterrupted(t) PROVE IInv'
  BY <1>2, MoveStep DEF PollInterrupted, IInv, Shape, Stages, Held, InIteration, StageOf, Goto
<1>3. ASSUME NEW t \in Threads, WakesByItself(t) PROVE IInv'
  <2>1. UNCHANGED <<owner, ownerCount, call>> /\ pc[t] = "waiting" /\ pc' = [pc EXCEPT ![t] = "woken"]
    BY <1>3 DEF WakesByItself, Goto
  <2>2. pc' \in [Threads -> Stages]
    BY <2>1 DEF IInv, Shape, Stages
  <2>3. \A x \in Threads : pc'[x] = pc[x] \/ (pc[x] = "waiting" /\ pc'[x] = "woken")
    BY <2>1 DEF IInv, Shape
  <2>4. owner' = owner /\ ownerCount' = ownerCount /\ call' = call
    BY <2>1
  <2> QED
    BY <2>2, <2>3, <2>4, WakeStep
<1>4. CASE UNCHANGED threadVars
  BY <1>4, StutterStep
<1>5. ASSUME Tick \/ (\E s \in Sources : DataArrives(s)) \/ UNCHANGED vars
      PROVE  UNCHANGED threadVars
  BY <1>5 DEF Tick, DataArrives, vars
<1> QED
  BY <1>1, <1>2, <1>3, <1>4, <1>5 DEF Next

(* acquire(), wait(), release(): for any number of threads, whatever they  *)
(* call, the manager is in one thread at a time and ownerCount says how    *)
(* often this thread has to release it.                                    *)
THEOREM OneThreadOwns == SafeSpec => []OwnerCounted
<1>1. IInv => OwnerCounted
  BY DEF IInv
<1> QED
  BY InitInv, NextInv, <1>1, PTL DEF SafeSpec
-----------------------------------------------------------------------------
(* The lists of the storage: the array of priorities ascends and names the *)
(* lists that are not empty; a source is in the list of its own priority,  *)
(* in one place.                                                           *)
ListsTyped(l) ==
    /\ l \in [prioIndex : Seq(Priorities), datas : [Priorities -> Seq(AllSources)],
              count : [Priorities -> Nat]]
    /\ \A p \in Priorities : l.count[p] <= Len(l.datas[p])

InOwnPlace(l, p) ==
    \A i, j \in 1 .. l.count[p] : /\ prio[l.datas[p][i]] = p
                                  /\ i # j => l.datas[p][i] # l.datas[p][j]

ListsOK(l) ==
    /\ ListsTyped(l)
    /\ Ascending(l.prioIndex)
    /\ \A p \in Priorities : l.count[p] > 0 <=> p \in ToSet(l.prioIndex)
    /\ \A p \in Priorities : InOwnPlace(l, p)

LEMMA PrioritiesInt ==
    ASSUME NEW q \in Seq(Priorities)
    PROVE  Len(q) \in Nat /\ \A i \in 1 .. Len(q) : q[i] \in Priorities /\ q[i] \in Int
<1>1. Len(q) \in Nat /\ \A i \in 1 .. Len(q) : q[i] \in Priorities
  OBVIOUS
<1> QED
  BY <1>1, PrioritiesAssumption

LEMMA AddIndexShape ==
    ASSUME NEW q \in Seq(Priorities), NEW p \in Priorities, Ascending(q)
    PROVE  /\ AddIndex(q, p) \in Seq(Priorities)
           /\ Ascending(AddIndex(q, p))
           /\ ToSet(AddIndex(q, p)) = ToSet(q) \cup {p}
<1>1. CASE p \in ToSet(q)
  BY <1>1 DEF AddIndex
<1>2. CASE p \notin ToSet(q)
  <2>1. AddIndex(q, p) = Entered(q, p)
    BY <1>2 DEF AddIndex, Entered
  <2>2. Entered(q, p) \in Seq(Priorities)
    BY <1>2, EnteredShape, PrioritiesAssumption
  <2>3. Ascending(Entered(q, p))
    BY <1>2, EnteredShape, PrioritiesAssumption
  <2>4. ToSet(Entered(q, p)) = ToSet(q) \cup {p}
    BY <1>2, EnteredShape, PrioritiesAssumption
  <2> QED
    BY <2>1, <2>2, <2>3, <2>4
<1> QED
  BY <1>1, <1>2

LEMMA RemoveIndexShape ==
    ASSUME NEW q \in Seq(Priorities), NEW p \in ToSet(q), Ascending(q)
    PROVE  /\ RemoveIndex(q, p) \in Seq(Priorities)
           /\ Ascending(RemoveIndex(q, p))
           /\ ToSet(RemoveIndex(q, p)) = ToSet(q) \ {p}
<1> DEFINE k == CHOOSE i \in 1 .. Len(q) : q[i] = p
<1>1. k \in 1 .. Len(q) /\ q[k] = p
  <2>1. \E i \in 1 .. Len(q) : q[i] = p
    BY InToSet
  <2> QED
    BY <2>1
<1>2. RemoveIndex(q, p) = Without(q, k)
  BY DEF RemoveIndex, Without
<1> HIDE DEF k
<1>3. Without(q, k) \in Seq(Priorities)
  BY <1>1, WithoutShape, Zenon
<1>4. Ascending(Without(q, k)) /\ ToSet(Without(q, k)) = ToSet(q) \ {q[k]}
  BY <1>1, WithoutAscending, PrioritiesAssumption, Zenon
<1> QED
  BY <1>1, <1>2, <1>3, <1>4

LEMMA ListsRecord ==
    ASSUME NEW A, NEW B, NEW C, NEW a \in A, NEW b \in B, NEW c \in C,
           NEW l \in [prioIndex : A, datas : B, count : C]
    PROVE  [l EXCEPT !.datas = b, !.count = c, !.prioIndex = a]
               \in [prioIndex : A, datas : B, count : C]
  OBVIOUS

(* add() of a source to the list of its priority.                          *)
LEMMA AddedToLists ==
    ASSUME NEW l, ListsOK(l), NEW s \in AllSources,
           \A p \in Priorities : s \notin Listed(l, p)
    PROVE  /\ ListsOK(AddToSourceList(l, s, prio[s]))
           /\ \A p \in Priorities :
                 Listed(AddToSourceList(l, s, prio[s]), p) \subseteq Listed(l, p) \cup {s}
<1> DEFINE p == prio[s]
           n == l.count[p] + 1
           old == l.datas[p]
           d == IF n <= Len(old) THEN [old EXCEPT ![n] = s] ELSE Append(old, s)
           m == AddToSourceList(l, s, p)
<1>1. p \in Priorities
  BY SourcesAssumption DEF AllSources
<1>2. /\ l.count[p] \in Nat /\ n \in Nat \ {0} /\ old \in Seq(AllSources) /\ Len(old) \in Nat
      /\ l.count[p] <= Len(old)
  BY <1>1 DEF ListsOK, ListsTyped
<1>3. /\ d \in Seq(AllSources) /\ Len(d) >= n /\ d[n] = s
      /\ \A i \in 1 .. l.count[p] : d[i] = old[i]
  <2>1. CASE n <= Len(old)
    BY <1>2, <2>1
  <2>2. CASE ~(n <= Len(old))
    <3>1. n = Len(old) + 1
      BY <1>2, <2>2
    <3>2. d = Append(old, s)
      BY <2>2
    <3>3. /\ Append(old, s) \in Seq(AllSources) /\ Len(Append(old, s)) = Len(old) + 1
          /\ Append(old, s)[Len(old) + 1] = s
          /\ \A i \in 1 .. Len(old) : Append(old, s)[i] = old[i]
      BY <1>2, AppendProperties
    <3>4. l.count[p] = Len(old)
      BY <1>2, <3>1
    <3> HIDE DEF d, n
    <3> QED
      BY <1>2, <3>1, <3>2, <3>3, <3>4
  <2> QED
    BY <2>1, <2>2
<1>4. /\ m.datas = [l.datas EXCEPT ![p] = d]
      /\ m.count = [l.count EXCEPT ![p] = n]
      /\ m.prioIndex = AddIndex(l.prioIndex, p)
  BY DEF AddToSourceList, ListsOK, ListsTyped
<1>40. m = [l EXCEPT !.datas = m.datas, !.count = m.count, !.prioIndex = m.prioIndex]
  BY DEF AddToSourceList, ListsOK, ListsTyped
<1> HIDE DEF d, m
<1>5. /\ m.prioIndex \in Seq(Priorities)
      /\ Ascending(m.prioIndex)
      /\ ToSet(m.prioIndex) = ToSet(l.prioIndex) \cup {p}
  BY <1>1, <1>4, AddIndexShape DEF ListsOK, ListsTyped
<1>6. /\ m.datas \in [Priorities -> Seq(AllSources)] /\ m.count \in [Priorities -> Nat]
      /\ m.datas[p] = d /\ m.count[p] = n
      /\ \A q \in Priorities \ {p} : m.datas[q] = l.datas[q] /\ m.count[q] = l.count[q]
  BY <1>1, <1>2, <1>3, <1>4 DEF ListsOK, ListsTyped
<1>7. ListsTyped(m)
  <2>1. m \in [prioIndex : Seq(Priorities), datas : [Priorities -> Seq(AllSources)],
               count : [Priorities -> Nat]]
    BY <1>5, <1>6, <1>40, ListsRecord DEF ListsOK, ListsTyped
  <2>2. \A q \in Priorities : m.count[q] <= Len(m.datas[q])
    BY <1>1, <1>2, <1>3, <1>6 DEF ListsOK, ListsTyped
  <2> QED
    BY <2>1, <2>2 DEF ListsTyped
<1>8. \A q \in Priorities : m.count[q] > 0 <=> q \in ToSet(m.prioIndex)
  <2>1. ASSUME NEW q \in Priorities \ {p}
        PROVE  m.count[q] > 0 <=> q \in ToSet(m.prioIndex)
    BY <1>5, <1>6 DEF ListsOK
  <2>2. m.count[p] > 0 /\ p \in ToSet(m.prioIndex)
    BY <1>2, <1>5, <1>6
  <2> QED
    BY <2>1, <2>2
<1>9. ASSUME NEW q \in Priorities PROVE InOwnPlace(m, q)
  <2>1. CASE q # p
    <3>1. InOwnPlace(l, q)
      BY DEF ListsOK
    <3>2. m.datas[q] = l.datas[q] /\ m.count[q] = l.count[q]
      BY <1>6, <2>1
    <3> QED
      BY <3>1, <3>2 DEF InOwnPlace
  <2>2. CASE q = p
    <3>1. \A i \in 1 .. n : i = n \/ i \in 1 .. l.count[p]
      BY <1>2
    <3>2. \A i \in 1 .. l.count[p] : old[i] # s /\ prio[old[i]] = p
      BY <1>1 DEF Listed, ListsOK, InOwnPlace
    <3>3. \A i, j \in 1 .. l.count[p] : i # j => old[i] # old[j]
      BY <1>1 DEF ListsOK, InOwnPlace
    <3> QED
      BY <1>3, <1>6, <2>2, <3>1, <3>2, <3>3 DEF InOwnPlace
  <2> QED
    BY <2>1, <2>2
<1>10. ASSUME NEW q \in Priorities PROVE Listed(m, q) \subseteq Listed(l, q) \cup {s}
  <2>1. CASE q # p
    BY <1>6, <2>1 DEF Listed
  <2>2. CASE q = p
    <3>1. \A i \in 1 .. n : i = n \/ i \in 1 .. l.count[p]
      BY <1>2
    <3> QED
      BY <1>3, <1>6, <2>2, <3>1 DEF Listed
  <2> QED
    BY <2>1, <2>2
<1> QED
  BY <1>5, <1>7, <1>8, <1>9, <1>10 DEF ListsOK, m

(* destroy() of a source that is in the list of its priority.              *)
LEMMA RemovedFromLists ==
    ASSUME NEW l, ListsOK(l), NEW s \in AllSources, s \in Listed(l, prio[s])
    PROVE  /\ ListsOK(RemoveFromSourceList(l, s, prio[s]))
           /\ \A p \in Priorities :
                 Listed(RemoveFromSourceList(l, s, prio[s]), p) \subseteq Listed(l, p)
<1> DEFINE p == prio[s]
           n == l.count[p]
           old == l.datas[p]
           k == CHOOSE i \in 1 .. n : old[i] = s /\ \A j \in 1 .. i - 1 : old[j] # s
           d == MovedDown(old, k, n)
           m == RemoveFromSourceList(l, s, p)
<1>1. p \in Priorities
  BY SourcesAssumption DEF AllSources
<1>2. /\ n \in Nat /\ old \in Seq(AllSources) /\ Len(old) \in Nat /\ n <= Len(old)
      /\ \A i \in 1 .. Len(old) : old[i] \in AllSources
  BY <1>1 DEF ListsOK, ListsTyped
<1>3. \A i, j \in 1 .. n : prio[old[i]] = p /\ (i # j => old[i] # old[j])
  BY <1>1 DEF ListsOK, InOwnPlace
<1>4. k \in 1 .. n /\ old[k] = s
  <2>1. PICK i \in 1 .. n : old[i] = s
    BY DEF Listed
  <2>2. \A j \in 1 .. i - 1 : old[j] # s
    BY <1>2, <1>3, <2>1
  <2> QED
    BY <2>1, <2>2
<1>5. /\ m.datas = [l.datas EXCEPT ![p] = d]
      /\ m.count = [l.count EXCEPT ![p] = n - 1]
      /\ m.prioIndex = IF n = 1 THEN RemoveIndex(l.prioIndex, p) ELSE l.prioIndex
      /\ m = [l EXCEPT !.datas = m.datas, !.count = m.count, !.prioIndex = m.prioIndex]
  BY DEF RemoveFromSourceList, ListsOK, ListsTyped
<1> HIDE DEF k
<1>6. d \in Seq(AllSources) /\ Len(d) = Len(old)
  <2>1. d \in [1 .. Len(old) -> AllSources]
    BY <1>2, <1>4 DEF MovedDown
  <2> QED
    BY <1>2, <2>1
<1>7. \A i \in 1 .. n - 1 : d[i] = old[IF i < k THEN i ELSE i + 1]
  BY <1>2, <1>4 DEF MovedDown
<1> HIDE DEF d, m
<1>8. p \in ToSet(l.prioIndex)
  BY <1>1, <1>2, <1>4 DEF ListsOK
<1>9. /\ m.prioIndex \in Seq(Priorities)
      /\ Ascending(m.prioIndex)
      /\ ToSet(m.prioIndex) = IF n = 1 THEN ToSet(l.prioIndex) \ {p} ELSE ToSet(l.prioIndex)
  <2>1. l.prioIndex \in Seq(Priorities) /\ Ascending(l.prioIndex)
    BY DEF ListsOK, ListsTyped
  <2> QED
    <3>1. CASE n = 1
      BY <1>5, <1>8, <2>1, <3>1, RemoveIndexShape
    <3>2. CASE n # 1
      BY <1>5, <2>1, <3>2
    <3> QED
      BY <3>1, <3>2
<1>10. /\ m.datas \in [Priorities -> Seq(AllSources)] /\ m.count \in [Priorities -> Nat]
       /\ m.datas[p] = d /\ m.count[p] = n - 1
       /\ \A q \in Priorities \ {p} : m.datas[q] = l.datas[q] /\ m.count[q] = l.count[q]
  BY <1>1, <1>2, <1>4, <1>5, <1>6 DEF ListsOK, ListsTyped
<1>11. ListsTyped(m)
  <2>1. m \in [prioIndex : Seq(Priorities), datas : [Priorities -> Seq(AllSources)],
               count : [Priorities -> Nat]]
    BY <1>5, <1>9, <1>10, ListsRecord DEF ListsOK, ListsTyped
  <2>2. \A q \in Priorities : m.count[q] <= Len(m.datas[q])
    <3>1. m.count[p] <= Len(m.datas[p])
      BY <1>2, <1>6, <1>10
    <3>2. \A q \in Priorities \ {p} : m.count[q] <= Len(m.datas[q])
      BY <1>10 DEF ListsOK, ListsTyped
    <3> QED
      BY <3>1, <3>2
  <2> QED
    BY <2>1, <2>2 DEF ListsTyped
<1>12. \A q \in Priorities : m.count[q] > 0 <=> q \in ToSet(m.prioIndex)
  <2>1. ASSUME NEW q \in Priorities \ {p}
        PROVE  m.count[q] > 0 <=> q \in ToSet(m.prioIndex)
    BY <1>9, <1>10 DEF ListsOK
  <2>2. m.count[p] > 0 <=> p \in ToSet(m.prioIndex)
    BY <1>2, <1>4, <1>8, <1>9, <1>10
  <2> QED
    BY <2>1, <2>2
<1>13. ASSUME NEW i \in 1 .. n - 1
       PROVE  (IF i < k THEN i ELSE i + 1) \in 1 .. n
  BY <1>2, <1>4
<1>14. ASSUME NEW q \in Priorities PROVE InOwnPlace(m, q)
  <2>1. CASE q # p
    BY <1>10, <2>1 DEF ListsOK, InOwnPlace
  <2>2. CASE q = p
    <3>1. ASSUME NEW i \in 1 .. n - 1, NEW j \in 1 .. n - 1
          PROVE  prio[d[i]] = p /\ (i # j => d[i] # d[j])
      <4> DEFINE a == IF i < k THEN i ELSE i + 1
                 b == IF j < k THEN j ELSE j + 1
      <4>1. a \in 1 .. n /\ b \in 1 .. n /\ (i # j => a # b)
        BY <1>2, <1>4, <1>13
      <4>2. d[i] = old[a] /\ d[j] = old[b]
        BY <1>7
      <4> HIDE DEF a, b
      <4> QED
        BY <1>3, <4>1, <4>2
    <3> QED
      BY <1>10, <2>2, <3>1 DEF InOwnPlace
  <2> QED
    BY <2>1, <2>2
<1>15. ASSUME NEW q \in Priorities PROVE Listed(m, q) \subseteq Listed(l, q)
  <2>1. CASE q # p
    BY <1>10, <2>1 DEF Listed
  <2>2. CASE q = p
    <3>1. ASSUME NEW i \in 1 .. n - 1 PROVE d[i] \in Listed(l, p)
      BY <1>7, <1>13 DEF Listed
    <3>2. Listed(m, p) = {d[i] : i \in 1 .. n - 1}
      BY <1>10 DEF Listed
    <3> QED
      BY <2>2, <3>1, <3>2
  <2> QED
    BY <2>1, <2>2
<1> QED
  BY <1>9, <1>11, <1>12, <1>14, <1>15 DEF ListsOK, m

(* removeAll(), in whatever order the hash table has.                      *)
LEMMA EmptiedLists ==
    ASSUME NEW l, ListsOK(l), NEW m \in Emptied(l)
    PROVE  /\ ListsOK(m) /\ m.prioIndex = <<>>
           /\ \A p \in Priorities : Listed(m, p) = {}
<1>1. PICK d \in [Priorities -> UNION {LeftBehind(l.datas[p], l.count[p]) : p \in Priorities}] :
         /\ \A p \in Priorities : d[p] \in LeftBehind(l.datas[p], l.count[p])
         /\ m = [prioIndex |-> <<>>, datas |-> d, count |-> [p \in Priorities |-> 0]]
  BY DEF Emptied
<1>2. ASSUME NEW p \in Priorities PROVE d[p] \in Seq(AllSources)
  <2> DEFINE old == l.datas[p]
             n == l.count[p]
  <2>1. /\ n \in Nat /\ old \in Seq(AllSources) /\ Len(old) \in Nat /\ n <= Len(old)
        /\ \A i \in 1 .. Len(old) : old[i] \in AllSources
    BY DEF ListsOK, ListsTyped
  <2>2. PICK last \in [1 .. n -> 1 .. n] :
           d[p] = [i \in 1 .. Len(old) |-> IF i <= n THEN old[last[i]] ELSE old[i]]
    BY <1>1 DEF LeftBehind
  <2>3. d[p] \in [1 .. Len(old) -> AllSources]
    <3>1. ASSUME NEW i \in 1 .. n PROVE old[last[i]] \in AllSources
      <4>1. last[i] \in 1 .. n
        OBVIOUS
      <4>2. last[i] \in 1 .. Len(old)
        BY <2>1, <4>1
      <4> QED
        BY <2>1, <4>2
    <3>2. \A i \in 1 .. Len(old) : (IF i <= n THEN old[last[i]] ELSE old[i]) \in AllSources
      BY <2>1, <3>1
    <3>3. [i \in 1 .. Len(old) |-> IF i <= n THEN old[last[i]] ELSE old[i]]
              \in [1 .. Len(old) -> AllSources]
      BY <3>2
    <3> QED
      BY <2>2, <3>3
  <2> QED
    BY <2>1, <2>3, IsSequence
<1>3. /\ m.prioIndex = <<>> /\ m.datas = d /\ m.count = [p \in Priorities |-> 0]
      /\ d \in [Priorities -> Seq(AllSources)]
  BY <1>1, <1>2
<1>4. /\ m \in [prioIndex : Seq(Priorities), datas : [Priorities -> Seq(AllSources)],
                count : [Priorities -> Nat]]
      /\ \A p \in Priorities : m.count[p] <= Len(m.datas[p])
  <2>1. <<>> \in Seq(Priorities)
    OBVIOUS
  <2> QED
    BY <1>1, <1>2, <1>3, <2>1
<1>5. Ascending(m.prioIndex) /\ \A p \in Priorities : p \notin ToSet(m.prioIndex)
  BY <1>3 DEF Ascending, ToSet
<1> QED
  BY <1>3, <1>4, <1>5 DEF ListsOK, ListsTyped, InOwnPlace, Listed

(* The constructor.                                                        *)
LEMMA FirstLists ==
    /\ ListsOK(NoLists)
    /\ \A p \in Priorities : Listed(NoLists, p) = {}
<1>1. /\ NoLists \in [prioIndex : Seq(Priorities), datas : [Priorities -> Seq(AllSources)],
                      count : [Priorities -> Nat]]
      /\ \A p \in Priorities : NoLists.count[p] = 0 /\ NoLists.datas[p] = <<>>
      /\ NoLists.prioIndex = <<>>
  <2>1. <<>> \in Seq(Priorities) /\ <<>> \in Seq(AllSources)
    OBVIOUS
  <2> QED
    BY <2>1 DEF NoLists
<1>2. Ascending(<<>>) /\ \A p \in Priorities : p \notin ToSet(<<>>)
  BY DEF Ascending, ToSet
<1> QED
  BY <1>1, <1>2 DEF ListsOK, ListsTyped, InOwnPlace, Listed

(* A source of the storage is in the list of its own priority.             *)
LEMMA StoredAtPrio ==
    ASSUME NEW l, ListsOK(l), NEW p \in Priorities, NEW s \in Listed(l, p)
    PROVE  s \in AllSources /\ prio[s] = p
<1>1. PICK i \in 1 .. l.count[p] : s = l.datas[p][i]
  BY DEF Listed
<1>2. /\ l.count[p] \in Nat /\ l.datas[p] \in Seq(AllSources)
      /\ Len(l.datas[p]) \in Nat /\ l.count[p] <= Len(l.datas[p])
  BY DEF ListsOK, ListsTyped
<1>3. i \in 1 .. Len(l.datas[p])
  BY <1>2
<1>4. prio[s] = p
  BY <1>1 DEF ListsOK, InOwnPlace
<1> QED
  BY <1>1, <1>2, <1>3, <1>4
-----------------------------------------------------------------------------
(* The storage holds sources that have been added, and the wake-up source. *)
StorageOK ==
    /\ ListsOK(lists) /\ added \subseteq Sources
    /\ \A p \in Priorities : Listed(lists, p) \subseteq added \cup {Wakeup}

DataTyped ==
    /\ isRunning \in [Threads -> BOOLEAN]
    /\ active \subseteq AllSources /\ ready \subseteq Sources
    /\ readyTime \in [AllSources -> Nat \cup {-1}]
    /\ now \in Nat /\ eventTime \in [time : Nat, fresh : BOOLEAN]
    /\ edges \subseteq AllSources /\ events \subseteq AllSources
    /\ sleep \in Nat \cup {-1}
    /\ nReady \in Nat /\ at \in Nat
    /\ iter \in [value : Nat \ {0}, count : Nat]
    /\ pendingDispatches \in Seq(Sources \cup {NULL})
    /\ pendingDispatchesCount \in 0 .. Len(pendingDispatches)
    /\ current \in Sources \cup {NULL}
    /\ crashed \in {"no", "null", "assert", "misplaced"}

dataVars == <<active, ready, readyTime, now, eventTime, edges, events, sleep, nReady, at,
              iter, pendingDispatches, current, crashed>>

DInv == IInv /\ StorageOK /\ DataTyped

LEMMA StoredSources ==
    ASSUME StorageOK
    PROVE  \A s \in Stored : /\ s \in AllSources /\ s \in Listed(lists, prio[s])
                             /\ s \in added \cup {Wakeup}
<1> SUFFICES ASSUME NEW s \in Stored
             PROVE  s \in AllSources /\ s \in Listed(lists, prio[s]) /\ s \in added \cup {Wakeup}
  OBVIOUS
<1>1. PICK p \in Priorities : s \in Listed(lists, p)
  BY DEF Stored
<1>2. s \in AllSources /\ prio[s] = p
  BY <1>1, StoredAtPrio DEF StorageOK
<1> QED
  BY <1>1, <1>2 DEF StorageOK

LEMMA StorageInit == Init => StorageOK
<1> SUFFICES ASSUME Init PROVE StorageOK
  OBVIOUS
<1>1. lists = AddToSourceList(NoLists, Wakeup, prio[Wakeup]) /\ added = {}
  BY SourcesAssumption DEF Init
<1>2. Wakeup \in AllSources
  BY DEF AllSources
<1>3. /\ ListsOK(lists)
      /\ \A p \in Priorities : Listed(lists, p) \subseteq Listed(NoLists, p) \cup {Wakeup}
  BY <1>1, <1>2, FirstLists, AddedToLists
<1> QED
  BY <1>1, <1>3, FirstLists DEF StorageOK

LEMMA StorageAdds ==
    ASSUME StorageOK, NEW s \in Sources \ added, added' = added \cup {s},
           lists' = AddToSourceList(lists, s, prio[s])
    PROVE  /\ StorageOK'
           /\ Stored' \subseteq Stored \cup {s}
<1>1. s \in AllSources /\ s # Wakeup
  BY SourcesAssumption DEF AllSources
<1>2. \A p \in Priorities : s \notin Listed(lists, p)
  BY <1>1 DEF StorageOK
<1>3. /\ ListsOK(lists')
      /\ \A p \in Priorities : Listed(lists', p) \subseteq Listed(lists, p) \cup {s}
  BY <1>1, <1>2, AddedToLists DEF StorageOK
<1>4. StorageOK'
  BY <1>3 DEF StorageOK
<1> QED
  BY <1>3, <1>4 DEF Stored

LEMMA StorageRemoves ==
    ASSUME StorageOK, NEW s \in Sources, Destroy(s), UNCHANGED added
    PROVE  /\ StorageOK'
           /\ Stored' \subseteq Stored
<1>1. CASE s \notin Stored
  BY <1>1 DEF Destroy, StorageOK, Stored
<1>2. CASE s \in Stored
  <2>1. s \in AllSources /\ s \in Listed(lists, prio[s])
    BY <1>2, StoredSources
  <2>2. lists' = RemoveFromSourceList(lists, s, prio[s])
    BY <1>2 DEF Destroy
  <2>3. /\ ListsOK(lists')
        /\ \A p \in Priorities : Listed(lists', p) \subseteq Listed(lists, p)
    BY <2>1, <2>2, RemovedFromLists DEF StorageOK
  <2>4. StorageOK'
    BY <2>3 DEF StorageOK
  <2> QED
    BY <2>3, <2>4 DEF Stored
<1> QED
  BY <1>1, <1>2

LEMMA StorageEmpties ==
    ASSUME StorageOK, lists' \in Emptied(lists), UNCHANGED added
    PROVE  StorageOK' /\ Stored' = {} /\ lists'.prioIndex = <<>>
<1>1. /\ ListsOK(lists') /\ lists'.prioIndex = <<>>
      /\ \A p \in Priorities : Listed(lists', p) = {}
  BY EmptiedLists DEF StorageOK
<1>2. StorageOK'
  BY <1>1 DEF StorageOK
<1> QED
  BY <1>1, <1>2 DEF Stored

LEMMA StorageKept ==
    ASSUME StorageOK, UNCHANGED <<lists, added>> PROVE StorageOK' /\ Stored' = Stored
  BY DEF StorageOK, Stored

(* Only these actions change what is stored.                               *)
LEMMA StorageStep ==
    ASSUME StorageOK, DataTyped, [Next]_vars
    PROVE  /\ StorageOK'
           /\ \/ UNCHANGED <<lists, added>> /\ Stored' = Stored
              \/ Stored' \subseteq Stored
              \/ \E t \in Threads, s \in Sources : Add(t, s) /\ Stored' \subseteq Stored \cup {s}
<1>1. CASE UNCHANGED <<lists, added>>
  BY <1>1, StorageKept
<1>2. ASSUME NEW t \in Threads, NEW s \in Sources, Add(t, s)
      PROVE  StorageOK' /\ Stored' \subseteq Stored \cup {s}
  BY <1>2, StorageAdds DEF Add
<1>3. ASSUME NEW t \in Threads, NEW s \in Sources, RemoveSource(t, s)
      PROVE  StorageOK' /\ Stored' \subseteq Stored
  BY <1>3, StorageRemoves DEF RemoveSource
<1>4. ASSUME NEW t \in Threads, RemoveAll(t) PROVE StorageOK' /\ Stored' \subseteq Stored
  BY <1>4, StorageEmpties DEF RemoveAll
<1>5. ASSUME NEW t \in Threads, CallbackReturns(t)
      PROVE  UNCHANGED <<lists, added>> \/ (StorageOK' /\ Stored' \subseteq Stored)
  <2>1. CASE current \in Sources
    BY <1>5, <2>1, StorageRemoves DEF CallbackReturns
  <2>2. CASE current \notin Sources
    <3>1. current \notin active
      BY <2>2, SourcesAssumption DEF DataTyped, AllSources
    <3> QED
      BY <1>5, <3>1 DEF CallbackReturns
  <2> QED
    BY <2>1, <2>2
<1>6. ASSUME NEW t \in Threads, Owning(t), ~CallbackReturns(t)
      PROVE  UNCHANGED <<lists, added>>
  BY <1>6 DEF Owning, LoopStarts, LoopLeaves, Prepare, PollReturns, Acknowledge,
     CheckNext, ExcuteNext, IterateReturns, sourceVars
<1>7. ASSUME NEW t \in Threads, Entering(t) \/ PollInterrupted(t) \/ WakesByItself(t)
      PROVE  UNCHANGED <<lists, added>>
  BY <1>7 DEF Entering, LoopContends, LoopWakes, IterateAcquires, IterateWaits,
     IterateWakes, PollInterrupted, WakesByItself, sourceVars
<1>8. ASSUME NEW t \in Threads,
             \/ Run(t) \/ Invoke(t) \/ \E c \in Calls[t] : Iterate(t, c)
             \/ \E s \in Sources : \E time \in {-1, now, now + Interval} : SetReadyTime(t, s, time)
             \/ \E l \in Threads : Quit(t, l)
      PROVE  UNCHANGED <<lists, added>>
  BY <1>8 DEF Run, Invoke, Iterate, SetReadyTime, Quit, sourceVars
<1>9. ASSUME Tick \/ (\E s \in Sources : DataArrives(s)) \/ UNCHANGED vars
      PROVE  UNCHANGED <<lists, added>>
  BY <1>9 DEF Tick, DataArrives, vars, sourceVars
<1>10. ASSUME NEW t \in Threads, Calling(t)
       PROVE  \/ UNCHANGED <<lists, added>>
              \/ \E s \in Sources : Add(t, s) \/ RemoveSource(t, s)
              \/ RemoveAll(t)
  BY <1>8, <1>10 DEF Calling
<1> QED
  BY <1>1, <1>2, <1>3, <1>4, <1>5, <1>6, <1>7, <1>9, <1>10 DEF Next

LEMMA DataInit == Init => DataTyped
<1> SUFFICES ASSUME Init PROVE DataTyped
  OBVIOUS
<1>1. <<>> \in Seq(Sources \cup {NULL}) /\ Len(<<>>) = 0
  OBVIOUS
<1> QED
  BY <1>1 DEF Init, DataTyped, InitIter

LEMMA DataKept ==
    ASSUME DataTyped, UNCHANGED dataVars, isRunning' \in [Threads -> BOOLEAN],
           pendingDispatchesCount' = pendingDispatchesCount \/ pendingDispatchesCount' = 0
    PROVE  DataTyped'
  BY DEF DataTyped, dataVars

(* What getTimeout() and poll() leave.                                     *)
LEMMA PrepareTyped ==
    ASSUME StorageOK, DataTyped, NEW t \in Threads, Prepare(t)
    PROVE  DataTyped'
<1> DEFINE prepared == {s \in Stored \ {Wakeup} : Prepared(s)}
           first == IF prepared = {} THEN MaxInt ELSE Min({prio[s] : s \in prepared})
           looked == {s \in Stored \ {Wakeup} : prio[s] <= first}
           timed == {s \in looked \ ready : kind[s] # "idle" /\ readyTime[s] # -1}
           times == {readyTime[s] : s \in timed}
<1>1. /\ ready' = ready \cup (prepared \cap looked)
      /\ sleep' = IF prepared # {} \/ ~Block(t) THEN 0 ELSE SleepUntil(times)
      /\ eventTime' = [time |-> IF timed # {} THEN now ELSE eventTime.time,
                       fresh |-> timed # {} /\ prepared # {}]
  BY DEF Prepare
<1>2. /\ UNCHANGED <<isRunning, active, readyTime, now, edges, events, nReady, at, iter,
                     pendingDispatches, pendingDispatchesCount, current, crashed>>
  BY DEF Prepare, sourceVars
<1>3. Stored \ {Wakeup} \subseteq Sources
  BY StoredSources DEF AllSources
<1>4. ready' \subseteq Sources
  BY <1>1, <1>3 DEF DataTyped
<1>5. times \subseteq Nat
  <2>1. ASSUME NEW s \in timed PROVE readyTime[s] \in Nat
    <3>1. s \in AllSources /\ readyTime[s] # -1
      BY <1>3 DEF AllSources
    <3> QED
      BY <3>1 DEF DataTyped
  <2> HIDE DEF timed
  <2> QED
    BY <2>1
<1> HIDE DEF prepared, timed, times
<1>6. sleep' \in Nat \cup {-1}
  BY <1>1, <1>5, LeastNatural DEF SleepUntil
<1>7. eventTime' \in [time : Nat, fresh : BOOLEAN]
  BY <1>1 DEF DataTyped
<1> QED
  BY <1>2, <1>4, <1>6, <1>7 DEF DataTyped

LEMMA TimeTyped == DataTyped => Time \in Nat
  BY DEF DataTyped, Time

(* A source that foreachCheck() puts into the array.                       *)
LEMMA PendingPut ==
    ASSUME NEW q \in Seq(Sources \cup {NULL}), NEW c \in 0 .. Len(q), NEW s \in Sources
    PROVE  LET r == IF c < Len(q) THEN [q EXCEPT ![c + 1] = s] ELSE Append(q, s) IN
           /\ r \in Seq(Sources \cup {NULL}) /\ Len(r) >= c + 1
           /\ r[c + 1] = s /\ \A i \in 1 .. c : r[i] = q[i]
<1> DEFINE S == Sources \cup {NULL}
<1>1. Len(q) \in Nat /\ c \in Nat /\ s \in S
  OBVIOUS
<1>2. CASE c < Len(q)
  BY <1>1, <1>2
<1>3. CASE ~(c < Len(q))
  <2>1. c = Len(q)
    BY <1>1, <1>3
  <2>2. /\ Append(q, s) \in Seq(S) /\ Len(Append(q, s)) = Len(q) + 1
        /\ Append(q, s)[Len(q) + 1] = s
        /\ \A i \in 1 .. Len(q) : Append(q, s)[i] = q[i]
    BY <1>1, AppendProperties
  <2> QED
    BY <1>1, <1>3, <2>1, <2>2
<1> QED
  BY <1>2, <1>3

LEMMA CheckTyped ==
    ASSUME DataTyped, NEW t \in Threads, CheckNext(t)
    PROVE  DataTyped'
<1> DEFINE s == NextSource(lists, iter)
<1>1. UNCHANGED <<isRunning, active, readyTime, now, edges, events, sleep, at, current>>
  BY DEF CheckNext, sourceVars
<1>2. iter' \in [value : Nat \ {0}, count : Nat]
  <2>1. iter' = InitIter \/ iter' = NextIter(lists, iter)
    BY DEF CheckNext
  <2> QED
    BY <2>1 DEF InitIter, NextIter, DataTyped
<1>3. crashed' \in {"no", "null", "assert", "misplaced"}
  BY DEF CheckNext, DataTyped
<1>4. \/ UNCHANGED <<ready, eventTime, pendingDispatches, pendingDispatchesCount, nReady>>
      \/ s \in active \ {Wakeup} /\ CheckSource(s)
  BY DEF CheckNext
<1> HIDE DEF s
<1>5. CASE UNCHANGED <<ready, eventTime, pendingDispatches, pendingDispatchesCount, nReady>>
  BY <1>1, <1>2, <1>3, <1>5 DEF DataTyped
<1>6. CASE s \in active \ {Wakeup} /\ CheckSource(s)
  <2>1. s \in Sources
    BY <1>6 DEF DataTyped, AllSources
  <2>2. eventTime' \in [time : Nat, fresh : BOOLEAN]
    BY <1>6, TimeTyped DEF CheckSource, DataTyped
  <2>3. /\ ready' \subseteq Sources /\ nReady' \in Nat
        /\ pendingDispatches' \in Seq(Sources \cup {NULL})
        /\ pendingDispatchesCount' \in 0 .. Len(pendingDispatches')
    <3>1. CASE Checked(s)
      <4>1. /\ pendingDispatches' = IF pendingDispatchesCount < Len(pendingDispatches)
                   THEN [pendingDispatches EXCEPT ![pendingDispatchesCount + 1] = s]
                   ELSE Append(pendingDispatches, s)
            /\ pendingDispatchesCount' = pendingDispatchesCount + 1
            /\ ready' = ready \cup {s} /\ nReady' = nReady + 1
        BY <1>6, <3>1 DEF CheckSource
      <4>2. /\ pendingDispatches' \in Seq(Sources \cup {NULL})
            /\ Len(pendingDispatches') >= pendingDispatchesCount + 1
        BY <2>1, <4>1, PendingPut DEF DataTyped
      <4>3. Len(pendingDispatches') \in Nat
        BY <4>2
      <4> QED
        BY <2>1, <4>1, <4>2, <4>3 DEF DataTyped
    <3>2. CASE ~Checked(s)
      BY <1>6, <3>2 DEF CheckSource, DataTyped
    <3> QED
      BY <3>1, <3>2
  <2> QED
    BY <1>1, <1>2, <1>3, <2>2, <2>3 DEF DataTyped
<1> QED
  BY <1>4, <1>5, <1>6

LEMMA ExcuteTyped ==
    ASSUME DataTyped, NEW t \in Threads, ExcuteNext(t)
    PROVE  DataTyped'
<1> DEFINE s == pendingDispatches[at + 1]
<1>1. at + 1 \in 1 .. Len(pendingDispatches)
  BY DEF ExcuteNext, DataTyped
<1>2. s \in Sources \cup {NULL}
  BY <1>1 DEF DataTyped
<1>3. /\ pendingDispatches' = [pendingDispatches EXCEPT ![at + 1] = NULL]
      /\ at' = at + 1 /\ ready' = ready \ {s}
      /\ crashed' = "assert" \/ crashed' = crashed
      /\ current' = s \/ current' = current
      /\ UNCHANGED <<isRunning, active, readyTime, now, eventTime, edges, events, sleep,
                     nReady, iter, pendingDispatchesCount>>
  BY DEF ExcuteNext, sourceVars
<1>4. /\ pendingDispatches' \in Seq(Sources \cup {NULL})
      /\ Len(pendingDispatches') = Len(pendingDispatches)
  BY <1>1, <1>3 DEF DataTyped
<1> HIDE DEF s
<1> QED
  BY <1>2, <1>3, <1>4 DEF DataTyped

LEMMA ReturnsTyped ==
    ASSUME DataTyped, NEW t \in Threads, IterateReturns(t) PROVE DataTyped'
<1>1. /\ pendingDispatchesCount' = pendingDispatchesCount \/ pendingDispatchesCount' = 0
      /\ sleep' = 0 /\ nReady' = 0 /\ iter' = InitIter /\ events' = {} /\ at' = 0
      /\ current' = NULL
      /\ UNCHANGED <<isRunning, active, ready, readyTime, now, eventTime, edges,
                     pendingDispatches, crashed>>
  BY DEF IterateReturns, sourceVars
<1>2. iter' \in [value : Nat \ {0}, count : Nat]
  BY <1>1 DEF InitIter
<1> QED
  BY <1>1, <1>2 DEF DataTyped

LEMMA CallbackTyped ==
    ASSUME DataTyped, NEW t \in Threads, CallbackReturns(t) PROVE DataTyped'
<1>1. /\ current' = NULL
      /\ UNCHANGED <<isRunning, ready, now, sleep, nReady, iter, events, at,
                     pendingDispatches, pendingDispatchesCount>>
  BY DEF CallbackReturns
<1>2. /\ active' \subseteq active
      /\ edges' \subseteq edges \cup {Wakeup}
      /\ crashed' = crashed \/ crashed' = "misplaced"
  BY DEF CallbackReturns, Destroy, Signal
<1>3. readyTime' \in [AllSources -> Nat \cup {-1}] /\ eventTime' \in [time : Nat, fresh : BOOLEAN]
  <2>1. Time + Interval \in Nat /\ Time \in Nat
    BY TimeTyped, BoundsAssumption
  <2>2. \/ UNCHANGED <<readyTime, eventTime>>
        \/ /\ eventTime' = [time |-> Time, fresh |-> TRUE]
           /\ readyTime' = [readyTime EXCEPT ![current] = Time + Interval]
    BY DEF CallbackReturns
  <2>3. [time |-> Time, fresh |-> TRUE] \in [time : Nat, fresh : BOOLEAN]
    BY <2>1
  <2>4. [readyTime EXCEPT ![current] = Time + Interval] \in [AllSources -> Nat \cup {-1}]
    BY <2>1 DEF DataTyped
  <2> QED
    BY <2>2, <2>3, <2>4 DEF DataTyped
<1>4. Wakeup \in AllSources
  BY DEF AllSources
<1> QED
  BY <1>1, <1>2, <1>3, <1>4 DEF DataTyped

LEMMA CallTyped ==
    ASSUME DataTyped, NEW t \in Threads, Calling(t) PROVE DataTyped'
<1>0. Wakeup \in AllSources
  BY DEF AllSources
<1>1. CASE Run(t) \/ Invoke(t) \/ \E c \in Calls[t] : Iterate(t, c)
  <2>1. /\ UNCHANGED <<dataVars, isRunning>>
        /\ pendingDispatchesCount' = pendingDispatchesCount \/ pendingDispatchesCount' = 0
    BY <1>1 DEF Run, Invoke, Iterate, dataVars, sourceVars, roundVars
  <2> QED
    BY <2>1, DataKept DEF DataTyped
<1>2. ASSUME NEW s \in Sources, Add(t, s) PROVE DataTyped'
  <2>1. /\ UNCHANGED <<isRunning, active, ready, now, eventTime, events, sleep, nReady, at, iter,
                       pendingDispatches, pendingDispatchesCount, current, crashed>>
        /\ edges' \subseteq edges \cup {Wakeup}
        /\ readyTime' = readyTime \/ readyTime' = [readyTime EXCEPT ![s] = now + Interval]
    BY <1>2 DEF Add, threadVars, roundVars, AddSignals, Signal
  <2>2. readyTime' \in [AllSources -> Nat \cup {-1}]
    BY <2>1, BoundsAssumption DEF DataTyped
  <2> QED
    BY <1>0, <2>1, <2>2 DEF DataTyped
<1>3. ASSUME NEW s \in Sources, RemoveSource(t, s) PROVE DataTyped'
  <2>1. /\ UNCHANGED <<isRunning, ready, readyTime, now, eventTime, events, sleep, nReady, at, iter,
                       pendingDispatches, pendingDispatchesCount, current>>
        /\ active' \subseteq active /\ edges' \subseteq edges
        /\ crashed' = crashed \/ crashed' = "misplaced"
    BY <1>3 DEF RemoveSource, threadVars, roundVars, Destroy
  <2> QED
    BY <2>1 DEF DataTyped
<1>4. ASSUME NEW s \in Sources, NEW time \in {-1, now, now + Interval}, SetReadyTime(t, s, time)
      PROVE  DataTyped'
  <2>1. /\ UNCHANGED <<isRunning, active, ready, now, eventTime, events, sleep, nReady, at, iter,
                       pendingDispatches, pendingDispatchesCount, current, crashed>>
        /\ edges' = edges \cup {Wakeup}
        /\ readyTime' = [readyTime EXCEPT ![s] = time]
    BY <1>4 DEF SetReadyTime, threadVars, roundVars, Signal
  <2>2. time \in Nat \cup {-1}
    BY BoundsAssumption DEF DataTyped
  <2>3. readyTime' \in [AllSources -> Nat \cup {-1}]
    BY <2>1, <2>2 DEF DataTyped
  <2> QED
    BY <1>0, <2>1, <2>3 DEF DataTyped
<1>5. CASE RemoveAll(t)
  <2>1. /\ UNCHANGED <<isRunning, active, ready, readyTime, now, eventTime, edges, events, sleep,
                       nReady, at, iter, pendingDispatchesCount, current, crashed>>
        /\ pendingDispatches' = [i \in DOMAIN pendingDispatches |->
                                   IF i <= pendingDispatchesCount THEN NULL
                                   ELSE pendingDispatches[i]]
    BY <1>5 DEF RemoveAll, threadVars, roundVars
  <2>2. /\ pendingDispatches' \in Seq(Sources \cup {NULL})
        /\ Len(pendingDispatches') = Len(pendingDispatches)
    <3>1. Len(pendingDispatches) \in Nat /\ DOMAIN pendingDispatches = 1 .. Len(pendingDispatches)
      BY DEF DataTyped
    <3>2. pendingDispatches' \in [1 .. Len(pendingDispatches) -> Sources \cup {NULL}]
      BY <2>1, <3>1 DEF DataTyped
    <3> QED
      BY <3>1, <3>2
  <2> QED
    BY <2>1, <2>2 DEF DataTyped
<1>6. ASSUME NEW l \in Threads, Quit(t, l) PROVE DataTyped'
  <2>1. /\ UNCHANGED <<active, ready, readyTime, now, eventTime, events, sleep, nReady, at, iter,
                       pendingDispatches, pendingDispatchesCount, current, crashed>>
        /\ edges' = edges \cup {Wakeup}
        /\ isRunning' = [isRunning EXCEPT ![l] = FALSE]
    BY <1>6 DEF Quit, sourceVars, roundVars, Signal
  <2>2. isRunning' \in [Threads -> BOOLEAN]
    BY <2>1 DEF DataTyped
  <2> QED
    BY <1>0, <2>1, <2>2 DEF DataTyped
<1> QED
  BY <1>1, <1>2, <1>3, <1>4, <1>5, <1>6 DEF Calling

LEMMA DataStep ==
    ASSUME StorageOK, DataTyped, [Next]_vars PROVE DataTyped'
<1>1. ASSUME NEW t \in Threads, Entering(t) \/ WakesByItself(t) \/ LoopStarts(t) \/ LoopLeaves(t)
      PROVE  DataTyped'
  <2>1. /\ UNCHANGED dataVars
        /\ isRunning' = isRunning \/ isRunning' = [isRunning EXCEPT ![t] = TRUE]
        /\ pendingDispatchesCount' = pendingDispatchesCount \/ pendingDispatchesCount' = 0
    BY <1>1 DEF Entering, LoopContends, LoopWakes, IterateAcquires, IterateWaits, IterateWakes,
       WakesByItself, LoopStarts, LoopLeaves, StartLoop, dataVars, sourceVars, roundVars
  <2>2. isRunning' \in [Threads -> BOOLEAN]
    BY <2>1 DEF DataTyped
  <2> QED
    BY <2>1, <2>2, DataKept
<1>2. ASSUME NEW t \in Threads, PollReturns(t) \/ PollInterrupted(t) PROVE DataTyped'
  <2>1. /\ UNCHANGED <<isRunning, active, ready, readyTime, now, eventTime, sleep, nReady, at, iter,
                       pendingDispatches, pendingDispatchesCount, current, crashed>>
        /\ events' \subseteq events \cup edges /\ edges' \subseteq edges
    BY <1>2 DEF PollReturns, PollInterrupted, sourceVars
  <2> QED
    BY <2>1 DEF DataTyped
<1>3. ASSUME NEW t \in Threads, Acknowledge(t) PROVE DataTyped'
  <2>1. /\ UNCHANGED <<isRunning, active, ready, readyTime, now, eventTime, sleep, events, at,
                       pendingDispatches, pendingDispatchesCount, current, crashed>>
        /\ edges' \subseteq edges /\ nReady' = 0
        /\ iter' = [value |-> 1, count |-> 0]
    BY <1>3 DEF Acknowledge, sourceVars, InitIter
  <2>2. iter' \in [value : Nat \ {0}, count : Nat]
    BY <2>1
  <2> QED
    BY <2>1, <2>2 DEF DataTyped
<1>4. ASSUME NEW t \in Threads, Owning(t) PROVE DataTyped'
  BY <1>1, <1>2, <1>3, <1>4, PrepareTyped, CheckTyped, ExcuteTyped, ReturnsTyped, CallbackTyped
     DEF Owning
<1>5. CASE Tick
  <2>1. /\ UNCHANGED <<isRunning, active, ready, readyTime, eventTime, edges, events, sleep, nReady,
                       at, iter, pendingDispatches, pendingDispatchesCount, current, crashed>>
        /\ now' = now + 1
    BY <1>5 DEF Tick, threadVars, sourceVars, roundVars
  <2> QED
    BY <2>1 DEF DataTyped
<1>6. ASSUME NEW s \in Sources, DataArrives(s) PROVE DataTyped'
  <2>1. /\ UNCHANGED <<isRunning, active, ready, readyTime, now, eventTime, events, sleep, nReady,
                       at, iter, pendingDispatches, pendingDispatchesCount, current, crashed>>
        /\ edges' = edges \cup {s} /\ s \in AllSources
    BY <1>6 DEF DataArrives, threadVars, sourceVars, roundVars, AllSources
  <2> QED
    BY <2>1 DEF DataTyped
<1>7. CASE UNCHANGED vars
  BY <1>7 DEF vars, threadVars, sourceVars, roundVars, DataTyped
<1> QED
  BY <1>1, <1>2, <1>4, <1>5, <1>6, <1>7, CallTyped DEF Next

LEMMA DInvInit == Init => DInv
  BY InitInv, StorageInit, DataInit DEF DInv

LEMMA DInvNext == DInv /\ [Next]_vars => DInv'
  BY NextInv, StorageStep, DataStep DEF DInv

LEMMA DInvTypes == DInv => TypeOK
<1> SUFFICES ASSUME DInv PROVE TypeOK
  OBVIOUS
<1>1. ownerCount \in Nat
  <2>1. owner = NULL \/ owner \in Threads
    BY DEF DInv, IInv, Shape
  <2> QED
    BY <2>1, HeldType DEF DInv, IInv, OwnerCounted
<1> QED
  BY <1>1 DEF DInv, IInv, Shape, StorageOK, DataTyped, TypeOK

(* For any sources, priorities and callers.                                *)
THEOREM ManagerTypes == SafeSpec => []TypeOK
  BY DInvInit, DInvNext, DInvTypes, PTL DEF SafeSpec

(* add(), remove() and removeAll() of any threads in any order: prioIndex  *)
(* holds in order the priorities that have sources, each source is once in *)
(* the list of its priority, and it has been added.                        *)
THEOREM StorageConsistent == SafeSpec => []StorageOK
<1>1. DInv => StorageOK
  BY DEF DInv
<1> QED
  BY DInvInit, DInvNext, <1>1, PTL DEF SafeSpec
-----------------------------------------------------------------------------
(* A step does not forget the waiting threads if the manager is owned      *)
(* after it, if nobody begins to wait or takes a wake-up, if somebody is   *)
(* woken, or if nobody waits any more.                                     *)
LEMMA WaiterKept ==
    ASSUME WaiterWoken, crashed = "no",
           \/ owner' # NULL
           \/ /\ owner' = owner
              /\ \A x \in Threads : /\ pc'[x] = "waiting" => pc[x] = "waiting"
                                    /\ pc[x] = "woken" => pc'[x] = "woken"
           \/ \E x \in Threads : pc'[x] = "woken"
           \/ \A x \in Threads : pc'[x] # "waiting"
    PROVE  WaiterWoken'
  BY DEF WaiterWoken

LEMMA ReleaseWakes ==
    ASSUME IInv, WaiterWoken, crashed = "no", NEW t \in Threads, Held(t) > 0,
           NEW stage \in {"idle", "begun", "leave"}, Release(t, stage)
    PROVE  WaiterWoken'
<1>1. owner = t /\ t # NULL /\ pc[t] # "waiting" /\ pc \in [Threads -> Stages]
  BY NullIsNoThread DEF IInv, Shape, OwnerCounted, Held, InIteration
<1>2. CASE ownerCount # 1
  BY <1>1, <1>2, WaiterKept DEF Release
<1>3. CASE ownerCount = 1
  <2>1. PICK W \in WakeSome : pc' = Woken([pc EXCEPT ![t] = stage], W)
    BY <1>3 DEF Release
  <2>2. CASE \E x \in Threads : pc[x] = "waiting"
    <3>1. PICK w \in W : w \in Threads
      BY <2>2 DEF WakeSome
    <3>2. pc'[w] = "woken"
      BY <2>1, <3>1 DEF Woken
    <3> QED
      BY <3>1, <3>2, WaiterKept
  <2>3. CASE ~ \E x \in Threads : pc[x] = "waiting"
    <3>1. \A x \in Threads : pc'[x] # "waiting"
      BY <1>1, <2>1, <2>3 DEF Woken
    <3> QED
      BY <3>1, WaiterKept
  <2> QED
    BY <2>2, <2>3
<1> QED
  BY <1>2, <1>3

LEMMA WaiterNext ==
    ASSUME IInv, WaiterWoken, [Next]_vars PROVE WaiterWoken'
<1>1. ASSUME NEW t \in Threads, LoopLeaves(t) PROVE WaiterWoken'
  <2>1. Held(t) > 0 /\ crashed = "no" /\ Release(t, "idle")
    BY <1>1 DEF LoopLeaves, IInv, Shape, StageOf, Held, InIteration
  <2> QED
    BY <2>1, ReleaseWakes
<1>2. ASSUME NEW t \in Threads, IterateReturns(t) PROVE WaiterWoken'
  <2>1. Held(t) > 0 /\ crashed = "no"
    BY <1>2 DEF IterateReturns, Held, InIteration
  <2>2. PICK stage \in {"idle", "begun", "leave"} : Release(t, stage)
    BY <1>2 DEF IterateReturns
  <2> QED
    BY <2>1, <2>2, ReleaseWakes
<1>3. ASSUME NEW t \in Threads, Owning(t), ~LoopLeaves(t), ~IterateReturns(t)
      PROVE  WaiterWoken'
  <2>1. /\ Held(t) > 0 /\ crashed = "no" /\ owner' = owner
    BY <1>3 DEF Owning, LoopStarts, Prepare, PollReturns, Acknowledge, CheckNext, ExcuteNext,
       CallbackReturns, Held, InIteration, IInv, Shape, StageOf
  <2>2. owner' # NULL
    BY <2>1, NullIsNoThread DEF IInv, OwnerCounted
  <2> QED
    BY <2>1, <2>2, WaiterKept
<1>4. ASSUME NEW t \in Threads, Entering(t) \/ Run(t) \/ Invoke(t) PROVE WaiterWoken'
  <2>1. crashed = "no"
    BY <1>4 DEF Entering, LoopContends, LoopWakes, IterateAcquires, IterateWaits, IterateWakes,
       Run, Invoke, Called
  <2>2. Take(t) \/ (~MayAcquire(t) /\ owner' = owner)
    BY <1>4 DEF Entering, LoopContends, LoopWakes, IterateAcquires, IterateWaits, IterateWakes,
       Run, Invoke
  <2>3. owner' # NULL
    BY <2>2, NullIsNoThread DEF Take, MayAcquire
  <2> QED
    BY <2>1, <2>3, WaiterKept
<1>5. ASSUME NEW t \in Threads, NEW c \in Calls[t], Iterate(t, c) PROVE WaiterWoken'
  <2>1. /\ crashed = "no" /\ owner' = owner /\ pc[t] = "idle"
        /\ pc' = [pc EXCEPT ![t] = "begun"] /\ pc \in [Threads -> Stages]
    BY <1>5 DEF Iterate, Called, Goto, IInv, Shape
  <2>2. \A x \in Threads : /\ pc'[x] = "waiting" => pc[x] = "waiting"
                           /\ pc[x] = "woken" => pc'[x] = "woken"
    BY <2>1
  <2> QED
    BY <2>1, <2>2, WaiterKept
<1>6. ASSUME NEW t \in Threads, NEW l \in Threads, Quit(t, l) PROVE WaiterWoken'
  <2>1. crashed = "no" /\ \A x \in Threads : pc'[x] # "waiting"
    BY <1>6 DEF Quit, Called, Woken
  <2> QED
    BY <2>1, WaiterKept
<1>7. ASSUME NEW t \in Threads, PollInterrupted(t) PROVE WaiterWoken'
  <2>1. Held(t) > 0 /\ crashed = "no" /\ owner' = owner
    BY <1>7 DEF PollInterrupted, Held, InIteration
  <2>2. owner' # NULL
    BY <2>1, NullIsNoThread DEF IInv, OwnerCounted
  <2> QED
    BY <2>1, <2>2, WaiterKept
<1>8. ASSUME NEW t \in Threads, WakesByItself(t) PROVE WaiterWoken'
  <2>1. crashed = "no" /\ pc'[t] = "woken"
    BY <1>8 DEF WakesByItself, Goto, IInv, Shape
  <2> QED
    BY <2>1, WaiterKept
<1>9. ASSUME UNCHANGED threadVars, crashed = "no" PROVE WaiterWoken'
  BY <1>9, WaiterKept DEF threadVars
<1>10. ASSUME NEW t \in Threads, Calling(t)
       PROVE  \/ Run(t) \/ Invoke(t) \/ (\E c \in Calls[t] : Iterate(t, c))
              \/ (\E l \in Threads : Quit(t, l))
              \/ UNCHANGED threadVars /\ crashed = "no"
  BY <1>10 DEF Calling, Add, RemoveSource, RemoveAll, SetReadyTime, Called
<1>11. ASSUME Tick \/ \E s \in Sources : DataArrives(s)
       PROVE  UNCHANGED threadVars /\ crashed = "no"
  BY <1>11 DEF Tick, DataArrives
<1>12. CASE UNCHANGED vars
  BY <1>12 DEF vars, threadVars, WaiterWoken
<1> QED
  BY <1>1, <1>2, <1>3, <1>4, <1>5, <1>6, <1>7, <1>8, <1>9, <1>10, <1>11, <1>12 DEF Next

(* release(), wait() and quit(): whatever the threads call, a free manager *)
(* is not left alone with threads that wait for it.                        *)
THEOREM WaitersWoken == SafeSpec => []WaiterWoken
<1>1. Init => WaiterWoken
  BY DEF Init, WaiterWoken
<1>2. IInv /\ WaiterWoken /\ [Next]_vars => WaiterWoken'
  BY WaiterNext
<1> QED
  BY InitInv, NextInv, <1>1, <1>2, PTL DEF SafeSpec
-----------------------------------------------------------------------------
(* What other threads, the clock and the data can do while a thread has    *)
(* the manager: whatever concerns its sleep wakes it.                      *)
Own(t) == Owning(t) \/ PollInterrupted(t) \/ Entering(t) \/ Calling(t)

PendingCleared ==
    pendingDispatches' = [i \in DOMAIN pendingDispatches |->
                            IF i <= pendingDispatchesCount THEN NULL ELSE pendingDispatches[i]]

OtherStep(t) ==
    /\ pc'[t] = pc[t] /\ call'[t] = call[t]
    /\ UNCHANGED <<sleep, iter, nReady, maxPriority, at, current, ready>>
    /\ Wakeup \in edges => Wakeup \in edges'
    /\ \/ Wakeup \in edges'
       \/ isRunning'[t] = isRunning[t] /\ readyTime' = readyTime /\ Stored' \subseteq Stored
    /\ \/ pendingDispatches' = pendingDispatches /\ (pendingDispatchesCount' = pendingDispatchesCount
                                                     \/ pendingDispatchesCount' = 0)
       \/ PendingCleared /\ pendingDispatchesCount' = pendingDispatchesCount
    /\ Concurrent \/ UNCHANGED lists \/ lists'.prioIndex = <<>>

LEMMA OthersWhileOwned ==
    ASSUME DInv, NEW t \in Threads, Held(t) > 0, [Next]_vars, ~Own(t)
    PROVE  OtherStep(t)
<1>1. owner = t /\ t # NULL
  BY NullIsNoThread DEF DInv, IInv, OwnerCounted
<1>2. \A u \in Threads \ {t} : Held(u) = 0
  BY <1>1, HeldType DEF DInv, IInv, OwnerCounted
<1>3. \A u \in Threads : StageOf(u) /\ pc \in [Threads -> Stages] /\ call \in [Threads -> CallNames]
  BY DEF DInv, IInv, Shape
<1>4. pc[t] \notin {"waiting", "woken", "idle"}
  BY <1>3 DEF Held, InIteration
<1>5. Wakeup \notin Sources
  BY SourcesAssumption
<1>6. ASSUME NEW u \in Threads \ {t}, Owning(u) \/ PollInterrupted(u) PROVE FALSE
  <2>1. Held(u) > 0
    BY <1>3, <1>6 DEF Owning, LoopStarts, LoopLeaves, Prepare, PollReturns, Acknowledge, CheckNext,
       ExcuteNext, CallbackReturns, IterateReturns, PollInterrupted, StageOf, Held, InIteration
  <2> QED
    BY <1>2, <2>1
<1>7. ASSUME NEW u \in Threads \ {t}, Entering(u) PROVE OtherStep(t)
  <2>1. /\ pc'[t] = pc[t] /\ call'[t] = call[t] /\ isRunning'[t] = isRunning[t]
        /\ UNCHANGED <<sleep, iter, nReady, maxPriority, at, current, ready, edges, readyTime,
                       lists, added, pendingDispatches>>
        /\ pendingDispatchesCount' = pendingDispatchesCount \/ pendingDispatchesCount' = 0
    BY <1>3, <1>7 DEF Entering, LoopContends, LoopWakes, IterateAcquires, IterateWaits,
       IterateWakes, StartLoop, Goto, sourceVars, roundVars, DInv, DataTyped
  <2> QED
    BY <2>1 DEF OtherStep, Stored
<1>8. ASSUME NEW u \in Threads, WakesByItself(u) PROVE OtherStep(t)
  <2>1. /\ pc'[t] = pc[t] /\ call'[t] = call[t] /\ isRunning'[t] = isRunning[t]
        /\ UNCHANGED <<sleep, iter, nReady, maxPriority, at, current, ready, edges, readyTime,
                       lists, added, pendingDispatches, pendingDispatchesCount>>
    BY <1>3, <1>4, <1>8 DEF WakesByItself, Goto, sourceVars, roundVars
  <2> QED
    BY <2>1 DEF OtherStep, Stored
<1>9. ASSUME NEW u \in Threads \ {t}, Run(u) \/ Invoke(u) \/ \E c \in Calls[u] : Iterate(u, c)
      PROVE  OtherStep(t)
  <2>1. /\ pc'[t] = pc[t] /\ call'[t] = call[t] /\ isRunning'[t] = isRunning[t]
        /\ UNCHANGED <<sleep, iter, nReady, maxPriority, at, current, ready, edges, readyTime,
                       lists, added, pendingDispatches>>
        /\ pendingDispatchesCount' = pendingDispatchesCount \/ pendingDispatchesCount' = 0
    BY <1>3, <1>9 DEF Run, Invoke, Iterate, Goto, sourceVars, roundVars
  <2> QED
    BY <2>1 DEF OtherStep, Stored
<1>10. ASSUME NEW u \in Threads \ {t}, NEW s \in Sources, Add(u, s) PROVE OtherStep(t)
  <2>1. /\ UNCHANGED <<threadVars, ready, roundVars, pendingDispatches, pendingDispatchesCount>>
        /\ Concurrent /\ Wakeup \in edges'
    BY <1>1, <1>10 DEF Add, MayChange, AddSignals, Signal
  <2> QED
    BY <2>1 DEF OtherStep, threadVars, roundVars
<1>11. ASSUME NEW u \in Threads \ {t}, NEW s \in Sources, RemoveSource(u, s) PROVE OtherStep(t)
  <2>1. /\ UNCHANGED <<threadVars, ready, readyTime, roundVars, pendingDispatches,
                       pendingDispatchesCount>>
        /\ Concurrent /\ (Wakeup \in edges => Wakeup \in edges')
    BY <1>1, <1>5, <1>11 DEF RemoveSource, MayChange, Destroy
  <2>2. Stored' \subseteq Stored
    BY <1>11, StorageRemoves DEF RemoveSource, DInv
  <2> QED
    BY <2>1, <2>2 DEF OtherStep, threadVars, roundVars
<1>12. ASSUME NEW u \in Threads, RemoveAll(u) PROVE OtherStep(t)
  <2>1. /\ UNCHANGED <<threadVars, ready, readyTime, roundVars, edges, pendingDispatchesCount>>
        /\ PendingCleared
    BY <1>12 DEF RemoveAll, PendingCleared
  <2>2. Stored' \subseteq Stored /\ lists'.prioIndex = <<>>
    BY <1>12, StorageEmpties DEF RemoveAll, DInv
  <2> QED
    BY <2>1, <2>2 DEF OtherStep, threadVars, roundVars
<1>13. ASSUME NEW u \in Threads, NEW s \in Sources, NEW time \in {-1, now, now + Interval},
              SetReadyTime(u, s, time)
       PROVE  OtherStep(t)
  BY <1>13 DEF SetReadyTime, Signal, OtherStep, threadVars, roundVars
<1>14. ASSUME NEW u \in Threads, NEW l \in Threads, Quit(u, l) PROVE OtherStep(t)
  <2>1. pc'[t] = pc[t]
    BY <1>4, <1>14 DEF Quit, Woken
  <2> QED
    BY <1>14, <2>1 DEF Quit, Signal, OtherStep, sourceVars, roundVars
<1>15. ASSUME Tick \/ UNCHANGED vars PROVE OtherStep(t)
  BY <1>15 DEF Tick, vars, OtherStep, threadVars, sourceVars, roundVars, Stored
<1>16. ASSUME NEW s \in Sources, DataArrives(s) PROVE OtherStep(t)
  BY <1>16 DEF DataArrives, OtherStep, threadVars, sourceVars, roundVars, Stored
<1>17. ASSUME NEW u \in Threads \ {t}, Calling(u) PROVE OtherStep(t)
  BY <1>9, <1>10, <1>11, <1>12, <1>13, <1>14, <1>17 DEF Calling
<1> QED
  BY <1>6, <1>7, <1>8, <1>15, <1>16, <1>17 DEF Next, Own

(* No step of another moves a thread on, except that it may be woken.      *)
LEMMA OthersStay ==
    ASSUME IInv, NEW t \in Threads, [Next]_vars, ~Own(t)
    PROVE  /\ pc'[t] = pc[t] \/ (pc[t] = "waiting" /\ pc'[t] = "woken")
           /\ call'[t] = call[t]
<1>1. pc \in [Threads -> Stages] /\ call \in [Threads -> CallNames]
  BY DEF IInv, Shape
<1>2. ASSUME NEW u \in Threads \ {t}, NEW stage, Release(u, stage)
      PROVE  pc'[t] = pc[t] \/ (pc[t] = "waiting" /\ pc'[t] = "woken")
  <2>1. CASE ownerCount = 1
    <3>1. PICK W \in WakeSome : pc' = Woken([pc EXCEPT ![u] = stage], W)
      BY <1>2, <2>1 DEF Release
    <3>2. t \in W => pc[t] = "waiting"
      BY DEF WakeSome
    <3> QED
      BY <1>1, <3>1, <3>2 DEF Woken
  <2>2. CASE ownerCount # 1
    BY <1>1, <1>2, <2>2 DEF Release, Goto
  <2> QED
    BY <2>1, <2>2
<1>3. ASSUME NEW u \in Threads \ {t}, LoopLeaves(u) \/ IterateReturns(u)
      PROVE  /\ pc'[t] = pc[t] \/ (pc[t] = "waiting" /\ pc'[t] = "woken")
             /\ call'[t] = call[t]
  <2>1. \E stage : Release(u, stage)
    BY <1>3 DEF LoopLeaves, IterateReturns
  <2>2. call'[t] = call[t]
    BY <1>1, <1>3 DEF LoopLeaves, IterateReturns
  <2> QED
    BY <1>2, <2>1, <2>2
<1>4. ASSUME NEW u \in Threads \ {t},
             \/ Owning(u) /\ ~LoopLeaves(u) /\ ~IterateReturns(u)
             \/ PollInterrupted(u) \/ Entering(u)
      PROVE  pc'[t] = pc[t] /\ call'[t] = call[t]
  BY <1>1, <1>4 DEF Owning, LoopStarts, Prepare, PollReturns, Acknowledge, CheckNext, ExcuteNext,
     CallbackReturns, PollInterrupted, Entering, LoopContends, LoopWakes, IterateAcquires,
     IterateWaits, IterateWakes, StartLoop, Goto
<1>5. ASSUME NEW u \in Threads \ {t}, Calling(u)
      PROVE  /\ pc'[t] = pc[t] \/ (pc[t] = "waiting" /\ pc'[t] = "woken")
             /\ call'[t] = call[t]
  BY <1>1, <1>5 DEF Calling, Run, Invoke, Iterate, Add, RemoveSource, SetReadyTime, RemoveAll,
     Quit, Goto, Woken, threadVars
<1>6. ASSUME NEW u \in Threads, WakesByItself(u)
      PROVE  /\ pc'[t] = pc[t] \/ (pc[t] = "waiting" /\ pc'[t] = "woken")
             /\ call'[t] = call[t]
  BY <1>1, <1>6 DEF WakesByItself, Goto
<1>7. ASSUME Tick \/ (\E s \in Sources : DataArrives(s)) \/ UNCHANGED vars
      PROVE  pc'[t] = pc[t] /\ call'[t] = call[t]
  BY <1>7 DEF Tick, DataArrives, vars, threadVars
<1> QED
  BY <1>3, <1>4, <1>5, <1>6, <1>7 DEF Next, Own

(* A loop that has been stopped and is about to sleep will be woken.       *)
StopTold ==
    \A t \in Threads : pc[t] \in {"begun", "prepare", "poll"} /\ call[t] = "run"
        => isRunning[t] \/ Wakeup \in edges

LEMMA StopToldNext ==
    ASSUME DInv, StopTold, [Next]_vars PROVE StopTold'
<1> SUFFICES ASSUME NEW t \in Threads,
                    pc'[t] \in {"begun", "prepare", "poll"}, call'[t] = "run"
             PROVE  isRunning'[t] \/ Wakeup \in edges'
  BY DEF StopTold
<1>1. pc \in [Threads -> Stages] /\ call \in [Threads -> CallNames]
      /\ isRunning \in [Threads -> BOOLEAN]
  BY DEF DInv, IInv, Shape, DataTyped
<1>2. CASE Entering(t)
  <2>1. CASE LoopContends(t) \/ LoopWakes(t)
    BY <1>1, <2>1 DEF LoopContends, LoopWakes, StartLoop, Goto
  <2>2. CASE IterateAcquires(t) \/ IterateWaits(t) \/ IterateWakes(t)
    BY <1>1, <2>2 DEF IterateAcquires, IterateWaits, IterateWakes, Goto, NotRunning, StopTold,
       DInv, IInv, Shape, StageOf
  <2> QED
    BY <1>2, <2>1, <2>2 DEF Entering
<1>3. CASE Owning(t)
  <2>1. CASE LoopStarts(t)
    BY <1>1, <2>1 DEF LoopStarts, StartLoop
  <2>2. CASE Prepare(t)
    BY <1>1, <2>2 DEF Prepare, StopTold
  <2>3. CASE IterateReturns(t)
    <3>1. call[t] = "run" /\ UNCHANGED isRunning
      BY <1>1, <2>3 DEF IterateReturns, NotRunning
    <3>2. CASE isRunning[t]
      BY <3>1, <3>2
    <3>3. CASE ~isRunning[t]
      <4>1. Release(t, "leave")
        BY <2>3, <3>1, <3>3 DEF IterateReturns
      <4>2. pc'[t] \in {"leave", "woken"}
        <5>1. CASE ownerCount = 1
          <6>1. PICK W : pc' = Woken([pc EXCEPT ![t] = "leave"], W)
            BY <4>1, <5>1 DEF Release
          <6> QED
            BY <1>1, <6>1 DEF Woken
        <5>2. CASE ownerCount # 1
          BY <1>1, <4>1, <5>2 DEF Release, Goto
        <5> QED
          BY <5>1, <5>2
      <4> QED
        BY <4>2
    <3> QED
      BY <3>2, <3>3
  <2>4. CASE LoopLeaves(t)
    BY <1>1, <2>4 DEF LoopLeaves, NotRunning
  <2>5. CASE PollReturns(t) \/ Acknowledge(t) \/ CheckNext(t) \/ ExcuteNext(t) \/ CallbackReturns(t)
    BY <1>1, <2>5 DEF PollReturns, Acknowledge, CheckNext, ExcuteNext, CallbackReturns, Goto
  <2> QED
    BY <1>3, <2>1, <2>2, <2>3, <2>4, <2>5 DEF Owning
<1>4. CASE PollInterrupted(t)
  BY <1>1, <1>4 DEF PollInterrupted, Goto
<1>5. CASE Calling(t)
  <2>1. CASE Run(t) \/ Invoke(t) \/ \E c \in Calls[t] : Iterate(t, c)
    BY <1>1, <2>1 DEF Run, Invoke, Iterate, Goto
  <2>2. CASE ~(Run(t) \/ Invoke(t) \/ \E c \in Calls[t] : Iterate(t, c))
    <3>1. pc[t] \in {"idle", "callback"}
      BY <1>5, <2>2 DEF Calling, Add, RemoveSource, SetReadyTime, RemoveAll, Quit, Called
    <3>2. pc'[t] = pc[t]
      BY <1>1, <1>5, <2>2, <3>1 DEF Calling, Add, RemoveSource, SetReadyTime, RemoveAll, Quit,
         threadVars, Woken
    <3> QED
      BY <3>1, <3>2
  <2> QED
    BY <2>1, <2>2
<1>6. CASE ~Own(t) /\ Held(t) > 0
  <2>1. OtherStep(t)
    BY <1>6, OthersWhileOwned
  <2> QED
    BY <2>1 DEF OtherStep, StopTold
<1>7. CASE ~Own(t) /\ ~(Held(t) > 0)
  <2>1. pc'[t] = pc[t] \/ pc'[t] = "woken"
    BY <1>7, OthersStay DEF DInv
  <2>2. call'[t] = call[t]
    BY <1>7, OthersStay DEF DInv
  <2> QED
    BY <1>1, <1>7, <2>1, <2>2 DEF Held, InIteration
<1> QED
  BY <1>2, <1>3, <1>4, <1>5, <1>6, <1>7 DEF Own

LEMMA LargestPriority == \A p \in Priorities : p <= MaxInt
<1> DEFINE m == CHOOSE p \in Priorities : \A q \in Priorities : q <= p
<1>1. m \in Priorities /\ \A q \in Priorities : q <= m
  BY LargestAssumption
<1>2. MaxInt = 1 + m
  BY DEF MaxInt
<1> HIDE DEF m
<1> QED
  BY <1>1, <1>2, PrioritiesAssumption

(* If nothing is prepared, getTimeout() has looked at all sources, and the *)
(* sleep ends when the first of them is due.                               *)
LEMMA PreparedSleep ==
    ASSUME DInv, NEW t \in Threads, Prepare(t), sleep' # 0, NEW s \in Stored \ {Wakeup}
    PROVE  /\ kind[s] # "idle"
           /\ readyTime[s] # -1 => sleep' # -1 /\ sleep' <= readyTime[s]
<1> DEFINE prepared == {x \in Stored \ {Wakeup} : Prepared(x)}
           first == IF prepared = {} THEN MaxInt ELSE Min({prio[x] : x \in prepared})
           looked == {x \in Stored \ {Wakeup} : prio[x] <= first}
           timed == {x \in looked \ ready : kind[x] # "idle" /\ readyTime[x] # -1}
           times == {readyTime[x] : x \in timed}
<1>1. prepared = {} /\ sleep' = SleepUntil(times)
  BY DEF Prepare
<1>2. s \notin ready /\ kind[s] # "idle"
  BY <1>1 DEF Prepared
<1>3. ASSUME readyTime[s] # -1 PROVE sleep' # -1 /\ sleep' <= readyTime[s]
  <2>1. s \in AllSources
    BY StoredSources DEF DInv
  <2>2. prio[s] \in Priorities
    BY <2>1, SourcesAssumption DEF AllSources
  <2>3. s \in looked
    BY <1>1, <2>2, LargestPriority
  <2>4. readyTime[s] \in times
    BY <1>2, <1>3, <2>3
  <2>5. times \subseteq Nat
    <3>1. ASSUME NEW x \in timed PROVE readyTime[x] \in Nat
      <4>1. x \in AllSources /\ readyTime[x] # -1
        BY StoredSources DEF DInv
      <4> QED
        BY <4>1 DEF DInv, DataTyped
    <3> HIDE DEF timed
    <3> QED
      BY <3>1
  <2> HIDE DEF times
  <2>6. Min(times) \in times /\ Min(times) <= readyTime[s]
    BY <2>4, <2>5, LeastNatural
  <2>7. sleep' = Min(times)
    BY <1>1, <2>4 DEF SleepUntil
  <2> QED
    BY <2>5, <2>6, <2>7
<1> QED
  BY <1>2, <1>3

LEMMA NoMissedNext ==
    ASSUME DInv, StopTold, StopTold', NoMissedWakeup, [Next]_vars PROVE NoMissedWakeup'
<1> SUFFICES ASSUME NEW t \in Threads, pc'[t] = "poll", sleep' # 0, Wakeup \notin edges'
             PROVE  /\ call'[t] = "run" => isRunning'[t]
                    /\ \A s \in Stored' \ {Wakeup} :
                          /\ kind[s] # "idle"
                          /\ readyTime'[s] # -1 => sleep' # -1 /\ sleep' <= readyTime'[s]
  BY DEF NoMissedWakeup
<1>1. call'[t] = "run" => isRunning'[t]
  BY DEF StopTold
<1>2. pc \in [Threads -> Stages] /\ call \in [Threads -> CallNames]
  BY DEF DInv, IInv, Shape
<1>3. CASE Prepare(t)
  <2>1. Stored' = Stored /\ readyTime' = readyTime
    BY <1>3 DEF Prepare, sourceVars, Stored
  <2> QED
    BY <1>1, <1>3, <2>1, PreparedSleep
<1>4. CASE Own(t) /\ ~Prepare(t)
  <2>1. CASE Owning(t)
    <3>1. CASE LoopLeaves(t) \/ IterateReturns(t)
      <4>1. PICK stage \in {"idle", "begun", "leave"} : Release(t, stage)
        BY <3>1 DEF LoopLeaves, IterateReturns
      <4>2. pc'[t] # "poll"
        <5>1. CASE ownerCount = 1
          <6>1. PICK W : pc' = Woken([pc EXCEPT ![t] = stage], W)
            BY <4>1, <5>1 DEF Release
          <6> QED
            BY <1>2, <6>1 DEF Woken
        <5>2. CASE ownerCount # 1
          BY <1>2, <4>1, <5>2 DEF Release, Goto
        <5> QED
          BY <5>1, <5>2
      <4> QED
        BY <4>2
    <3>2. CASE ~(LoopLeaves(t) \/ IterateReturns(t))
      BY <1>2, <1>4, <2>1, <3>2 DEF Owning, LoopStarts, StartLoop, PollReturns, Acknowledge,
         CheckNext, ExcuteNext, CallbackReturns, Goto
    <3> QED
      BY <3>1, <3>2
  <2>2. CASE PollInterrupted(t) \/ Entering(t)
    BY <1>2, <2>2 DEF PollInterrupted, Entering, LoopContends, LoopWakes, IterateAcquires,
       IterateWaits, IterateWakes, StartLoop, Goto
  <2>3. CASE Calling(t)
    <3>1. pc[t] \in {"idle", "callback"}
      BY <2>3 DEF Calling, Run, Invoke, Iterate, Add, RemoveSource, SetReadyTime, RemoveAll,
         Quit, Called
    <3>2. pc'[t] # "poll"
      BY <1>2, <2>3, <3>1 DEF Calling, Run, Invoke, Iterate, Add, RemoveSource, SetReadyTime,
         RemoveAll, Quit, Goto, threadVars, Woken
    <3> QED
      BY <3>2
  <2> QED
    BY <1>4, <2>1, <2>2, <2>3 DEF Own
<1>5. CASE ~Own(t)
  <2>1. pc[t] = "poll"
    BY <1>5, OthersStay DEF DInv
  <2>2. OtherStep(t)
    BY <1>5, <2>1, OthersWhileOwned DEF Held, InIteration
  <2>3. sleep' = sleep /\ Wakeup \notin edges /\ readyTime' = readyTime /\ Stored' \subseteq Stored
    BY <2>2 DEF OtherStep
  <2>4. \A s \in Stored \ {Wakeup} :
           /\ kind[s] # "idle"
           /\ readyTime[s] # -1 => sleep # -1 /\ sleep <= readyTime[s]
    BY <2>1, <2>3 DEF NoMissedWakeup
  <2> QED
    BY <1>1, <2>3, <2>4
<1> QED
  BY <1>3, <1>4, <1>5

(* getTimeout(), poll(), add(), setReadyTime() and quit(): for any number  *)
(* of loops and sources, and although other threads change the sources     *)
(* while a loop runs, no loop sleeps past what concerns it.                *)
THEOREM NoWakeupMissed == SafeSpec => []NoMissedWakeup
<1>1. Init => StopTold /\ NoMissedWakeup
  BY DEF Init, StopTold, NoMissedWakeup
<1>2. DInv /\ StopTold /\ NoMissedWakeup /\ [Next]_vars => StopTold' /\ NoMissedWakeup'
  BY StopToldNext, NoMissedNext
<1> QED
  BY DInvInit, DInvNext, <1>1, <1>2, PTL DEF SafeSpec
-----------------------------------------------------------------------------
(* The sources that an iterator has not come to.                           *)
AheadOf(l, it) ==
    {s \in AllSources : \E v \in 1 .. Len(l.prioIndex) :
        \E i \in 1 .. l.count[l.prioIndex[v]] :
            /\ s = l.datas[l.prioIndex[v]][i]
            /\ v > it.value \/ (v = it.value /\ i > it.count)}

IterIn(l, it) == HasNext(l, it) => it.count < l.count[l.prioIndex[it.value]]

(* A step of nextIter() gives the next of them, whose priority is not      *)
(* greater than that of the others, and leaves the others ahead.           *)
LEMMA IterStep ==
    ASSUME NEW l, ListsOK(l), NEW it \in [value : Nat \ {0}, count : Nat],
           HasNext(l, it), IterIn(l, it)
    PROVE  LET s == NextSource(l, it)
               next == NextIter(l, it) IN
           /\ s \in AheadOf(l, it) /\ s \notin AheadOf(l, next)
           /\ AheadOf(l, next) \subseteq AheadOf(l, it)
           /\ \A a \in AheadOf(l, next) : prio[s] <= prio[a]
           /\ IterIn(l, next)
<1> DEFINE q == l.prioIndex
           p == q[it.value]
           s == NextSource(l, it)
           next == NextIter(l, it)
<1>1. /\ q \in Seq(Priorities) /\ Len(q) \in Nat /\ Ascending(q)
      /\ \A v \in 1 .. Len(q) : q[v] \in Priorities /\ q[v] \in Int
  BY PrioritiesInt DEF ListsOK, ListsTyped
<1>2. \A v \in 1 .. Len(q) : /\ l.count[q[v]] \in Nat /\ l.count[q[v]] > 0
                             /\ l.datas[q[v]] \in Seq(AllSources)
                             /\ l.count[q[v]] <= Len(l.datas[q[v]])
  <2> SUFFICES ASSUME NEW v \in 1 .. Len(q)
               PROVE  /\ l.count[q[v]] \in Nat /\ l.count[q[v]] > 0
                      /\ l.datas[q[v]] \in Seq(AllSources)
                      /\ l.count[q[v]] <= Len(l.datas[q[v]])
    OBVIOUS
  <2>1. q[v] \in ToSet(q)
    BY <1>1, InToSet
  <2> QED
    BY <1>1, <2>1 DEF ListsOK, ListsTyped
<1>3. it.value \in 1 .. Len(q) /\ it.count \in Nat /\ it.count + 1 \in 1 .. l.count[p]
  <2>1. it.value \in 1 .. Len(q) /\ it.count \in Nat
    BY <1>1 DEF HasNext
  <2> QED
    BY <1>2, <2>1 DEF IterIn
<1>4. s = l.datas[p][it.count + 1] /\ s \in AllSources
  <2>1. it.count + 1 \in 1 .. Len(l.datas[p]) /\ l.datas[p] \in Seq(AllSources)
    BY <1>2, <1>3
  <2> QED
    BY <2>1 DEF NextSource, Slot
<1>5. s \in AheadOf(l, it)
  BY <1>3, <1>4 DEF AheadOf
<1>6. \/ next.value = it.value + 1 /\ next.count = 0 /\ it.count + 1 >= l.count[p]
      \/ next.value = it.value /\ next.count = it.count + 1 /\ ~(it.count + 1 >= l.count[p])
  BY DEF NextIter
<1> HIDE DEF s, next
<1>7. ASSUME NEW v \in 1 .. Len(q), NEW i \in 1 .. l.count[q[v]],
             v > next.value \/ (v = next.value /\ i > next.count)
      PROVE  v > it.value \/ (v = it.value /\ i > it.count + 1)
  BY <1>1, <1>2, <1>3, <1>6, <1>7
<1>8. \A v \in 1 .. Len(q) : \A i, j \in 1 .. l.count[q[v]] :
          /\ prio[l.datas[q[v]][i]] = q[v]
          /\ i # j => l.datas[q[v]][i] # l.datas[q[v]][j]
  BY <1>1 DEF ListsOK, InOwnPlace
<1>9. ASSUME NEW a \in AheadOf(l, next)
      PROVE  a \in AheadOf(l, it) /\ a # s /\ prio[s] <= prio[a]
  <2>0. PICK v \in 1 .. Len(q) : \E i \in 1 .. l.count[q[v]] :
           /\ a = l.datas[q[v]][i]
           /\ v > next.value \/ (v = next.value /\ i > next.count)
    BY DEF AheadOf
  <2>1. PICK i \in 1 .. l.count[q[v]] :
           /\ a = l.datas[q[v]][i]
           /\ v > next.value \/ (v = next.value /\ i > next.count)
    BY <2>0
  <2>2. v > it.value \/ (v = it.value /\ i > it.count + 1)
    BY <1>7, <2>1
  <2>3. i \in Int
    OBVIOUS
  <2>4. a \in AheadOf(l, it)
    <3>1. v > it.value \/ (v = it.value /\ i > it.count)
      BY <1>3, <2>2, <2>3
    <3> QED
      BY <2>1, <3>1 DEF AheadOf
  <2>5. prio[a] = q[v] /\ prio[s] = p
    BY <1>3, <1>4, <1>8, <2>1
  <2>6. CASE v > it.value
    <3>1. p < q[v]
      BY <1>1, <1>3, <2>6 DEF Ascending
    <3> QED
      BY <1>1, <1>3, <2>4, <2>5, <3>1
  <2>7. CASE v = it.value /\ i > it.count + 1
    <3>1. a # s
      BY <1>3, <1>4, <1>8, <2>1, <2>3, <2>7
    <3> QED
      BY <1>1, <1>3, <2>4, <2>5, <2>7, <3>1
  <2> QED
    BY <2>2, <2>6, <2>7
<1>10. IterIn(l, next)
  <2>1. CASE next.value = it.value + 1 /\ next.count = 0
    <3>1. ASSUME next.value <= Len(q) PROVE 0 < l.count[q[next.value]]
      <4>1. next.value \in 1 .. Len(q)
        BY <1>1, <1>3, <2>1, <3>1
      <4> QED
        BY <1>2, <4>1
    <3> QED
      BY <2>1, <3>1 DEF IterIn, HasNext
  <2>2. CASE next.value = it.value /\ next.count = it.count + 1 /\ ~(it.count + 1 >= l.count[p])
    BY <1>2, <1>3, <2>2 DEF IterIn
  <2> QED
    BY <1>6, <2>1, <2>2
<1> QED
  BY <1>5, <1>9, <1>10 DEF s, next

(* Which actions of its own take a thread to a stage of the round.         *)
LEMMA OwnStage ==
    ASSUME IInv, NEW t \in Threads, Own(t)
    PROVE  /\ pc'[t] = "checkNext" => Acknowledge(t) \/ (CheckNext(t) /\ pc' = pc)
           /\ pc'[t] = "excute" => CheckNext(t) \/ ExcuteNext(t) \/ CallbackReturns(t)
           /\ pc'[t] = "callback" => ExcuteNext(t) \/ (Calling(t) /\ pc[t] = "callback")
           /\ pc[t] \in {"checkNext", "excute", "callback"} =>
                 IterateReturns(t) \/ pc'[t] \in {"checkNext", "excute", "callback"}
<1>1. pc \in [Threads -> Stages]
  BY DEF IInv, Shape
<1>2. CASE LoopLeaves(t) \/ IterateReturns(t)
  <2>1. PICK stage \in {"idle", "begun", "leave"} : Release(t, stage)
    BY <1>2 DEF LoopLeaves, IterateReturns
  <2>2. pc'[t] \in {"idle", "begun", "leave", "woken"}
    <3>1. CASE ownerCount = 1
      <4>1. PICK W : pc' = Woken([pc EXCEPT ![t] = stage], W)
        BY <2>1, <3>1 DEF Release
      <4> QED
        BY <1>1, <4>1 DEF Woken
    <3>2. CASE ownerCount # 1
      BY <1>1, <2>1, <3>2 DEF Release, Goto
    <3> QED
      BY <3>1, <3>2
  <2>3. LoopLeaves(t) => pc[t] = "leave"
    BY DEF LoopLeaves
  <2> QED
    BY <1>2, <2>2, <2>3
<1>3. CASE Owning(t) /\ ~LoopLeaves(t) /\ ~IterateReturns(t)
  <2>1. CASE LoopStarts(t) \/ Prepare(t) \/ PollReturns(t) \/ Acknowledge(t)
    BY <1>1, <2>1 DEF LoopStarts, StartLoop, Prepare, PollReturns, Acknowledge, Goto
  <2>2. CASE CheckNext(t)
    BY <1>1, <2>2 DEF CheckNext, Goto
  <2>3. CASE ExcuteNext(t) \/ CallbackReturns(t)
    BY <1>1, <2>3 DEF ExcuteNext, CallbackReturns, Goto
  <2> QED
    BY <1>3, <2>1, <2>2, <2>3 DEF Owning
<1>4. CASE PollInterrupted(t) \/ Entering(t)
  BY <1>1, <1>4 DEF PollInterrupted, Entering, LoopContends, LoopWakes, IterateAcquires,
     IterateWaits, IterateWakes, StartLoop, Goto
<1>5. CASE Calling(t)
  <2>1. CASE Run(t) \/ Invoke(t) \/ \E c \in Calls[t] : Iterate(t, c)
    BY <1>1, <2>1 DEF Run, Invoke, Iterate, Goto
  <2>2. CASE ~(Run(t) \/ Invoke(t) \/ \E c \in Calls[t] : Iterate(t, c))
    <3>1. pc[t] \in {"idle", "callback"}
      BY <1>5, <2>2 DEF Calling, Add, RemoveSource, SetReadyTime, RemoveAll, Quit, Called
    <3>2. pc'[t] = pc[t]
      BY <1>1, <1>5, <2>2, <3>1 DEF Calling, Add, RemoveSource, SetReadyTime, RemoveAll, Quit,
         threadVars, Woken
    <3> QED
      BY <1>5, <3>1, <3>2
  <2> QED
    BY <2>1, <2>2
<1> QED
  BY <1>2, <1>3, <1>4, <1>5 DEF Own

(* foreachCheck() is at a source of the storage, or behind the last one.   *)
IterThere == \A t \in Threads : pc[t] = "checkNext" => IterIn(lists, iter)

LEMMA FirstIter == ASSUME NEW l, ListsOK(l) PROVE IterIn(l, InitIter)
<1>1. ASSUME 1 <= Len(l.prioIndex) PROVE l.count[l.prioIndex[1]] > 0
  <2>1. l.prioIndex \in Seq(Priorities) /\ Len(l.prioIndex) \in Nat
    BY DEF ListsOK, ListsTyped
  <2>2. l.prioIndex[1] \in ToSet(l.prioIndex) /\ l.prioIndex[1] \in Priorities
    BY <1>1, <2>1, InToSet
  <2> QED
    BY <2>2 DEF ListsOK
<1> QED
  BY <1>1 DEF IterIn, HasNext, InitIter

LEMMA IterThereNext ==
    ASSUME ~Concurrent, DInv, IterThere, [Next]_vars PROVE IterThere'
<1> SUFFICES ASSUME NEW t \in Threads, pc'[t] = "checkNext" PROVE IterIn(lists', iter')
  BY DEF IterThere, IterIn, HasNext
<1>1. CASE Acknowledge(t)
  BY <1>1, FirstIter DEF Acknowledge, sourceVars, DInv, StorageOK
<1>2. CASE CheckNext(t) /\ pc' = pc
  <2>1. HasNext(lists, iter) /\ iter' = NextIter(lists, iter) /\ lists' = lists /\ pc[t] = "checkNext"
    BY <1>2 DEF CheckNext, Goto, sourceVars, DInv, IInv, Shape
  <2>2. IterIn(lists, iter) /\ iter \in [value : Nat \ {0}, count : Nat] /\ ListsOK(lists)
    BY <2>1 DEF IterThere, DInv, DataTyped, StorageOK
  <2> QED
    BY <2>1, <2>2, IterStep
<1>3. CASE ~Own(t)
  <2>1. pc[t] = "checkNext"
    BY <1>3, OthersStay DEF DInv
  <2>2. OtherStep(t)
    BY <1>3, <2>1, OthersWhileOwned DEF Held, InIteration
  <2>3. iter' = iter /\ (lists' = lists \/ lists'.prioIndex = <<>>)
    BY <2>2 DEF OtherStep
  <2>4. iter.value \in Nat \ {0}
    BY DEF DInv, DataTyped
  <2> QED
    BY <2>1, <2>3, <2>4 DEF IterThere, IterIn, HasNext
<1> QED
  BY <1>1, <1>2, <1>3, OwnStage DEF DInv

LEMMA SourceThereNext ==
    ASSUME DInv, IterThere, SourceIsThere, [Next]_vars PROVE SourceIsThere'
<1>1. ASSUME NEW t \in Threads, CheckNext(t) PROVE crashed' # "null"
  <2>1. CASE HasNext(lists, iter)
    <3>1. IterIn(lists, iter) /\ iter \in [value : Nat \ {0}, count : Nat] /\ ListsOK(lists)
      BY <1>1 DEF CheckNext, IterThere, DInv, DataTyped, StorageOK
    <3>2. NextSource(lists, iter) \in AllSources
      BY <2>1, <3>1, IterStep DEF AheadOf
    <3> QED
      BY <1>1, <3>2, SourcesAssumption DEF CheckNext, AllSources
  <2>2. CASE ~HasNext(lists, iter)
    BY <1>1, <2>2 DEF CheckNext
  <2> QED
    BY <2>1, <2>2
<1>2. ASSUME NEW t \in Threads, Owning(t), ~CheckNext(t) PROVE crashed' = crashed \/ crashed' # "null"
  BY <1>2 DEF Owning, LoopStarts, LoopLeaves, Prepare, PollReturns, Acknowledge, ExcuteNext,
     CallbackReturns, Destroy, IterateReturns
<1>3. ASSUME NEW t \in Threads, Entering(t) \/ PollInterrupted(t) \/ WakesByItself(t)
      PROVE  crashed' = crashed
  BY <1>3 DEF Entering, LoopContends, LoopWakes, IterateAcquires, IterateWaits, IterateWakes,
     PollInterrupted, WakesByItself
<1>4. ASSUME NEW t \in Threads, Calling(t) PROVE crashed' = crashed \/ crashed' # "null"
  BY <1>4 DEF Calling, Run, Invoke, Iterate, Add, RemoveSource, Destroy, SetReadyTime, RemoveAll,
     Quit
<1>5. ASSUME Tick \/ (\E s \in Sources : DataArrives(s)) \/ UNCHANGED vars PROVE crashed' = crashed
  BY <1>5 DEF Tick, DataArrives, vars
<1> QED
  BY <1>1, <1>2, <1>3, <1>4, <1>5 DEF Next, SourceIsThere

(* nextIter(): as long as only the owner adds and removes sources, each    *)
(* step of foreachCheck() finds a source, whatever the callbacks did in    *)
(* the rounds before and whenever another thread calls removeAll().        *)
THEOREM IteratorFindsSource == ASSUME ~Concurrent PROVE SafeSpec => []SourceIsThere
<1>1. Init => IterThere /\ SourceIsThere
  BY DEF Init, IterThere, SourceIsThere
<1>2. DInv /\ IterThere /\ SourceIsThere /\ [Next]_vars => IterThere' /\ SourceIsThere'
  BY IterThereNext, SourceThereNext
<1> QED
  BY DInvInit, DInvNext, <1>1, <1>2, PTL DEF SafeSpec
-----------------------------------------------------------------------------
(* A round: from the check of the sources to the last callback.            *)
Rounds  == {"checkNext", "excute", "callback"}
Unwoken == {"begun", "refused", "waiting", "woken", "prepare", "poll", "check"}

(* pending() leaves its sources in the array, where the next iteration of  *)
(* another thread would find them: it is called by one thread alone.       *)
PendingAlone ==
    \A t, u \in Threads : t # u /\ "pending" \in Calls[t]
        => Calls[u] \cap {"iterate", "try", "pending"} = {}

CallMade == \A t \in Threads : call[t] \in {"iterate", "try", "pending"} => call[t] \in Calls[t]

(* No source is left of an earlier round when an iteration starts, except  *)
(* that a thread which waits for the manager sees those of the owner.      *)
NoneLeft ==
    \A t \in Threads :
        /\ pc[t] \in Unwoken /\ call[t] \in {"iterate", "try"}
              => pendingDispatchesCount = 0 \/ \E u \in Threads : pc[u] \in Rounds
        /\ pc[t] \in {"begun", "prepare", "poll", "check"} /\ call[t] = "run"
              => pendingDispatchesCount = 0

LeftFrom(n, q, c) == {i \in n + 1 .. c : q[i] # NULL}

AlikeIn(n, q, c, r) ==
    \A i, j \in LeftFrom(n, q, c) :
        /\ q[i] \in r
        /\ prio[q[i]] = prio[q[j]]
        /\ i # j => q[i] # q[j]

(* foreachCheck() has found sources of the priority maxPriority, none of   *)
(* which it will come to again; those ahead are of no smaller one.         *)
FoundSoFar(q, c, r, n, m, ahead) ==
    /\ n = 0 => c = 0
    /\ AlikeIn(0, q, c, r)
    /\ \A i \in LeftFrom(0, q, c) : prio[q[i]] = m /\ q[i] \notin ahead
    /\ n > 0 => m \in Priorities /\ \A a \in ahead : prio[a] >= m

CheckRound ==
    \A t \in Threads : pc[t] = "checkNext" /\ Dispatch(t) =>
        FoundSoFar(pendingDispatches, pendingDispatchesCount, ready, nReady, maxPriority,
                   AheadOf(lists, iter))

RoundAlike ==
    \A t \in Threads : pc[t] \in {"excute", "callback"} /\ Dispatch(t) =>
        AlikeIn(at, pendingDispatches, pendingDispatchesCount, ready)

RoundInv == CallMade /\ NoneLeft /\ CheckRound /\ RoundAlike

(* What is left is not more when some of it is cleared.                    *)
LEMMA FewerAlike ==
    ASSUME NEW n \in Nat, NEW m \in Nat, n <= m, NEW q, NEW q2, NEW c \in Nat, NEW d \in Nat,
           NEW r, NEW r2, AlikeIn(n, q, c, r),
           \A i \in LeftFrom(m, q2, d) : i <= c /\ q2[i] = q[i] /\ (q[i] \in r => q2[i] \in r2)
    PROVE  /\ AlikeIn(m, q2, d, r2)
           /\ LeftFrom(m, q2, d) \subseteq LeftFrom(n, q, c)
<1>1. ASSUME NEW i \in LeftFrom(m, q2, d) PROVE i \in LeftFrom(n, q, c)
  BY <1>1 DEF LeftFrom
<1> QED
  BY <1>1 DEF AlikeIn

(* Nobody but the owner disturbs a round, except by clearing the array.    *)
LEMMA OthersClear ==
    ASSUME DInv, NEW t \in Threads, OtherStep(t), NEW n \in Nat
    PROVE  \A i \in LeftFrom(n, pendingDispatches', pendingDispatchesCount') :
              i <= pendingDispatchesCount /\ pendingDispatches'[i] = pendingDispatches[i]
<1> SUFFICES ASSUME NEW i \in LeftFrom(n, pendingDispatches', pendingDispatchesCount')
             PROVE  i <= pendingDispatchesCount /\ pendingDispatches'[i] = pendingDispatches[i]
  OBVIOUS
<1>1. /\ pendingDispatchesCount \in Nat /\ Len(pendingDispatches) \in Nat
      /\ pendingDispatchesCount <= Len(pendingDispatches)
      /\ DOMAIN pendingDispatches = 1 .. Len(pendingDispatches)
  BY DEF DInv, DataTyped
<1>2. pendingDispatchesCount' = pendingDispatchesCount \/ pendingDispatchesCount' = 0
  BY DEF OtherStep
<1>3. i \in 1 .. pendingDispatchesCount /\ pendingDispatches'[i] # NULL
  BY <1>1, <1>2 DEF LeftFrom
<1>4. CASE pendingDispatches' = pendingDispatches
  BY <1>3, <1>4
<1>5. CASE PendingCleared
  BY <1>1, <1>3, <1>5 DEF PendingCleared
<1> QED
  BY <1>3, <1>4, <1>5 DEF OtherStep

LEMMA RoundsStay ==
    ASSUME DInv, NEW u \in Threads, pc[u] \in Rounds, [Next]_vars
    PROVE  pc'[u] \in Rounds \/ IterateReturns(u)
<1>1. CASE Own(u)
  BY <1>1, OwnStage DEF DInv, Rounds
<1>2. CASE ~Own(u)
  BY <1>2, OthersWhileOwned DEF OtherStep, Held, InIteration, Rounds
<1> QED
  BY <1>1, <1>2

(* The owner alone adds to the array, in foreachCheck().                   *)
LEMMA CountStep ==
    ASSUME [Next]_vars
    PROVE  \/ pendingDispatchesCount' = pendingDispatchesCount
           \/ pendingDispatchesCount' = 0
           \/ \E u \in Threads : CheckNext(u)
<1>1. ASSUME NEW t \in Threads, Owning(t), ~CheckNext(t)
      PROVE  pendingDispatchesCount' = pendingDispatchesCount \/ pendingDispatchesCount' = 0
  BY <1>1 DEF Owning, LoopStarts, LoopLeaves, StartLoop, Prepare, PollReturns, Acknowledge,
     ExcuteNext, CallbackReturns, IterateReturns
<1>2. ASSUME NEW t \in Threads, Entering(t) \/ PollInterrupted(t) \/ WakesByItself(t)
      PROVE  pendingDispatchesCount' = pendingDispatchesCount \/ pendingDispatchesCount' = 0
  BY <1>2 DEF Entering, LoopContends, LoopWakes, IterateAcquires, IterateWaits, IterateWakes,
     StartLoop, PollInterrupted, WakesByItself
<1>3. ASSUME NEW t \in Threads, Calling(t)
      PROVE  pendingDispatchesCount' = pendingDispatchesCount \/ pendingDispatchesCount' = 0
  BY <1>3 DEF Calling, Run, Invoke, Iterate, Add, RemoveSource, SetReadyTime, RemoveAll, Quit
<1>4. ASSUME Tick \/ (\E s \in Sources : DataArrives(s)) \/ UNCHANGED vars
      PROVE  pendingDispatchesCount' = pendingDispatchesCount
  BY <1>4 DEF Tick, DataArrives, vars
<1> QED
  BY <1>1, <1>2, <1>3, <1>4 DEF Next

(* How a thread gets to the stages before a round.                         *)
LEMMA EntryStages ==
    ASSUME DInv, NEW t \in Threads, Own(t)
    PROVE  /\ call'[t] \in {"iterate", "try", "pending"} =>
                 call'[t] = call[t] \/ Iterate(t, call'[t])
           /\ pc'[t] \in Unwoken /\ call'[t] \in {"iterate", "try"} =>
                 pendingDispatchesCount' = 0 \/ (pc[t] \in Unwoken /\ call'[t] = call[t])
           /\ pc'[t] \in {"begun", "prepare", "poll", "check"} /\ call'[t] = "run" =>
                 \/ pendingDispatchesCount' = 0
                 \/ /\ pc[t] \in {"begun", "prepare", "poll", "check"} /\ call[t] = "run"
                    /\ pendingDispatchesCount' = pendingDispatchesCount
<1>1. pc \in [Threads -> Stages] /\ call \in [Threads -> CallNames]
  BY DEF DInv, IInv, Shape
<1>2. CASE LoopLeaves(t)
  BY <1>1, <1>2 DEF LoopLeaves, NotRunning
<1>3. CASE IterateReturns(t)
  <2>1. /\ call' = [call EXCEPT ![t] = IF call[t] = "run" THEN @ ELSE NotRunning]
        /\ pendingDispatchesCount' = IF Dispatch(t) THEN 0 ELSE pendingDispatchesCount
    BY <1>3 DEF IterateReturns
  <2> QED
    BY <1>1, <2>1 DEF NotRunning, Dispatch
<1>4. CASE LoopStarts(t) \/ LoopContends(t) \/ LoopWakes(t)
  BY <1>1, <1>4 DEF LoopStarts, LoopContends, LoopWakes, StartLoop, Goto, Unwoken, NotRunning,
     DInv, IInv, Shape, StageOf
<1>5. CASE Prepare(t) \/ PollReturns(t) \/ PollInterrupted(t) \/ Acknowledge(t)
           \/ CheckNext(t) \/ ExcuteNext(t) \/ CallbackReturns(t)
  BY <1>1, <1>5 DEF Prepare, PollReturns, PollInterrupted, Acknowledge, CheckNext, ExcuteNext,
     CallbackReturns, Goto, Unwoken
<1>6. CASE IterateAcquires(t) \/ IterateWaits(t) \/ IterateWakes(t)
  BY <1>1, <1>6 DEF IterateAcquires, IterateWaits, IterateWakes, Goto, Unwoken, NotRunning,
     DInv, IInv, Shape, StageOf
<1>7. CASE Calling(t)
  <2>1. CASE Run(t) \/ Invoke(t)
    BY <1>1, <2>1 DEF Run, Invoke, Goto
  <2>2. ASSUME NEW c \in Calls[t], Iterate(t, c)
        PROVE  pendingDispatchesCount' = 0 /\ call'[t] = c
    BY <1>1, <2>2 DEF Iterate
  <2>3. CASE ~(Run(t) \/ Invoke(t) \/ \E c \in Calls[t] : Iterate(t, c))
    <3>1. pc[t] \in {"idle", "callback"} /\ call' = call
      BY <1>7, <2>3 DEF Calling, Add, RemoveSource, SetReadyTime, RemoveAll, Quit, Called, threadVars
    <3>2. pc'[t] = pc[t]
      BY <1>1, <1>7, <2>3, <3>1 DEF Calling, Add, RemoveSource, SetReadyTime, RemoveAll, Quit,
         threadVars, Woken
    <3> QED
      BY <3>1, <3>2 DEF Unwoken
  <2> QED
    BY <2>1, <2>2, <2>3
<1> QED
  BY <1>2, <1>3, <1>4, <1>5, <1>6, <1>7 DEF Own, Owning, Entering

LEMMA CallMadeNext == ASSUME DInv, CallMade, [Next]_vars PROVE CallMade'
<1> SUFFICES ASSUME NEW t \in Threads, call'[t] \in {"iterate", "try", "pending"}
             PROVE  call'[t] \in Calls[t]
  BY DEF CallMade
<1>1. CASE Own(t)
  <2>1. call'[t] = call[t] \/ Iterate(t, call'[t])
    BY <1>1, EntryStages
  <2> QED
    BY <2>1 DEF CallMade, Iterate, Called
<1>2. CASE ~Own(t)
  BY <1>2, OthersStay DEF CallMade, DInv
<1> QED
  BY <1>1, <1>2

LEMMA NoneLeftNext ==
    ASSUME PendingAlone, DInv, CallMade, NoneLeft, [Next]_vars PROVE NoneLeft'
<1> SUFFICES ASSUME NEW t \in Threads
             PROVE  /\ pc'[t] \in Unwoken /\ call'[t] \in {"iterate", "try"}
                         => pendingDispatchesCount' = 0 \/ \E u \in Threads : pc'[u] \in Rounds
                    /\ pc'[t] \in {"begun", "prepare", "poll", "check"} /\ call'[t] = "run"
                         => pendingDispatchesCount' = 0
  BY DEF NoneLeft
<1>1. ASSUME pc'[t] \in Unwoken, call'[t] \in {"iterate", "try"}, pendingDispatchesCount' # 0
      PROVE  \E u \in Threads : pc'[u] \in Rounds
  <2>1. pc[t] \in Unwoken /\ call[t] = call'[t]
    <3>1. CASE Own(t)
      BY <1>1, <3>1, EntryStages
    <3>2. CASE ~Own(t)
      BY <1>1, <3>2, OthersStay DEF DInv, Unwoken
    <3> QED
      BY <3>1, <3>2
  <2>2. ASSUME NEW u \in Threads, pc[u] \in Rounds PROVE pc'[u] \in Rounds
    <3>1. SUFFICES ASSUME IterateReturns(u) PROVE FALSE
      BY <2>2, RoundsStay
    <3>2. call[u] = "pending"
      BY <1>1, <3>1 DEF IterateReturns, Dispatch
    <3>3. call[t] \in Calls[t] /\ "pending" \in Calls[u]
      BY <1>1, <2>1, <3>2 DEF CallMade
    <3>4. t # u
      BY <2>1, <2>2 DEF Unwoken, Rounds
    <3> QED
      BY <1>1, <2>1, <3>3, <3>4 DEF PendingAlone
  <2>3. CASE \E u \in Threads : CheckNext(u)
    BY <2>2, <2>3 DEF CheckNext, Rounds
  <2>4. CASE pendingDispatchesCount' = pendingDispatchesCount
    BY <1>1, <2>1, <2>2, <2>4 DEF NoneLeft
  <2> QED
    BY <1>1, <2>3, <2>4, CountStep
<1>2. ASSUME pc'[t] \in {"begun", "prepare", "poll", "check"}, call'[t] = "run"
      PROVE  pendingDispatchesCount' = 0
  <2>1. CASE Own(t)
    BY <1>2, <2>1, EntryStages DEF NoneLeft
  <2>2. CASE ~Own(t)
    <3>1. pc[t] = pc'[t] /\ call[t] = "run"
      BY <1>2, <2>2, OthersStay DEF DInv
    <3>2. OtherStep(t)
      BY <1>2, <2>2, <3>1, OthersWhileOwned DEF Held, InIteration
    <3>3. pendingDispatchesCount = 0
      BY <1>2, <3>1 DEF NoneLeft
    <3> QED
      BY <3>2, <3>3 DEF OtherStep
  <2> QED
    BY <2>1, <2>2
<1> QED
  BY <1>1, <1>2
(* A source that foreachCheck() finds ready is put behind the others: they *)
(* have its priority, and it is not among them.                            *)
LEMMA FoundOneMore ==
    ASSUME NEW q \in Seq(Sources \cup {NULL}), NEW c \in 0 .. Len(q), NEW r, NEW n \in Nat,
           NEW m, NEW ahead \in SUBSET AllSources, FoundSoFar(q, c, r, n, m, ahead),
           NEW s \in ahead, s \in Sources, ~(n > 0 /\ prio[s] > m),
           NEW rest \in SUBSET ahead, s \notin rest, \A a \in rest : prio[s] <= prio[a],
           NEW q2, q2[c + 1] = s, \A i \in 1 .. c : q2[i] = q[i]
    PROVE  FoundSoFar(q2, c + 1, r \cup {s}, n + 1, prio[s], rest)
<1>1. prio[s] \in Priorities /\ prio[s] \in Int /\ \A a \in rest : prio[a] \in Int
  BY PrioritiesAssumption, SourcesAssumption DEF AllSources
<1>2. c \in Nat /\ s # NULL
  BY SourcesAssumption
<1>3. ASSUME NEW i \in LeftFrom(0, q, c)
      PROVE  q[i] \in r /\ prio[q[i]] = prio[s] /\ q[i] # s /\ q[i] \notin rest
  <2>1. n > 0
    BY <1>2, <1>3 DEF FoundSoFar, LeftFrom
  <2>2. m \in Int /\ prio[s] >= m
    BY <2>1, PrioritiesAssumption DEF FoundSoFar
  <2>3. prio[s] = m
    BY <1>1, <2>1, <2>2
  <2> QED
    BY <1>3, <2>3 DEF FoundSoFar, AlikeIn
<1>4. ASSUME NEW i \in LeftFrom(0, q2, c + 1)
      PROVE  (i = c + 1 /\ q2[i] = s) \/ (i \in LeftFrom(0, q, c) /\ q2[i] = q[i])
  BY <1>2, <1>4 DEF LeftFrom
<1>5. AlikeIn(0, q2, c + 1, r \cup {s})
  <2>1. SUFFICES ASSUME NEW i \in LeftFrom(0, q2, c + 1), NEW j \in LeftFrom(0, q2, c + 1)
                 PROVE  /\ q2[i] \in r \cup {s} /\ prio[q2[i]] = prio[q2[j]]
                        /\ i # j => q2[i] # q2[j]
    BY DEF AlikeIn
  <2>2. CASE i = c + 1 /\ q2[i] = s
    BY <1>3, <1>4, <2>2
  <2>3. CASE i \in LeftFrom(0, q, c) /\ q2[i] = q[i]
    <3>1. CASE j = c + 1 /\ q2[j] = s
      BY <1>3, <2>3, <3>1
    <3>2. CASE j \in LeftFrom(0, q, c) /\ q2[j] = q[j]
      BY <1>3, <2>3, <3>2 DEF FoundSoFar, AlikeIn
    <3> QED
      BY <1>4, <3>1, <3>2
  <2> QED
    BY <1>4, <2>2, <2>3
<1>6. \A i \in LeftFrom(0, q2, c + 1) : prio[q2[i]] = prio[s] /\ q2[i] \notin rest
  BY <1>3, <1>4
<1>7. \A a \in rest : prio[a] >= prio[s]
  BY <1>1
<1> QED
  BY <1>1, <1>5, <1>6, <1>7 DEF FoundSoFar

LEMMA CheckNextFinds ==
    ASSUME DInv, IterThere, CheckRound, NEW t \in Threads, CheckNext(t), Dispatch(t),
           pc'[t] = "checkNext"
    PROVE  FoundSoFar(pendingDispatches', pendingDispatchesCount', ready', nReady', maxPriority',
                      AheadOf(lists', iter'))
<1> DEFINE s == NextSource(lists, iter)
           ahead == AheadOf(lists, iter)
           rest == AheadOf(lists, iter')
<1>1. /\ pc[t] = "checkNext" /\ HasNext(lists, iter) /\ iter' = NextIter(lists, iter)
      /\ lists' = lists
      /\ IF s \in active \ {Wakeup} THEN CheckSource(s)
         ELSE UNCHANGED <<ready, eventTime, pendingDispatches, pendingDispatchesCount, nReady,
                          maxPriority>>
      /\ s = NULL \/ s \notin active \/ ~BehindReady(s)
  BY DEF CheckNext, Goto, sourceVars, DInv, IInv, Shape
<1>2. /\ s \in ahead /\ s \notin rest /\ rest \subseteq ahead
      /\ \A a \in rest : prio[s] <= prio[a]
  <2>1. IterIn(lists, iter) /\ iter \in [value : Nat \ {0}, count : Nat] /\ ListsOK(lists)
    BY <1>1 DEF IterThere, DInv, DataTyped, StorageOK
  <2> QED
    BY <1>1, <2>1, IterStep
<1>3. FoundSoFar(pendingDispatches, pendingDispatchesCount, ready, nReady, maxPriority, ahead)
  BY <1>1 DEF CheckRound
<1>4. ahead \subseteq AllSources
  BY DEF AheadOf
<1> HIDE DEF s, ahead, rest
<1>5. CASE s \in active \ {Wakeup} /\ Checked(s)
  <2>1. CheckSource(s) /\ ~BehindReady(s) /\ s \in Sources
    <3>1. s \in Sources
      BY <1>5 DEF DInv, DataTyped, AllSources
    <3> QED
      BY <1>1, <1>5, <3>1, SourcesAssumption
  <2>2. /\ ready' = ready \cup {s} /\ nReady' = nReady + 1 /\ maxPriority' = prio[s]
        /\ pendingDispatchesCount' = pendingDispatchesCount + 1
        /\ pendingDispatches' =
              IF pendingDispatchesCount < Len(pendingDispatches)
              THEN [pendingDispatches EXCEPT ![pendingDispatchesCount + 1] = s]
              ELSE Append(pendingDispatches, s)
    BY <1>5, <2>1 DEF CheckSource
  <2>3. /\ pendingDispatches \in Seq(Sources \cup {NULL}) /\ nReady \in Nat
        /\ pendingDispatchesCount \in 0 .. Len(pendingDispatches)
    BY DEF DInv, DataTyped
  <2>4. /\ pendingDispatches'[pendingDispatchesCount + 1] = s
        /\ \A i \in 1 .. pendingDispatchesCount : pendingDispatches'[i] = pendingDispatches[i]
    BY <2>1, <2>2, <2>3, PendingPut
  <2>5. ~(nReady > 0 /\ prio[s] > maxPriority)
    BY <2>1 DEF BehindReady
  <2>6. FoundSoFar(pendingDispatches', pendingDispatchesCount + 1, ready \cup {s}, nReady + 1,
                   prio[s], rest)
    BY <1>2, <1>3, <1>4, <2>1, <2>3, <2>4, <2>5, FoundOneMore
  <2> QED
    BY <1>1, <2>2, <2>6 DEF rest
<1>6. CASE ~(s \in active \ {Wakeup} /\ Checked(s))
  <2>1. UNCHANGED <<ready, pendingDispatches, pendingDispatchesCount, nReady, maxPriority>>
    BY <1>1, <1>6 DEF CheckSource
  <2>2. FoundSoFar(pendingDispatches, pendingDispatchesCount, ready, nReady, maxPriority, rest)
    BY <1>2, <1>3 DEF FoundSoFar
  <2> QED
    BY <1>1, <2>1, <2>2 DEF rest
<1> QED
  BY <1>5, <1>6

(* removeAll() of another thread, or its iterate(), clears what was found. *)
LEMMA OthersFindNothing ==
    ASSUME ~Concurrent, DInv, CheckRound, NEW t \in Threads, pc[t] = "checkNext", Dispatch(t),
           OtherStep(t)
    PROVE  FoundSoFar(pendingDispatches', pendingDispatchesCount', ready', nReady', maxPriority',
                      AheadOf(lists', iter'))
<1>1. /\ UNCHANGED <<iter, nReady, maxPriority, ready>>
      /\ lists' = lists \/ lists'.prioIndex = <<>>
      /\ pendingDispatchesCount' = pendingDispatchesCount \/ pendingDispatchesCount' = 0
  BY DEF OtherStep
<1>2. AheadOf(lists', iter') \subseteq AheadOf(lists, iter)
  BY <1>1 DEF AheadOf
<1>3. FoundSoFar(pendingDispatches, pendingDispatchesCount, ready, nReady, maxPriority,
                 AheadOf(lists, iter))
  BY DEF CheckRound
<1>4. pendingDispatchesCount \in Nat /\ pendingDispatchesCount' \in Nat
  BY <1>1 DEF DInv, DataTyped
<1>5. \A i \in LeftFrom(0, pendingDispatches', pendingDispatchesCount') :
         i <= pendingDispatchesCount /\ pendingDispatches'[i] = pendingDispatches[i]
  BY OthersClear
<1>6. /\ AlikeIn(0, pendingDispatches', pendingDispatchesCount', ready)
      /\ LeftFrom(0, pendingDispatches', pendingDispatchesCount')
            \subseteq LeftFrom(0, pendingDispatches, pendingDispatchesCount)
  <2>1. AlikeIn(0, pendingDispatches, pendingDispatchesCount, ready)
    BY <1>3 DEF FoundSoFar
  <2> QED
    BY <1>4, <1>5, <2>1, FewerAlike
<1> QED
  BY <1>1, <1>2, <1>3, <1>5, <1>6 DEF FoundSoFar

LEMMA CheckRoundNext ==
    ASSUME ~Concurrent, DInv, IterThere, NoneLeft, CheckRound, [Next]_vars PROVE CheckRound'
<1> SUFFICES ASSUME NEW t \in Threads, pc'[t] = "checkNext", call'[t] # "pending"
             PROVE  FoundSoFar(pendingDispatches', pendingDispatchesCount', ready', nReady',
                               maxPriority', AheadOf(lists', iter'))
  BY DEF CheckRound, Dispatch
<1>1. CASE Acknowledge(t)
  <2>1. /\ pc[t] = "check" /\ call[t] # "pending"
        /\ nReady' = 0 /\ pendingDispatchesCount' = pendingDispatchesCount
    BY <1>1 DEF Acknowledge
  <2>2. call[t] \in {"run", "iterate", "try"}
    BY <2>1 DEF DInv, IInv, Shape, StageOf, InIteration
  <2>3. \A u \in Threads : pc[u] \notin Rounds
    BY <2>1 DEF DInv, IInv, OwnerCounted, Held, InIteration, Rounds
  <2>4. pendingDispatchesCount = 0
    BY <2>1, <2>2, <2>3 DEF NoneLeft, Unwoken
  <2> QED
    BY <2>1, <2>4 DEF FoundSoFar, AlikeIn, LeftFrom
<1>2. CASE CheckNext(t)
  BY <1>2, CheckNextFinds DEF CheckNext, Dispatch
<1>3. CASE ~Own(t)
  <2>1. pc[t] = "checkNext" /\ call[t] # "pending"
    BY <1>3, OthersStay DEF DInv
  <2>2. OtherStep(t)
    BY <1>3, <2>1, OthersWhileOwned DEF Held, InIteration
  <2> QED
    BY <2>1, <2>2, OthersFindNothing DEF Dispatch
<1> QED
  BY <1>1, <1>2, <1>3, OwnStage DEF DInv

LEMMA RoundAlikeNext ==
    ASSUME DInv, CheckRound, RoundAlike, [Next]_vars PROVE RoundAlike'
<1> SUFFICES ASSUME NEW t \in Threads, pc'[t] \in {"excute", "callback"}, call'[t] # "pending"
             PROVE  AlikeIn(at', pendingDispatches', pendingDispatchesCount', ready')
  BY DEF RoundAlike, Dispatch
<1>1. /\ pc \in [Threads -> Stages] /\ call \in [Threads -> CallNames]
      /\ pendingDispatches \in Seq(Sources \cup {NULL}) /\ at \in Nat
      /\ pendingDispatchesCount \in 0 .. Len(pendingDispatches)
      /\ Len(pendingDispatches) \in Nat /\ pendingDispatchesCount \in Nat
      /\ DOMAIN pendingDispatches = 1 .. Len(pendingDispatches)
  BY DEF DInv, IInv, Shape, DataTyped
<1>2. CASE CheckNext(t)
  <2>1. /\ pc[t] = "checkNext" /\ call[t] # "pending"
        /\ UNCHANGED <<ready, pendingDispatches, pendingDispatchesCount, at>>
    BY <1>1, <1>2 DEF CheckNext
  <2>2. AlikeIn(0, pendingDispatches, pendingDispatchesCount, ready)
    BY <2>1 DEF CheckRound, FoundSoFar, Dispatch
  <2> QED
    BY <1>1, <2>1, <2>2 DEF AlikeIn, LeftFrom
<1>3. CASE ExcuteNext(t)
  <2> DEFINE s == pendingDispatches[at + 1]
  <2>1. /\ pc[t] = "excute" /\ call[t] # "pending" /\ at < pendingDispatchesCount
        /\ at' = at + 1 /\ pendingDispatchesCount' = pendingDispatchesCount
        /\ pendingDispatches' = [pendingDispatches EXCEPT ![at + 1] = NULL]
        /\ ready' = ready \ {s}
    BY <1>3 DEF ExcuteNext
  <2>2. AlikeIn(at, pendingDispatches, pendingDispatchesCount, ready)
    BY <2>1 DEF RoundAlike, Dispatch
  <2>3. ASSUME NEW i \in LeftFrom(at + 1, pendingDispatches', pendingDispatchesCount)
        PROVE  /\ i <= pendingDispatchesCount /\ pendingDispatches'[i] = pendingDispatches[i]
               /\ pendingDispatches[i] # s
    <3>1. i \in at + 2 .. pendingDispatchesCount /\ pendingDispatches'[i] # NULL
      BY <1>1, <2>3 DEF LeftFrom
    <3>2. pendingDispatches'[i] = pendingDispatches[i]
      BY <1>1, <2>1, <3>1
    <3>3. i \in LeftFrom(at, pendingDispatches, pendingDispatchesCount)
      BY <1>1, <3>1, <3>2 DEF LeftFrom
    <3>4. CASE s = NULL
      BY <3>1, <3>2, <3>4
    <3>5. CASE s # NULL
      <4>1. at + 1 \in LeftFrom(at, pendingDispatches, pendingDispatchesCount) /\ i # at + 1
        BY <1>1, <2>1, <3>1, <3>5 DEF LeftFrom
      <4>2. pendingDispatches[i] # pendingDispatches[at + 1]
        BY <2>2, <3>3, <4>1 DEF AlikeIn
      <4> QED
        BY <3>1, <3>2, <4>2
    <3> QED
      BY <1>1, <3>1, <3>2, <3>4, <3>5
  <2>4. \A i \in LeftFrom(at + 1, pendingDispatches', pendingDispatchesCount) :
           /\ i <= pendingDispatchesCount /\ pendingDispatches'[i] = pendingDispatches[i]
           /\ pendingDispatches[i] \in ready => pendingDispatches'[i] \in ready'
    BY <2>1, <2>3
  <2>5. at + 1 \in Nat /\ at <= at + 1
    BY <1>1
  <2> HIDE DEF s
  <2>6. AlikeIn(at + 1, pendingDispatches', pendingDispatchesCount, ready')
    BY <1>1, <2>2, <2>4, <2>5, FewerAlike
  <2> QED
    BY <2>1, <2>6
<1>4. CASE CallbackReturns(t)
  <2>1. /\ pc[t] = "callback" /\ call[t] # "pending"
        /\ UNCHANGED <<ready, pendingDispatches, pendingDispatchesCount, at>>
    BY <1>4 DEF CallbackReturns
  <2> QED
    BY <2>1 DEF RoundAlike, Dispatch
<1>5. CASE Calling(t) /\ pc[t] = "callback"
  <2>1. call[t] # "pending" /\ UNCHANGED <<ready, at, pendingDispatchesCount>>
    BY <1>5 DEF Calling, Run, Invoke, Iterate, Add, RemoveSource, SetReadyTime, RemoveAll, Quit,
       threadVars, roundVars
  <2>2. AlikeIn(at, pendingDispatches, pendingDispatchesCount, ready)
    BY <1>5, <2>1 DEF RoundAlike, Dispatch
  <2>3. pendingDispatches' = pendingDispatches \/ PendingCleared
    BY <1>5 DEF Calling, Run, Invoke, Iterate, Add, RemoveSource, SetReadyTime, RemoveAll, Quit,
       PendingCleared
  <2>4. CASE PendingCleared
    <3>1. LeftFrom(at, pendingDispatches', pendingDispatchesCount) = {}
      BY <1>1, <2>4 DEF PendingCleared, LeftFrom
    <3> QED
      BY <2>1, <3>1 DEF AlikeIn
  <2> QED
    BY <2>1, <2>2, <2>3, <2>4
<1>6. CASE ~Own(t)
  <2>1. pc[t] \in {"excute", "callback"} /\ call[t] # "pending"
    BY <1>6, OthersStay DEF DInv
  <2>2. OtherStep(t)
    BY <1>6, <2>1, OthersWhileOwned DEF Held, InIteration
  <2>3. /\ at' = at /\ ready' = ready
        /\ pendingDispatchesCount' = pendingDispatchesCount \/ pendingDispatchesCount' = 0
    BY <2>2 DEF OtherStep
  <2>4. AlikeIn(at, pendingDispatches, pendingDispatchesCount, ready)
    BY <2>1 DEF RoundAlike, Dispatch
  <2>5. \A i \in LeftFrom(at, pendingDispatches', pendingDispatchesCount') :
           i <= pendingDispatchesCount /\ pendingDispatches'[i] = pendingDispatches[i]
    BY <1>1, <2>2, OthersClear
  <2>6. pendingDispatchesCount' \in Nat /\ at <= at
    BY <1>1, <2>3
  <2>7. AlikeIn(at, pendingDispatches', pendingDispatchesCount', ready)
    BY <1>1, <2>4, <2>5, <2>6, FewerAlike
  <2> QED
    BY <2>3, <2>7
<1> QED
  BY <1>2, <1>3, <1>4, <1>5, <1>6, OwnStage DEF DInv

(* foreachCheck() and excute(): the sources of a round are of one priority *)
(* and each is dispatched once, as long as only the owner adds and removes *)
(* sources, and no other thread iterates beside a thread that calls        *)
(* pending().  Without the second condition the sources that pending() has *)
(* left in the array are dispatched with those of another round.           *)
THEOREM RoundOfOnePriority ==
    ASSUME ~Concurrent, PendingAlone PROVE SafeSpec => []PendingRound
<1>1. Init => IterThere /\ RoundInv
  BY DEF Init, IterThere, RoundInv, CallMade, NoneLeft, CheckRound, RoundAlike, NotRunning,
     Unwoken
<1>2. DInv /\ IterThere /\ RoundInv /\ [Next]_vars => IterThere' /\ RoundInv'
  BY IterThereNext, CallMadeNext, NoneLeftNext, CheckRoundNext, RoundAlikeNext DEF RoundInv
<1>3. RoundInv => PendingRound
  BY DEF RoundInv, RoundAlike, AlikeIn, LeftFrom, PendingRound
<1> QED
  BY DInvInit, DInvNext, <1>1, <1>2, <1>3, PTL DEF SafeSpec
=============================================================================
