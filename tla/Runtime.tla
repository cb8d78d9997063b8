------------------------------ MODULE Runtime ------------------------------
(***************************************************************************)
(* The parts of the run-time that threads share: the mutex, reference      *)
(* counts, initialisation once, the unused threads, the spawner and the    *)
(* registry of device memory.  They keep no state in common, so each       *)
(* behaviour is one of the part that it begins with.                       *)
(***************************************************************************)
EXTENDS AMutex

CONSTANTS Refs, MaxLate,                                   \* AObject
          OnceThreads, Locations, Onces, inner,            \* Once
          PoolThreads, Pools, Callers, Limits, IdleTimes, MaxCalls, Marker,
          Askers, Makers, MayFail,                         \* ThreadSpawner
          MemThreads, Addresses, Devices,                  \* MtcsMem
          None,                                            \* NULL
          Parts                                            \* those that a behaviour may be of

(* An object has as many references as the program makes; NULL is none of  *)
(* the things that a pointer may point to.                                 *)
ASSUME PartsAssumption == Parts \subseteq {"mutex", "object", "once", "pool", "spawner", "memory"}
ASSUME RefsAssumption == IsFiniteSet(Refs) /\ Refs # {}
ASSUME NoneAssumption == None \notin OnceThreads \cup Askers \cup Makers

VARIABLES part,
          refCount, refPc, old, freed, late,
          p, holder, mutex, value, init_list, stack, oncePc, goal, onceSeen, begun, done,
          unusedQueue, unusedThreads, wakeupSerial, maxUnusedThreads,
          killUnusedThreads, maxIdleTime, poolPc, poolSeen, relayed, got,
          cpc, arg, restore, calls, raced,
          spc, serving, queue, callPc, thread, threadRefs, joined, detached, life, threadFreed,
          registry, memory, owned, memPc, address, device, aborted

objectVars == <<refCount, refPc, old, freed, late>>
onceVars == <<p, holder, mutex, value, init_list, stack, oncePc, goal, onceSeen, begun, done>>
poolVars == <<unusedQueue, unusedThreads, wakeupSerial, maxUnusedThreads,
              killUnusedThreads, maxIdleTime, poolPc, poolSeen, relayed, got,
              cpc, arg, restore, calls, raced>>
spawnVars == <<spc, serving, queue, callPc, thread, threadRefs, joined, detached, life, threadFreed>>
memVars == <<registry, memory, owned, memPc, address, device, aborted>>

Object == INSTANCE AObject WITH pc <- refPc

Location == INSTANCE Once WITH Threads <- OnceThreads, pc <- oncePc, seen <- onceSeen

Pool == INSTANCE UnusedThread WITH Threads <- PoolThreads, pc <- poolPc, seen <- poolSeen

Spawn == INSTANCE ThreadSpawner
             WITH pc <- callPc, refCount <- threadRefs, freed <- threadFreed

Memory == INSTANCE MtcsMem WITH Threads <- MemThreads, pc <- memPc

(* Where the part that runs is another one, it does not matter which       *)
(* reference the creator has or what the limit was set to.                 *)
AllInit == /\ part \in Parts
           /\ Init /\ Object!Init /\ Location!Init /\ Pool!Init /\ Spawn!Init /\ Memory!Init
           /\ part = "object" \/ refPc = [r \in Refs |-> IF r = CHOOSE s \in Refs : TRUE
                                                         THEN "held" ELSE "none"]
           /\ part = "pool" \/ maxUnusedThreads = 2

MutexNext == Next /\ UNCHANGED <<objectVars, onceVars, poolVars, spawnVars, memVars>>
ObjectNext == Object!Next /\ UNCHANGED <<vars, onceVars, poolVars, spawnVars, memVars>>
OnceNext == Location!Next /\ UNCHANGED <<vars, objectVars, poolVars, spawnVars, memVars>>
PoolNext == Pool!Next /\ UNCHANGED <<vars, objectVars, onceVars, spawnVars, memVars>>
SpawnNext == Spawn!Next /\ UNCHANGED <<vars, objectVars, onceVars, poolVars, memVars>>
MemoryNext == Memory!Next /\ UNCHANGED <<vars, objectVars, onceVars, poolVars, spawnVars>>

AllNext == /\ \/ part = "mutex" /\ MutexNext
              \/ part = "object" /\ ObjectNext
              \/ part = "once" /\ OnceNext
              \/ part = "pool" /\ PoolNext
              \/ part = "spawner" /\ SpawnNext
              \/ part = "memory" /\ MemoryNext
           /\ UNCHANGED part

allVars == <<part, vars, objectVars, onceVars, poolVars, spawnVars, memVars>>

(* The fairness of the parts: those that a behaviour does not run stay     *)
(* where nothing of theirs is bound to happen.                             *)
AllSpec == /\ AllInit /\ [][AllNext]_allVars
           /\ Fairness /\ Location!Fairness /\ Pool!Fairness /\ Spawn!Fairness
-----------------------------------------------------------------------------
(* The properties of the parts, under their own names: see the modules.    *)
FreedAtLastRef == Object!FreedAtLastRef
InitialisedOnce == Location!InitialisedOnce
CallsReturn == Location!CallsReturn
Settles == Pool!Settles
ImplementsGlobalPool == Pool!ImplementsGlobalPool
RecordsAlive == Spawn!RecordsAlive
ThreadGivenBack == Spawn!ThreadGivenBack
AskersAnswered == Spawn!AskersAnswered
MemoryRegistered == Memory!MemoryRegistered
=============================================================================
