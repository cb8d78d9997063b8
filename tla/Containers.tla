----------------------------- MODULE Containers -----------------------------
(***************************************************************************)
(* The storage of event sources, the heap and the slice allocator, side by *)
(* side: they keep no state in common.  What is proved about them is       *)
(* proved here, and MCSequential runs them.                                *)
(***************************************************************************)
EXTENDS Integers, FiniteSets, Sequences

CONSTANTS EventSources, Polled, Priorities, MaxSource, MaxCalls,    \* ArrayStorage
          Items, rank, MaxLength,                                   \* APriorityQueue
          Threads, Pages, PageSize, MinMagazineSize, Thresholds,    \* ASlice
          NULL                                                      \* also of the others

(* Priorities are of type int; ids go from 1 to maxSource.                 *)
ASSUME PrioritiesAssumption == Priorities \subseteq Int /\ NULL \notin Priorities
ASSUME SourcesAssumption == NULL \notin EventSources /\ MaxSource \in Nat

(* The comparison callback is an order of the items.                       *)
ASSUME RankAssumption == rank \in [Items -> Int]
ASSUME LengthAssumption == MaxLength \in Nat

(* A page holds at least one chunk; allocator_get_magazine_threshold()     *)
(* gives no less than MIN_MAGAZINE_SIZE.                                   *)
ASSUME PagesAssumption == /\ IsFiniteSet(Pages) /\ PageSize \in Nat \ {0}
                          /\ NULL \notin Pages \X (1 .. PageSize)
ASSUME MagazineAssumption == /\ MinMagazineSize \in Nat /\ Thresholds \subseteq Nat
                             /\ \A n \in Thresholds : MinMagazineSize <= n
ASSUME ThreadsAssumption == NULL \notin Threads

VARIABLES nextId, sourcesHash, lists, sourcesArray, memPos, epollSources,
          epollSourceCount, memPollPos, id, priority, newPriority, refs,
          removing, aborted, calls,
          heap, op, hole, moving, heapContent,
          slabs, chunks, n_allocated, slab_mutex, cache, magazine1, magazine2,
          inUse, slicePc, mem, transit, threshold, taken

Storage == INSTANCE ArrayStorage WITH Sources <- EventSources

Heap == INSTANCE APriorityQueue WITH content <- heapContent, None <- NULL

Slice == INSTANCE ASlice WITH pc <- slicePc, i <- taken, None <- NULL

(* The places of the storage: see ArrayStorage.                            *)
PlacesAgree == Storage!PlacesAgree

(* The items of the heap: see APriorityQueue.                              *)
TopIsLeast == Heap!TopIsLeast

(* The chunks of the slice allocator: see ASlice.                          *)
ChunksConserved == Slice!ChunksConserved
=============================================================================
