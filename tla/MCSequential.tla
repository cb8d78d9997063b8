---------------------------- MODULE MCSequential ----------------------------
(* The data structures of the library that are used by one thread at a     *)
(* time, and the slice allocator, which gives them their memory: each      *)
(* behaviour is one of the part that it begins with.                       *)
EXTENDS Containers, TLC

CONSTANTS e1, e2, e3,                               \* event sources, and elements
          k1, k2, k3, k4, k5, v, n1, n2, n3, n4, p1, p2, p3, t1, t2

VARIABLES part,
          shift, hashes, keys, values, isSet, nnodes, noccupied, hashContent,
          list, used, held, listContent, cleared,
          array, input

storageVars == <<nextId, sourcesHash, lists, sourcesArray, memPos, epollSources,
                 epollSourceCount, memPollPos, id, priority, newPriority, refs,
                 removing, aborted, calls>>
hashVars == <<shift, hashes, keys, values, isSet, nnodes, noccupied, hashContent>>
listVars == <<list, used, held, listContent, cleared>>
heapVars == <<heap, op, hole, moving, heapContent>>
sortVars == <<array, input>>
sliceVars == <<slabs, chunks, n_allocated, slab_mutex, cache, magazine1, magazine2,
               inUse, slicePc, mem, transit, threshold, taken>>

MCPriorities == {-1, 0}

(* Two keys with one hash, one of them too small to be a real hash, and    *)
(* others that meet them in tables of 4 and 8 buckets.                     *)
MChash == (k1 :> 0) @@ (k2 :> 2) @@ (k3 :> 5) @@ (k4 :> 3) @@ (k5 :> 9)
Table == INSTANCE AHashTable
             WITH content <- hashContent, Keys <- {k1, k2, k3, k4, k5}, hashFunc <- MChash,
                  Values <- {v}, MinShift <- 2, None <- NULL

(* Two of them equal.                                                      *)
MCrank == (e1 :> 1) @@ (e2 :> 1) @@ (e3 :> 2)
List == INSTANCE AList
            WITH content <- listContent, Nodes <- {n1, n2, n3, n4}, Datas <- {e1, e2, e3},
                 rank <- MCrank, None <- NULL

Array == INSTANCE AQSort
             WITH Elements <- {e1, e2, e3, k1, k2},
                  rank <- MCrank @@ (k1 :> 2) @@ (k2 :> 0)

AllInit == /\ part \in {"storage", "hash", "list", "heap", "sort", "slice"}
           /\ Storage!Init /\ Table!Init /\ List!Init /\ Heap!Init /\ Array!Init
           /\ Slice!Init
           /\ part = "storage" \/ priority = [e \in {e1, e2, e3} |-> 0]
           /\ part = "sort" \/ array = <<e1, e2>>

StorageNext == Storage!Next /\ UNCHANGED <<hashVars, listVars, heapVars, sortVars, sliceVars>>
HashNext == Table!Next /\ UNCHANGED <<storageVars, listVars, heapVars, sortVars, sliceVars>>
ListNext == List!Next /\ UNCHANGED <<storageVars, hashVars, heapVars, sortVars, sliceVars>>
HeapNext == Heap!Next /\ UNCHANGED <<storageVars, hashVars, listVars, sortVars, sliceVars>>
SortNext == Array!Next /\ UNCHANGED <<storageVars, hashVars, listVars, heapVars, sliceVars>>
SliceNext == Slice!Next /\ UNCHANGED <<storageVars, hashVars, listVars, heapVars, sortVars>>

AllNext == /\ \/ part = "storage" /\ StorageNext
              \/ part = "hash" /\ HashNext
              \/ part = "list" /\ ListNext
              \/ part = "heap" /\ HeapNext
              \/ part = "sort" /\ SortNext
              \/ part = "slice" /\ SliceNext
           /\ UNCHANGED part

AllSpec == /\ AllInit
           /\ [][AllNext]_<<part, storageVars, hashVars, listVars, heapVars, sortVars, sliceVars>>

(* The other parts have no threads and no pages.                           *)
Symmetric == Permutations({t1, t2}) \cup Permutations({p1, p2, p3})

(* The properties of the other parts, under their own names: see the       *)
(* modules.                                                                *)
TableIsMap == Table!TableIsMap
ListIsSequence == List!ListIsSequence
SortedStably == Array!SortedStably
=============================================================================
