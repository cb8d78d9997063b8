------------------------------- MODULE ASlice -------------------------------
(***************************************************************************)
(* aslice.c: the slice allocator, for chunks of one size.  Each thread has *)
(* two magazines of free chunks; full ones go to a cache that all threads  *)
(* share, and come back from there; the cache gives magazines that are too *)
(* old to the slab allocator, which cuts pages into chunks.  The cache and *)
(* the slabs have a mutex each.  What is done under the one of the cache   *)
(* is an action; under slab_mutex chunks are taken or freed in loops, of   *)
(* which every round is an action.                                         *)
(*                                                                         *)
(* A magazine is the set of its chunks and the count that the code keeps;  *)
(* the time is left out, any magazine but the newest may be too old.       *)
(***************************************************************************)
EXTENDS Integers, FiniteSets, Sequences

CONSTANTS Threads,
          Pages, PageSize,    \* PageSize chunks in each page
          MinMagazineSize,    \* MIN_MAGAZINE_SIZE
          Thresholds,         \* what allocator_get_magazine_threshold() may give
          None

VARIABLES slabs,          \* slab_stack: the ring of pages, the head first
          chunks,         \* of each page: its free chunks
          n_allocated,    \* of each page
          cache,          \* magazines: the ring, the head first
          magazine1, magazine2,
          inUse,          \* the chunks that the program has
          pc, mem,        \* what each thread does, and with which chunk
          transit,        \* the chunks each thread moves to or from the slabs
          slab_mutex,     \* who has it, or None
          threshold, i    \* of each thread in magazine_cache_pop_magazine()

slabVars == <<slabs, chunks, n_allocated, slab_mutex>>
loopVars == <<transit, threshold, i>>
vars == <<slabVars, cache, magazine1, magazine2, inUse, pc, mem, loopVars>>

NoChunks == [chunks |-> {}, count |-> 0]

Init == /\ slabs = <<>>
        /\ chunks = [p \in Pages |-> {}]
        /\ n_allocated = [p \in Pages |-> 0]
        /\ cache = <<>>
        /\ magazine1 = [t \in Threads |-> NoChunks]
        /\ magazine2 = [t \in Threads |-> NoChunks]
        /\ inUse = {}
        /\ pc = [t \in Threads |-> "idle"]
        /\ mem = [t \in Threads |-> None]
        /\ transit = [t \in Threads |-> {}]
        /\ slab_mutex = None
        /\ threshold = [t \in Threads |-> 0] /\ i = [t \in Threads |-> 0]

Goto(t, label) == pc' = [pc EXCEPT ![t] = label]
-----------------------------------------------------------------------------
Ring == {slabs[k] : k \in 1 .. Len(slabs)}

NewPages == Pages \ Ring

HeadEmpty == slabs # <<>> => chunks[Head(slabs)] = {}

(* slab_allocator_alloc_chunk(): from the head of the ring, which goes to  *)
(* the end when it is used up; allocator_add_slab() before, if it was.     *)
AddSlab(p) ==
    /\ HeadEmpty /\ p \in NewPages
    /\ slabs' = <<p>> \o slabs
    /\ chunks' = [chunks EXCEPT ![p] = {p} \X (1 .. PageSize)]
    /\ UNCHANGED n_allocated

AllocChunk(c) ==
    LET p == Head(slabs)
    IN  /\ ~HeadEmpty /\ c \in chunks[p]
        /\ slabs' = IF chunks[p] = {c} THEN Append(Tail(slabs), p) ELSE slabs
        /\ chunks' = [chunks EXCEPT ![p] = @ \ {c}]
        /\ n_allocated' = [n_allocated EXCEPT ![p] = @ + 1]

(* slab_allocator_free_chunk(): a page that was used up goes to the head   *)
(* of the ring, one that is no longer used is given back.                  *)
FreeChunk(c) ==
    LET p == c[1]
        k == CHOOSE k \in 1 .. Len(slabs) : slabs[k] = p
        others == [j \in 1 .. Len(slabs) - 1 |-> slabs[IF j < k THEN j ELSE j + 1]]
        last == n_allocated[p] = 1
    IN  /\ slabs' = IF last THEN others
                    ELSE IF chunks[p] = {} THEN <<p>> \o others ELSE slabs
        /\ chunks' = [chunks EXCEPT ![p] = IF last THEN {} ELSE @ \cup {c}]
        /\ n_allocated' = [n_allocated EXCEPT ![p] = @ - 1]
-----------------------------------------------------------------------------
(* a_slice_alloc(): the first magazine, the second one, or a new one.      *)
TakeFrom(t, m) ==
    \E c \in m.chunks :
        /\ inUse' = inUse \cup {c}
        /\ magazine1' = [magazine1 EXCEPT ![t] =
                             [chunks |-> m.chunks \ {c},
                              count |-> IF m.count > 0 THEN m.count - 1 ELSE 0]]

Alloc(t) ==
    /\ pc[t] = "idle"
    /\ IF magazine1[t].chunks # {}
       THEN TakeFrom(t, magazine1[t]) /\ UNCHANGED <<magazine2, pc>>
       ELSE /\ magazine2' = [magazine2 EXCEPT ![t] = magazine1[t]]
            /\ IF magazine2[t].chunks # {}
               THEN TakeFrom(t, magazine2[t]) /\ UNCHANGED pc
               ELSE /\ magazine1' = [magazine1 EXCEPT ![t] = NoChunks]
                    /\ Goto(t, "reload") /\ UNCHANGED inUse
    /\ UNCHANGED <<slabVars, cache, mem, loopVars>>

(* magazine_cache_pop_magazine(): the newest magazine, if there is one.    *)
PopMagazine(t) ==
    /\ pc[t] = "reload"
    /\ IF cache = <<>>
       THEN /\ \E n \in Thresholds : threshold' = [threshold EXCEPT ![t] = n]
            /\ Goto(t, "slab") /\ UNCHANGED <<cache, magazine1, inUse>>
       ELSE /\ cache' = Tail(cache)
            /\ TakeFrom(t, Head(cache))
            /\ Goto(t, "idle") /\ UNCHANGED threshold
    /\ UNCHANGED <<slabVars, magazine2, mem, transit, i>>

(* Its loop.  Nobody begins it when there is not enough memory left.       *)
Available == UNION {chunks[p] : p \in Pages} \cup (NewPages \X (1 .. PageSize))

AllocFromSlabs(t) ==
    /\ pc[t] = "slab" /\ i[t] < threshold[t]
    /\ \/ slab_mutex = t
       \/ slab_mutex = None /\ Cardinality(Available) >= threshold[t]
    /\ slab_mutex' = t
    /\ \/ (\E p \in Pages : AddSlab(p)) /\ UNCHANGED <<transit, i>>
       \/ \E c \in Available : /\ AllocChunk(c)
                               /\ transit' = [transit EXCEPT ![t] = @ \cup {c}]
                               /\ i' = [i EXCEPT ![t] = @ + 1]
    /\ UNCHANGED <<cache, magazine1, magazine2, inUse, pc, mem, threshold>>

Reload(t) ==
    /\ pc[t] = "slab" /\ i[t] >= threshold[t]
    /\ slab_mutex' = None
    /\ TakeFrom(t, [chunks |-> transit[t], count |-> i[t]])
    /\ transit' = [transit EXCEPT ![t] = {}]
    /\ threshold' = [threshold EXCEPT ![t] = 0] /\ i' = [i EXCEPT ![t] = 0]
    /\ Goto(t, "idle")
    /\ UNCHANGED <<slabs, chunks, n_allocated, cache, magazine2, mem>>

(* thread_memory_magazine2_free()                                          *)
Added(m, c) == [chunks |-> m.chunks \cup {c}, count |-> m.count + 1]

(* a_slice_free1(), by any thread: into the second magazine; a full one    *)
(* becomes the first; if that was full as well it goes to the cache.       *)
Free1(t, c) ==
    /\ pc[t] = "idle" /\ c \in inUse
    /\ inUse' = inUse \ {c}
    /\ \E n1, n2 \in Thresholds :
          IF magazine2[t].count < n1
          THEN /\ magazine2' = [magazine2 EXCEPT ![t] = Added(@, c)]
               /\ UNCHANGED <<magazine1, pc, mem>>
          ELSE /\ magazine1' = [magazine1 EXCEPT ![t] = magazine2[t]]
               /\ IF magazine1[t].count < n2
                  THEN /\ magazine2' = [magazine2 EXCEPT ![t] = Added(magazine1[t], c)]
                       /\ UNCHANGED <<pc, mem>>
                  ELSE /\ magazine2' = [magazine2 EXCEPT ![t] = magazine1[t]]
                       /\ mem' = [mem EXCEPT ![t] = c]
                       /\ Goto(t, "unload")
    /\ UNCHANGED <<slabVars, cache, loopVars>>

(* magazine_cache_push_magazine() and magazine_cache_trim(): the magazine  *)
(* is the new head; the oldest ones, from the tail, are taken out.         *)
PushMagazine(t, m) ==
    \E keep \in 0 .. Len(cache) :
        /\ cache' = <<m>> \o SubSeq(cache, 1, keep)
        /\ transit' = [transit EXCEPT ![t] =
                           UNION {cache[k].chunks : k \in keep + 1 .. Len(cache)}]

(* Faulty variant: the chunks stay in the magazine as well.                *)
UnloadKeepsChunks(t) ==
    /\ pc[t] = "unload"
    /\ PushMagazine(t, magazine2[t])
    /\ magazine2' = [magazine2 EXCEPT ![t] = [Added(@, mem[t]) EXCEPT !.count = 1]]
    /\ mem' = [mem EXCEPT ![t] = None]
    /\ Goto(t, "trash")
    /\ UNCHANGED <<slabVars, magazine1, inUse, threshold, i>>

(* thread_memory_magazine2_unload(), and then the chunk.  (The old ones    *)
(* are freed before that, in FreeTrash, under another mutex.)              *)
Unload(t) ==
    /\ pc[t] = "unload"
    /\ PushMagazine(t, magazine2[t])
    /\ magazine2' = [magazine2 EXCEPT ![t] = Added(NoChunks, mem[t])]
    /\ mem' = [mem EXCEPT ![t] = None]
    /\ Goto(t, "trash")
    /\ UNCHANGED <<slabVars, magazine1, inUse, threshold, i>>

FreeTrash(t) ==
    /\ pc[t] \in {"trash", "trash1", "trash2"}
    /\ slab_mutex \in {None, t} /\ slab_mutex' = t
    /\ \E c \in transit[t] : /\ FreeChunk(c)
                             /\ transit' = [transit EXCEPT ![t] = @ \ {c}]
    /\ UNCHANGED <<cache, magazine1, magazine2, inUse, pc, mem, threshold, i>>

TrashFreed(t) ==
    /\ pc[t] \in {"trash", "trash1", "trash2"} /\ transit[t] = {}
    /\ slab_mutex' = IF slab_mutex = t THEN None ELSE slab_mutex
    /\ Goto(t, IF pc[t] = "trash1" THEN "exit2" ELSE "idle")
    /\ UNCHANGED <<slabs, chunks, n_allocated, cache, magazine1, magazine2, inUse,
                   mem, loopVars>>

(* private_thread_memory_cleanup(), when a thread ends: each magazine goes *)
(* to the cache or, if it is too small for that, to the slabs.  The thread *)
(* that is idle afterwards is a new one.                                   *)
Exit(t) == /\ pc[t] = "idle"
           /\ Goto(t, "exit1")
           /\ UNCHANGED <<slabVars, cache, magazine1, magazine2, inUse, mem, loopVars>>

CleanUp(t, m) == IF m.count >= MinMagazineSize THEN PushMagazine(t, m)
                 ELSE /\ transit' = [transit EXCEPT ![t] = m.chunks]
                      /\ UNCHANGED cache

CleanUp1(t) == /\ pc[t] = "exit1"
               /\ CleanUp(t, magazine1[t])
               /\ magazine1' = [magazine1 EXCEPT ![t] = NoChunks]
               /\ Goto(t, "trash1")
               /\ UNCHANGED <<slabVars, magazine2, inUse, mem, threshold, i>>

CleanUp2(t) == /\ pc[t] = "exit2"
               /\ CleanUp(t, magazine2[t])
               /\ magazine2' = [magazine2 EXCEPT ![t] = NoChunks]
               /\ Goto(t, "trash2")
               /\ UNCHANGED <<slabVars, magazine1, inUse, mem, threshold, i>>

Next == \E t \in Threads :
            \/ Alloc(t) \/ PopMagazine(t) \/ AllocFromSlabs(t) \/ Reload(t)
            \/ \E c \in inUse : Free1(t, c)
            \/ Unload(t) \/ FreeTrash(t) \/ TrashFreed(t)
            \/ Exit(t) \/ CleanUp1(t) \/ CleanUp2(t)

Spec == Init /\ [][Next]_vars
-----------------------------------------------------------------------------
Cached == UNION {cache[k].chunks : k \in 1 .. Len(cache)}

Own(t) == magazine1[t].chunks \cup magazine2[t].chunks \cup transit[t] \cup ({mem[t]} \ {None})

Outside == inUse \cup Cached \cup UNION {Own(t) : t \in Threads}

(* No chunk is in two places.                                              *)
OwnApart(t) ==
    /\ magazine1[t].chunks \cap magazine2[t].chunks = {}
    /\ transit[t] \cap (magazine1[t].chunks \cup magazine2[t].chunks) = {}
    /\ mem[t] \notin magazine1[t].chunks \cup magazine2[t].chunks \cup transit[t]
    /\ Own(t) \cap (inUse \cup Cached) = {}

CacheApart == \A j, k \in 1 .. Len(cache) : j # k => cache[j].chunks \cap cache[k].chunks = {}

OnePlace == /\ \A t \in Threads : OwnApart(t)
            /\ \A t, u \in Threads : t # u => Own(t) \cap Own(u) = {}
            /\ inUse \cap Cached = {}
            /\ CacheApart

(* slab_allocator_free_chunk(), "keep slab ring partially sorted": a page  *)
(* is added only if every page is used up.                                 *)
RingSorted == \A j, k \in 1 .. Len(slabs) :
                  j < k /\ chunks[slabs[j]] = {} => chunks[slabs[k]] = {}

(* Of the chunks of each page in the ring PageSize - n_allocated are free  *)
(* there, the others in use or on their way; pages that were given back    *)
(* have none.                                                              *)
PagesKept ==
    \A p \in Pages :
        IF p \in Ring
        THEN /\ Cardinality(chunks[p]) = PageSize - n_allocated[p]
             /\ chunks[p] \cup {c \in Outside : c[1] = p} = {p} \X (1 .. PageSize)
             /\ chunks[p] \cap Outside = {}
        ELSE \A c \in Outside : c[1] # p

(* The counts decide where a magazine goes; those in the cache have the    *)
(* chunks whose fields link them there.                                    *)
Exact(m) == m.count = Cardinality(m.chunks)
CountsExact ==
    /\ \A t \in Threads : Exact(magazine1[t]) /\ Exact(magazine2[t])
    /\ \A k \in 1 .. Len(cache) : Exact(cache[k]) /\ cache[k].count >= MinMagazineSize

(* Between the threads, the cache and the slabs no chunk is lost and none  *)
(* is in two places; the counts that the code keeps are exact; and the     *)
(* ring keeps its order.                                                   *)
ChunksConserved == OnePlace /\ PagesKept /\ CountsExact /\ RingSorted
=============================================================================
