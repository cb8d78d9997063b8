---------------------------- MODULE ArrayStorage ----------------------------
(***************************************************************************)
(* main/ArrayStorage.c with main/SourceStorage.c: the sources of a source  *)
(* manager are kept in four places, a hash table by id, lists by priority, *)
(* an array, and an array of those with a file descriptor; each place      *)
(* holds a reference.  Every operation holds the mutex of the storage and  *)
(* is one action, removeAll() one action for each source.  EventSource     *)
(* changes its priority after it has called the storage, without the       *)
(* mutex: that is an action of its own.                                    *)
(***************************************************************************)
EXTENDS SourceLists

CONSTANTS Sources,
          Polled,         \* the sources with a file descriptor
          MaxSource,      \* maxSource, the largest id, positive
          MaxCalls        \* bound on the calls of add() and setPriority()

VARIABLES nextId, sourcesHash,    \* id -> source
          lists,                  \* prioArray and prioIndex
          sourcesArray, memPos,
          epollSources, epollSourceCount, memPollPos,
          id, priority,           \* of each source
          newPriority,            \* setPriority() under way, or NULL
          refs,                   \* the references that the storage holds
          removing,               \* the sources removeAll() has still to remove
          aborted,                \* a_error() was called
          calls                    \* history: calls of add() and setPriority()

vars == <<nextId, sourcesHash, lists, sourcesArray, memPos, epollSources,
          epollSourceCount, memPollPos, id, priority, newPriority, refs,
          removing, aborted, calls>>

Stored == {sourcesHash[i] : i \in DOMAIN sourcesHash}

Init == /\ nextId = 1
        /\ sourcesHash = [i \in {} |-> NULL]
        /\ lists = NoLists
        /\ sourcesArray = <<>> /\ memPos = [s \in Sources |-> 0]
        /\ epollSources = <<>> /\ epollSourceCount = 0
        /\ memPollPos = [s \in Sources |-> 0]
        /\ id = [s \in Sources |-> 0]
        /\ priority \in [Sources -> Priorities]
        /\ newPriority = [s \in Sources |-> NULL]
        /\ refs = [s \in Sources |-> 0]
        /\ removing = {} /\ aborted = FALSE /\ calls = 0

Free == removing = {} /\ ~aborted
-----------------------------------------------------------------------------
(* The loop that picks an id: from nextId on, wrapping behind MaxSource,   *)
(* the first one that is not in use.  It does not end if all are.          *)
UnusedIds == 1 .. MaxSource \ DOMAIN sourcesHash

PickId == LET ahead == {i \in UnusedIds : i >= nextId}
          IN  Min(IF ahead # {} THEN ahead ELSE UnusedIds)

AddToHash(s, i) == [j \in DOMAIN sourcesHash \cup {i} |->
                        IF j = i THEN s ELSE sourcesHash[j]]

(* Faulty variant: the place in the array is not noted.                    *)
AddToArrayUnplaced(s) == sourcesArray' = Append(sourcesArray, s) /\ UNCHANGED memPos

AddToArray(s) == /\ sourcesArray' = Append(sourcesArray, s)
                 /\ memPos' = [memPos EXCEPT ![s] = Len(sourcesArray) + 1]

AddToEpollArray(s) ==
    IF s \notin Polled
    THEN UNCHANGED <<epollSources, epollSourceCount, memPollPos>>
    ELSE /\ memPollPos' = [memPollPos EXCEPT ![s] = epollSourceCount + 1]
         /\ epollSources' = IF epollSourceCount < Len(epollSources)
                            THEN [epollSources EXCEPT ![epollSourceCount + 1] = s]
                            ELSE Append(epollSources, s)
         /\ epollSourceCount' = epollSourceCount + 1

Places(s) == IF s \in Polled THEN 4 ELSE 3

(* addUnlocked(): ASourceMgr.add() has checked that the source is new.     *)
Add(s) ==
    /\ Free /\ s \notin Stored /\ UnusedIds # {} /\ calls < MaxCalls
    /\ nextId' = PickId + 1
    /\ id' = [id EXCEPT ![s] = PickId]
    /\ sourcesHash' = AddToHash(s, PickId)
    /\ lists' = AddToSourceList(lists, s, priority[s])
    /\ AddToArray(s)
    /\ AddToEpollArray(s)
    /\ refs' = [refs EXCEPT ![s] = @ + Places(s)]
    /\ calls' = calls + 1
    /\ UNCHANGED <<priority, newPriority, removing, aborted>>
-----------------------------------------------------------------------------
(* removeFromArray(): the others move down and learn their new places.     *)
RemoveFromArray(s) ==
    /\ sourcesArray' = RemoveAt(sourcesArray, memPos[s])
    /\ memPos' = [x \in Sources |-> IF memPos[x] > memPos[s] /\ x \in ToSet(sourcesArray)
                                    THEN memPos[x] - 1 ELSE memPos[x]]

(* removeFromPollArray(): the others move down; the loop writes their new  *)
(* places to the source that is removed.  The slot that was the last keeps *)
(* its content; the slot of the source is NULL if it was the last.         *)
RemoveFromPollArray(s) ==
    IF s \notin Polled
    THEN UNCHANGED <<epollSources, epollSourceCount, memPollPos>>
    ELSE LET k == memPollPos[s] IN
         /\ epollSources' = MovedDown([epollSources EXCEPT ![k] = NULL], k, epollSourceCount)
         /\ memPollPos' = [memPollPos EXCEPT
                               ![s] = IF epollSourceCount > k THEN epollSourceCount - 1 ELSE k]
         /\ epollSourceCount' = epollSourceCount - 1

(* The three functions look for the source at the place they have noted,   *)
(* and call a_error() if it is not there.                                  *)
InItsPlaces(s) == /\ s \in Listed(lists, priority[s])
                  /\ Slot(sourcesArray, memPos[s]) = s
                  /\ s \in Polled => Slot(epollSources, memPollPos[s]) = s

RemoveFromPlaces(s) ==
    IF InItsPlaces(s)
    THEN /\ lists' = RemoveFromSourceList(lists, s, priority[s])
         /\ RemoveFromArray(s)
         /\ RemoveFromPollArray(s)
         /\ UNCHANGED aborted
    ELSE /\ aborted' = TRUE
         /\ UNCHANGED <<lists, sourcesArray, memPos, epollSources,
                        epollSourceCount, memPollPos>>

Unref(s) == refs' = [refs EXCEPT ![s] = @ - Places(s)]

RemoveSource(s) ==
    /\ Free /\ s \in Stored
    /\ sourcesHash' = [i \in DOMAIN sourcesHash \ {id[s]} |-> sourcesHash[i]]
    /\ RemoveFromPlaces(s)
    /\ Unref(s)
    /\ UNCHANGED <<nextId, id, priority, newPriority, removing, calls>>

(* removeAll(): in the order of the hash table, any order here.  The table *)
(* is emptied at the end.                                                  *)
RemoveAll == /\ Free /\ Stored # {}
             /\ removing' = Stored
             /\ UNCHANGED <<nextId, sourcesHash, lists, sourcesArray, memPos,
                            epollSources, epollSourceCount, memPollPos, id,
                            priority, newPriority, refs, aborted, calls>>

RemoveNext(s) ==
    /\ s \in removing /\ ~aborted
    /\ RemoveFromPlaces(s)
    /\ Unref(s)
    /\ removing' = removing \ {s}
    /\ sourcesHash' = IF removing = {s} THEN [i \in {} |-> NULL] ELSE sourcesHash
    /\ UNCHANGED <<nextId, id, priority, newPriority, calls>>

(* EventSource.setPriority(), the call of the storage and what follows it. *)
SetPriority(s, p) ==
    /\ Free /\ s \in Stored /\ newPriority[s] = NULL /\ p # priority[s]
    /\ calls < MaxCalls /\ calls' = calls + 1
    /\ lists' = AddToSourceList(RemoveFromSourceList(lists, s, priority[s]), s, p)
    /\ newPriority' = [newPriority EXCEPT ![s] = p]
    /\ UNCHANGED <<nextId, sourcesHash, sourcesArray, memPos, epollSources,
                   epollSourceCount, memPollPos, id, priority, refs, removing,
                   aborted>>

AssignPriority(s) ==
    /\ newPriority[s] # NULL /\ ~aborted
    /\ priority' = [priority EXCEPT ![s] = newPriority[s]]
    /\ newPriority' = [newPriority EXCEPT ![s] = NULL]
    /\ UNCHANGED <<nextId, sourcesHash, lists, sourcesArray, memPos, epollSources,
                   epollSourceCount, memPollPos, id, refs, removing, aborted, calls>>

Next == \/ \E s \in Sources : \/ Add(s) \/ RemoveSource(s) \/ RemoveNext(s)
                              \/ \E p \in Priorities : SetPriority(s, p)
                              \/ AssignPriority(s)
        \/ RemoveAll

Spec == Init /\ [][Next]_vars
-----------------------------------------------------------------------------
TypeOK == /\ nextId \in 1 .. MaxSource + 1
          /\ DOMAIN sourcesHash \subseteq 1 .. MaxSource /\ Stored \subseteq Sources
          /\ lists.prioIndex \in Seq(Priorities)
          /\ \A p \in Priorities : /\ lists.datas[p] \in Seq(Sources)
                                   /\ lists.count[p] \in 0 .. Len(lists.datas[p])
          /\ sourcesArray \in Seq(Sources)
          /\ memPos \in [Sources -> Nat] /\ memPollPos \in [Sources -> Nat]
          /\ epollSources \in Seq(Sources \cup {NULL})
          /\ epollSourceCount \in 0 .. Len(epollSources)
          /\ id \in [Sources -> Nat] /\ priority \in [Sources -> Priorities]
          /\ refs \in [Sources -> Nat]
          /\ removing \subseteq Sources /\ aborted \in BOOLEAN /\ calls \in Nat

(* Where the iterator of initIter() and nextIter() stands at a source.     *)
Stops == UNION {{[value |-> k, count |-> i] : i \in 0 .. lists.count[lists.prioIndex[k]] - 1} :
                    k \in 1 .. Len(lists.prioIndex)}

(* It begins at the first place, goes to a next one until there is none,   *)
(* and comes to each source at one place, to the sources in the order of   *)
(* their priorities, as getTimeout() and foreachCheck() need it to stop at *)
(* the first one behind the sources that are ready.                        *)
IterationSound ==
    /\ HasNext(lists, InitIter) => InitIter \in Stops
    /\ \A it \in Stops : /\ NextSource(lists, it) \in Stored
                         /\ HasNext(lists, NextIter(lists, it)) => NextIter(lists, it) \in Stops
    /\ \A s \in Stored : \E it \in Stops : NextSource(lists, it) = s
    /\ \A it, jt \in Stops : LET s == NextSource(lists, it)
                                u == NextSource(lists, jt)
                            IN  /\ s = u => it = jt
                                /\ it.value < jt.value /\ newPriority[s] = NULL /\ newPriority[u] = NULL
                                       => priority[s] < priority[u]

(* The hash table holds each source under its id, and the array and the    *)
(* lists hold the same sources, each of them once, although a source moves *)
(* between lists and the others move up behind a removed one; the iterator *)
(* passes through the lists; and a reference is held for each place of a   *)
(* source, and none afterwards, removeAll() included.                      *)
PlacesAgree ==
    Free => /\ \A i \in DOMAIN sourcesHash : id[sourcesHash[i]] = i
            /\ ToSet(sourcesArray) = Stored
            /\ \A i \in 1 .. Len(sourcesArray) : memPos[sourcesArray[i]] = i
            /\ IterationSound
            /\ \A s \in Sources : refs[s] = IF s \notin Stored THEN 0 ELSE Places(s)

(* EventSource.h on memPollPos: "the place in the poll array, kept to make *)
(* the removal fast".                                                      *)
PollPlaceNoted ==
    Free => \A s \in Stored \cap Polled : /\ memPollPos[s] <= epollSourceCount
                                          /\ epollSources[memPollPos[s]] = s

=============================================================================
