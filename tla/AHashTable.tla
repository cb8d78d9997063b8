----------------------------- MODULE AHashTable -----------------------------
(***************************************************************************)
(* util/AHashTable.c: a hash table with open addressing.  A bucket is      *)
(* unused, a tombstone or holds an entry; buckets are probed at distances  *)
(* 0, 1, 3, 6...; the table is resized in place, the entries that are in   *)
(* the way being relocated in turn.  As long as every value is its key     *)
(* (have a set) there is no array of values.  Nothing here is              *)
(* synchronised: every operation is an action.                             *)
(***************************************************************************)
EXTENDS Integers, FiniteSets, FiniteSetsExt, Functions

CONSTANTS Keys,
          hashFunc,       \* what hashFunc gives for each key
          Values,         \* values, other than the keys
          MinShift,       \* HASH_TABLE_MIN_SHIFT
          None            \* NULL

VARIABLES shift, hashes, keys, values, isSet, nnodes, noccupied,
          content         \* history: the map that the calls should have made

vars == <<shift, hashes, keys, values, isSet, nnodes, noccupied, content>>

size == 2 ^ shift

Unused == 0
Tombstone == 1
IsReal(h) == h >= 2

prime_mod == <<1, 2, 3, 7, 13, 31, 61, 127, 251, 509, 1021>>

Init == /\ shift = MinShift
        /\ hashes = [i \in 0 .. size - 1 |-> Unused]
        /\ keys = [i \in 0 .. size - 1 |-> None]
        /\ values = keys /\ isSet = TRUE
        /\ nnodes = 0 /\ noccupied = 0
        /\ content = [k \in {} |-> None]
-----------------------------------------------------------------------------
HashOf(k) == IF IsReal(hashFunc[k]) THEN hashFunc[k] ELSE 2
hashToIndex(h, s) == (h * 11) % prime_mod[s + 1]

(* lookupNode(): the bucket of the key; without one the first tombstone    *)
(* that was passed, or the unused bucket where the search has ended.       *)
RECURSIVE ProbeFrom(_, _, _, _)
ProbeFrom(k, b, step, tombstone) ==
    IF hashes[b] = Unused THEN IF tombstone = None THEN b ELSE tombstone
    ELSE IF hashes[b] = HashOf(k) /\ keys[b] = k THEN b
    ELSE ProbeFrom(k, (b + step) % size, step + 1,
                   IF hashes[b] = Tombstone /\ tombstone = None THEN b ELSE tombstone)

LookupNode(k) == ProbeFrom(k, hashToIndex(HashOf(k), shift), 1, None)

Contains(k) == IsReal(hashes[LookupNode(k)])
Get(k) == LET b == LookupNode(k) IN IF IsReal(hashes[b]) THEN values[b] ELSE None
-----------------------------------------------------------------------------
(* resize(): the entry of bucket i, and those it drives out, go to the     *)
(* first bucket of their probe that has no entry relocated already.        *)
Empty == [hash |-> Unused, key |-> None, value |-> None]

RECURSIVE FirstFree(_, _, _, _)
FirstFree(b, step, n, moved) ==
    IF b \in moved THEN FirstFree((b + step) % n, step + 1, n, moved) ELSE b

RECURSIVE Relocate(_, _, _, _)
Relocate(s, table, moved, entry) ==
    LET b == FirstFree(hashToIndex(entry.hash, s), 1, 2 ^ s, moved)
        placed == [table EXCEPT ![b] = entry]
    IN  IF IsReal(table[b].hash) THEN Relocate(s, placed, moved \cup {b}, table[b])
        ELSE [table |-> placed, moved |-> moved \cup {b}]

(* Faulty variant: an entry that was relocated is relocated again.         *)
RECURSIVE ResizeAgain(_, _, _, _)
ResizeAgain(i, s, table, moved) ==
    IF i = size THEN table
    ELSE IF ~IsReal(table[i].hash)
    THEN ResizeAgain(i + 1, s, [table EXCEPT ![i].hash = Unused], moved)
    ELSE LET r == Relocate(s, [table EXCEPT ![i] = Empty], moved, table[i])
         IN  ResizeAgain(i + 1, s, r.table, r.moved)

RECURSIVE ResizeFrom(_, _, _, _)
ResizeFrom(i, s, table, moved) ==
    IF i = size THEN table
    ELSE IF ~IsReal(table[i].hash)
    THEN ResizeFrom(i + 1, s, [table EXCEPT ![i].hash = Unused], moved)
    ELSE IF i \in moved THEN ResizeFrom(i + 1, s, table, moved)
    ELSE LET r == Relocate(s, [table EXCEPT ![i] = Empty], moved, table[i])
         IN  ResizeFrom(i + 1, s, r.table, r.moved)

(* setShiftFromSize(nnodes * 1.333), for fewer than 750 entries.           *)
ClosestShift(n) == LET wanted == (n * 1333) \div 1000
                   IN  Min({s \in MinShift .. 10 : 2 ^ s > wanted})

Resize(table, s) ==
    LET grown == [i \in 0 .. Max({size, 2 ^ s}) - 1 |-> IF i < size THEN table[i] ELSE Empty]
    IN  Restrict(ResizeFrom(0, s, grown, {}), 0 .. 2 ^ s - 1)

(* maybeResize(), if it is called.                                         *)
MustResize(n, occupied) ==
    \/ size > n * 4 /\ size > 2 ^ MinShift
    \/ size <= occupied + (occupied \div 16)

Store(table, n, occupied, check) ==
    LET resize == check /\ MustResize(n, occupied)
        t == IF resize THEN Resize(table, ClosestShift(n)) ELSE table
    IN  /\ shift' = IF resize THEN ClosestShift(n) ELSE shift
        /\ hashes' = [i \in DOMAIN t |-> t[i].hash]
        /\ keys' = [i \in DOMAIN t |-> t[i].key]
        /\ values' = [i \in DOMAIN t |-> t[i].value]
        /\ nnodes' = n
        /\ noccupied' = IF resize THEN n ELSE occupied

Noted(k, v) == [j \in DOMAIN content \cup {k} |-> IF j = k THEN v ELSE content[j]]

Table == [i \in 0 .. size - 1 |-> [hash |-> hashes[i], key |-> keys[i], value |-> values[i]]]

(* put(): an entry keeps its key and gets the new value; a tombstone may   *)
(* be reused.  The array of values is made when a value is not its key.    *)
Put(k, v) ==
    LET b == LookupNode(k)
        new == ~IsReal(hashes[b])
    IN  /\ isSet' = (isSet /\ k = v)
        /\ Store([Table EXCEPT ![b] = [hash |-> HashOf(k), key |-> k, value |-> v]],
                 IF new THEN nnodes + 1 ELSE nnodes,
                 IF hashes[b] = Unused THEN noccupied + 1 ELSE noccupied,
                 hashes[b] = Unused)
        /\ content' = Noted(k, v)

(* remove(): a tombstone is left, which keeps the buckets behind it.       *)
Remove(k) ==
    LET b == LookupNode(k)
    IN  /\ IsReal(hashes[b])
        /\ Store([Table EXCEPT ![b] = [Empty EXCEPT !.hash = Tombstone]],
                 nnodes - 1, noccupied, TRUE)
        /\ UNCHANGED isSet
        /\ content' = Restrict(content, DOMAIN content \ {k})

(* removeAll() without destroy functions: the size is that of an empty     *)
(* table only after maybeResize().                                         *)
RemoveAll == /\ nnodes # 0
             /\ Store([i \in 0 .. size - 1 |-> Empty], 0, 0, TRUE)
             /\ UNCHANGED isSet
             /\ content' = [k \in {} |-> None]

Next == \/ \E k \in Keys : Remove(k) \/ \E v \in Values \cup {k} : Put(k, v)
        \/ RemoveAll

Spec == Init /\ [][Next]_vars
-----------------------------------------------------------------------------
(* lookupNode() ends: an unused bucket is left, however many tombstones    *)
(* put() and remove() leave; and the counts that this depends on are those *)
(* of the table.                                                           *)
ProbeEnds ==
    /\ \E b \in 0 .. size - 1 : hashes[b] = Unused
    /\ nnodes = Cardinality({b \in 0 .. size - 1 : IsReal(hashes[b])})
    /\ noccupied = Cardinality({b \in 0 .. size - 1 : hashes[b] # Unused})

(* put(), remove() and removeAll(): the table is the map they should make: *)
(* every key put and not removed since is found with its value, and no     *)
(* other, through tombstones, collisions, resizing and the change from a   *)
(* set to a map.                                                           *)
TableIsMap == /\ ProbeEnds
              /\ [k \in {k \in Keys : Contains(k)} |-> Get(k)] = content
              /\ nnodes = Cardinality(DOMAIN content)
=============================================================================
