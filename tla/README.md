# Verification of the AET run-time library and of its link step

AET is an object-oriented dialect of C built into GCC. By far the most of the
repository is the compiler: a front end on the trees of GCC and a second back
end for GPU code, both sequential. What runs concurrently, waits, wakes,
counts references and can lose an event is the run-time library that every AET
program links, `src/src/gcc/aet/libaet/aet` (called `L` below). What the
compiler itself does over time, across failures and repetitions, is the link
step (`src/src/gcc/aet/aetcollect.c`), where files left by one call of make
direct the next. This project models both in TLA+, the library from the mutex
upwards to the thread pool and the event loop, checks the models with TLC and
proves the results that matter most with TLAPS.

- [The system](#the-system): the inventory
- [The modules and the code](#the-modules-and-the-code)
- [What is checked](#what-is-checked): runs, bounds, fairness
- [What is proved](#what-is-proved)
- [What the models found](#what-the-models-found)
- [What is not modelled, and why](#what-is-not-modelled-and-why)
- [The plan](#the-plan)

## The system

### How the parts depend on each other

    ALoop, ASourceMgr ---- ArrayStorage ---- EventSource (idle, timeout, fd, wake-up)
         |       \                               |
         |        APoll (epoll), eventfd      AObject (reference count)
         |
    AThreadPool ---- UnusedThread ---- spawner thread, AThread
         |                |
         +--- AAsyncQueue-+---- AQueue ---- AList
                  |
             ACond, AMutex ---- futex(2)

    MtcsMem ---- MtcsMemMgr (registry) ---- AHashTable
       |
    MtcsSystem ---- provider, device, stream ---- CUDA

    make -> cc1 (first pass: object and note)
      |
      +---> collect2: aet_collect() -> the middle file -> lists of files
                         -> interfaces, second pass of sources -> ld

### The components

**AMutex** (`L/util/AMutex.c`). *State:* one 32-bit word: 0 free, 1 held, more:
held and possibly waited for. *Operations:* `lock` adds one and is in if the
word was 0, else it exchanges the word with 2 and sleeps in the kernel while it
is 2; `unlock` sets 0 and wakes one sleeper if the word was above 1; `trylock`.
*Hard:* threads that exchange, newcomers that add and the holder that leaves
meet on one word; a futex call returns for no reason. *Correct if* one thread at
a time is inside, no sleeper is forgotten, the word does not wrap.

**ACond** (`L/util/ACond.c`). *State:* a word that each signal increments.
*Operations:* `wait` samples the word, releases the mutex, sleeps in the kernel
unless the word has changed, takes the mutex again; a timed `wait` tells whether
the time was over; `signal` and `broadcast`. *Hard:* the gap between the release
of the mutex and the futex call. *Correct if* a signal wakes one of those that
were waiting when it came.

**AQueue, AList, ASList** (`L/util`). Linked lists; `AQueue` is the list the
queues use. Sequential.

**AAsyncQueue** (`L/util/AAsyncQueue.c`). *State:* an `AQueue`, a mutex, a
condition variable, `waitingThreads`. *Operations:* `push` at the head,
`pushFront` at the tail, `pushSorted`, `pop` from the tail (for ever or up to a
time), `tryPop`, `sort`, `remove`, `length` (negative when threads wait), each
also without the mutex. *Hard:* a thread that was woken for an item and a
newcomer that takes it; a `pop` whose time ends while an item arrives; a push
signals only if `waitingThreads` says so. *Correct if* it is a blocking queue:
push and pop take effect at once, nothing is lost, nobody sleeps in front of an
item, a sorted queue is popped in order.

**UnusedThread** (`L/util/AThreadPool.c`, lines 40-236). One per process.
*State:* a queue of pools that want a thread, the limits (how many may wait,
how long), a serial of the limits, a kill count. *Operations:* threads wait in
`waitPool`; pools ask in `addPool`; any thread changes the limits at any time.
The setters wake the waiting threads by pushing markers to the queue; a thread
that already knows the new limits passes the marker on. *Hard:* none of this is
under one lock: each integer is atomic, and `addPool` trusts a thread that may
be about to leave. *Correct if* a pool that was accepted gets a thread, the
limit is obeyed when things have settled, markers do not circulate for ever.

**AThreadPool** (rest of the file). *State:* the task queue, `numThreads`,
`maxThreads`, `running`, `immediate`, `waiting`. *Operations:* constructor,
`push`, `setMaxThreads`, `setSortFunction`, `free(immediate, wait)`, and
`proxy_cb`, the life of a thread: take a task, run it, after half a second
without one go to the unused threads, and if it is the last thread of a pool
that is being freed, free it. *Hard:* `push` reads `running` before it takes the
mutex; the owner in `free` and the last thread both may have to free the pool;
threads are woken by pushing the pointer 1 as if it were a task. *Correct if*
tasks are run once each, every queued task has a thread on its way, `free`
returns when it should and the pool is freed exactly once, after the last use.

**Spawner and AThread** (`AThreadPool.c` 376-402 and 484-507, `L/lang/AThread.c`).
A helper thread creates the threads of all pools, asked through a queue and
answered through a condition variable. *Correct if* each asker gets the thread
made for its pool, also when creation fails.

**ArrayStorage** (`L/main/ArrayStorage.c`). *State:* the event sources of a
manager in four places: a hash table by id, arrays by priority with the sorted
array of priorities, an array, an array of those with a descriptor; a reference
for each place. *Operations:* `add` (picks an unused id), `remove`, `removeAll`,
`setPriority`, two iterators. *Hard:* arrays that close up behind a removed
source, ids that wrap, `EventSource` assigning its priority only after the
storage has moved it. *Correct if* the places agree, the iteration is in the
order of priorities, and references are given and taken for the same places.

**ASourceMgr and ALoop** (`L/main`). *State:* the owner thread and how often it
has acquired the manager; waiting threads; the storage; the sources that are
pending in this round; an epoll descriptor and an eventfd that wakes it.
*Operations:* a loop (`run`) or a single `iterate` acquires the manager,
prepares the sources and computes how long to sleep, sleeps in `epoll_wait`,
empties the eventfd, checks the sources, dispatches the pending ones of the
first ready priority, releases the manager; any thread may `add`, `remove`,
`setReadyTime`, `quit`; callbacks may do so as well. *Hard:* everything that
happens between the computation of the sleep and the sleep, and between the
sleep and the emptying of the eventfd; the checks run without the mutex; the
hand-over of the manager between threads. *Correct if* one thread at a time runs
the manager, the owner never sleeps past something it should do, a stopped loop
stops, due sources are dispatched, a free manager is taken by a thread that
waits for it.

**AObject** (`L/lang/AObject.c`). *State:* a reference count. *Operations:*
`ref`, `unref` with two compare-and-swap loops. *Hard:* a `ref` that comes while
the last `unref` has decremented the count and not yet looked at it again.
*Correct if* an object is freed once, when its last reference has gone.

**once** (`L/innerlock.c`). *State:* a value for each location, a list of those
that are being initialised, one mutex and one condition variable for all of
them. *Operations:* `a_once_impl`, `a_once_init_enter`, `a_once_init_leave`; the
mutex itself is made by whoever comes first. *Hard:* an initialiser initialises
another location on its way; newcomers look at the value, waiters at the list.
*Correct if* the initialiser runs once, nobody goes on before it has, every call
returns.

**Slice allocator** (`L/aslice.c`). *State:* two magazines for each thread, a
shared cache of magazines, a ring of pages. *Operations:* alloc, free, the end of
a thread. *Hard:* chunks go from place to place under two mutexes in turn.
*Correct if* no chunk is lost, or in two places.

**AHashTable, AList, APriorityQueue, AArray, AQSort** (`L/util`, `L/lang`):
sequential data structures. *Correct if* they are a map, a sequence, a bag with a
least element, a sequence, a stable sort.

**Kernel run-time** (`L/mtcs`): `MtcsMem` allocates from a device and registers
the address with `MtcsMemMgr`, to find the device again in `memcpy` and `free`.
*Correct if* an address is registered while and only while it is allocated.

**The link step** (`src/src/gcc/aet/aetcollect.c`, `middlefile.c`, `ifaceimpl.c`,
`genericcode.c`). *State:* files: a note beside each object, the object of the
middle file `temp_func_track_45.c`, the list of interfaces to compile, the list
of sources to compile a second time, the sources and objects of interfaces.
*Operations:* the first compilation of a source leaves its note; when make
links, the middle file is compiled, which collects the notes and writes the
lists; the interfaces are compiled at the same time; the sources that create
generic objects are compiled again, with the generic blocks of all sources; ld is
called. *Hard:* each stage may fail for some of its files or be interrupted, the
sources are edited meanwhile, and make starts again; what there is to do is
found out from times of files, in seconds, and from lists that an earlier call
has left. *Correct if* what is linked has been made from the sources as they
are.

**I/O, strings, Unicode, key files, logging, time**: system calls and
conversions.
**The rest of the compiler** (`src/src/gcc/aet/*.c`, `src/src/gcc/aet/mtcs`, changed files
of GCC).

`PROJECT.json` lists each component with its files and its status, and under
`hazards` every place that is hard to test, with the properties
that watch it.

## The modules and the code

| Module | Models | How |
|---|---|---|
| `MutualExclusion` | nothing of the code: what a lock promises | abstract; `AMutex` implements it |
| `AMutex` | `util/AMutex.c` | every access to the word and every futex call is an action; the word has `WordSize` values and wraps |
| `AQueue` | `util/AQueue.c`, the list operations under it | operators on sequences: head first, popped from the tail |
| `BlockingQueue` | what a shared queue promises | abstract; `AAsyncQueue` implements it |
| `AAsyncQueue` | `util/AAsyncQueue.c` with `util/ACond.c` | what happens under the mutex is one action; `wait` is split into the gap, the sleep and the way back |
| `GlobalPool` | what the unused threads promise a pool | abstract; `UnusedThread` implements it |
| `UnusedThread` | `util/AThreadPool.c` 40-236 | every atomic access and every queue operation is an action |
| `AThreadPool` | `util/AThreadPool.c` from 238 on | sections under the mutex are actions; `push` is split where it reads `running`; the task queue is the blocking queue, the source of threads the global pool |
| `SourceLists` | the priority lists and the iterator of `main/ArrayStorage.c` | operators; arrays keep what is behind their end, as in the code |
| `ArrayStorage` | `main/ArrayStorage.c`, `main/SourceStorage.c`, `EventSource.setPriority` | one action per operation, one per source in `removeAll` |
| `AObject` | `lang/AObject.c` | every access to the count is an action; the references are told apart, each used by one thread at a time |
| `Once` | `innerlock.c` | sections under the mutex are actions; so are the mutex being made, the initialiser, the publication of the value |
| `ThreadSpawner` | `AThreadPool.c` 164-176, 376-402, 480-513, `lang/AThread.c` | the spawner, callers that wait for it, makers of threads, threads that end and are joined or detached |
| `MtcsMem` | `mtcs/MtcsMem.c`, `mtcs/MtcsMemMgr.c` | each access to the registry and to the device is an action |
| `ASlice` | `aslice.c` | what is done under the mutex of the cache is an action; under the mutex of the slabs, which is a variable, each chunk that is taken or freed is one; a magazine is its chunks and its count |
| `AHashTable` | `util/AHashTable.c` | buckets, tombstones, probing, resizing in place; an action per operation, beside the map it should be |
| `AList`, `MergeSort` | `util/AList.c`, and the merge sort that lists and arrays share | nodes and links; an action per operation, beside the sequence it should be |
| `APriorityQueue` | `util/APriorityQueue.c` | the array of the heap with the hole that `push` and `pop` move along a path: each round of their loops is an action; beside the bag of its items |
| `AQSort` | `lang/AQSort.c` | the indirect sort along the cycles of a permutation; the result is compared with the sort of `AQueue` |
| `Containers` | nothing of its own: `ArrayStorage`, `APriorityQueue` and `ASlice` side by side, for the theorems about them | instances; their assumptions on constants are stated here |
| `Runtime` | nothing of its own: `AMutex`, `AObject`, `Once`, `UnusedThread`, `ThreadSpawner` and `MtcsMem` side by side | one behaviour is one of one part |
| `AetCollect` | `aetcollect.c`, `middlefile.c`, `ifaceimpl.c`, `genericcode.c` | each stage of a link is an action, with one for each way to fail; an interruption may come between any two and between the compilations of a stage, of which some are then done and some not; edits come at any time |
| `ASourceMgr` | `main/ASourceMgr.c`, `main/ALoop.c`, the sources of the library, epoll as used | sections under the mutex are actions; `foreachCheck` and `excute`, which hold no mutex, are an action for each source |

The models are stacked as the code is. `AAsyncQueue` treats the mutex as a lock
because `AMutex` implements `MutualExclusion`. `AThreadPool` and `UnusedThread`
treat the queue as a blocking queue because `AAsyncQueue` implements
`BlockingQueue`. `AThreadPool` treats the unused threads as `GlobalPool` does
because `UnusedThread` implements it: a request counts on a spare thread, which
is not lost to another use. `ASourceMgr` keeps its sources in the lists of
`SourceLists`, which `ArrayStorage` shows to be a faithful record. The first three implementations
are checked by TLC with their fairness on small instances, and their safety parts
are proved for every one.

Names are those of the code where there is one (`waitingThreads`, `haveReadEvent`
as `HaveReadEvent`, `excute` as the code spells it). Variables that the code does
not have are marked `history`; they are read by properties and by the bounds
only. `pc`, `cpc`, `opc` and `call` say where a thread is.

*What is compared with what.* The sequential data structures keep a history
variable (`content`) that is changed as the abstract structure would be; the
invariant says that the concrete one represents it. `AetCollect` keeps the
content of a note and of the notes that the middle file has read, so that "the
lists are those of the present notes" can be said; in the code the notes are the
files.

*The clock of the link step.* Times are whole seconds, as in `getLastModified()`,
and any number of steps may happen in one second. `edited` are the sources that
differ from their first compilation, `dirty` those that make would compile: a
source that is edited and then compiled a second time is in the first set only,
because its object has become newer than it is.

*Ends of the program.* `a_error()` and `a_assert()` abort. In `ArrayStorage`,
`MtcsMem` and `ASourceMgr` the abort is recorded (`aborted`, `crashed`) and stops the model:
the properties are about the program as long as it runs, and whether it can be
aborted is a property of its own (`SourceIsThere`) or a defect named below.

*The code is modelled as it is,* defects included: `HaveReadEvent` is `TRUE`
because `event|EPOLLIN` is never zero; `IterateAcquires` comes after the count of
pending sources has been reset; `RemoveAll` leaves that count as it was;
`RemoveFromPollArray` writes the place of the wrong source;
`MtcsMem` gives memory back before it takes the address off; `Clear` of `AList`
frees the first node only; a spawner that cannot create a thread answers nobody;
`SkipMiddle` leaves the middle object out of the link.

*Faulty variants.* Definitions introduced by "Faulty variant" are plausible
mistakes (a missing signal, a guard left out, an off-by-one). No run uses them;
each shows that a property can fail: with the variant in place of the definition
it imitates, TLC finds the property violated.

## What is checked

| Run | Question | Bounds |
|---|---|---|
| `asyncqueue` | the count of waiters, no forgotten item, order; the queue implements the blocking queue with its liveness | 3 threads, 2 items of different rank, up to 3 in the queue |
| `unused_build` | *unused:* no accepted pool is stranded; the limit is obeyed. *build:* what is linked is made from the sources as they are | 3 threads, a setter called once with every limit; 2 sources, 1 header, 2 edits, 3 seconds |
| `threads` | *mutex:* exclusion, no forgotten sleeper, no wrap; it implements the lock with its fairness. *object:* freed once, at its last reference. *once:* one initialisation, nobody goes on before it, every call returns. *pool:* the unused threads implement the global pool; markers settle. *spawner:* records outlive the call, threads are given back, calls are answered. *memory:* what is in use is registered | 4 threads on the mutex: a holder, a sleeper, one being woken, a newcomer; 3 references and 2 late calls; 3 threads, 2 locations, the initialiser of one needs the other; 2 unused threads; 2 calls that wait for the spawner, one maker, creation may fail; 2 threads, 2 addresses, 2 devices |
| `threadpool` | threads are counted, tasks run once, the pool is freed once and not too early, `free` waits for what it should; accepted tasks are run, `free` completes | 3 threads, 2 tasks pushed by the owner and by tasks, limits -1, 0, 1, 2, one change, creation may fail |
| `sequential` | *storage:* the places agree, iteration by priority, references. *hash, list, sort:* each is what it should be. *heap:* nothing is lost, the top goes in front. *slice:* no chunk is lost or in two places | 3 sources, 2 polled, 2 priorities, 3 ids (they wrap), 4 calls; 5 keys, two with one hash; 4 nodes; arrays of up to 5; 7 places, 3 items, two equal; 2 threads, 3 pages of 2 chunks, magazines of 2 |
| `sourcemgr_calls` | ownership, hand-over, pending sources, iteration under callbacks that add and remove | a thread that makes every call and one that loops; sources of 3 priorities, one with a descriptor; 5 calls |
| `sourcemgr_loop` | no missed wake-up; stopped loops stop; due sources are dispatched | 2 loops on one manager that stop each other and change the sources while the other one owns it; 2 clock values; 4 calls |
| `threadpool_sort`, `storage_poll_place`, `sourcemgr_pending`, `mtcs_address`, `build_linked` | five statements of the code about itself that do not hold | see [below](#what-the-models-found) |

**Runs of several parts.** `Runtime` (run `threads`), `MCSequential` and `MCUnusedThread` hold parts
that have nothing to do with each other: the variable `part` is chosen at the
start, the actions of that part are taken and the variables of the others stay as
they were. Every behaviour is one of a single part, every property speaks of one
part, and for the fairness of a part that does not run its initial state asks for
no step. This saves runs; it composes nothing. What is composed is named under
[The modules and the code](#the-modules-and-the-code). `Runtime` is a module of
its own, without TLC's names, so that theorems can be stated about its parts; so
is `Containers` under `MCSequential`.

**Properties of several clauses.** `Exclusion` says that one thread is inside and
that the word tells so and has not wrapped; `PlacesAgree` includes the order of
the iteration and the references; `ChunksConserved` includes the order of the
ring. The type invariants are not run by themselves: those of the modules with
proofs are part of the inductive invariants.

**Why the bounds are enough to be interesting.** Each bound is the least at which
the cases named in the table meet, and the faulty variants show that they do:
each is found under the very configuration that passes. Three threads are
needed where a newcomer overtakes a woken thread; three ids for three sources
and four calls make the ids wrap and meet ids in use; three priorities are
needed to tell "stop behind the first ready priority" from "go on"; five keys
in eight buckets fill the table with tombstones and make it grow and shrink;
two edits in three seconds are needed for a source that is compiled in the
second of the middle file and a link that finds the lists of an earlier one. The
word of the mutex has as many values as the assumption `WordAssumption` demands,
no more, so the clause on its width is tight. Symmetry is used only in runs
without liveness: in `sequential` of the threads and of the pages of the slice
allocator, which no other part has and between which nothing in it distinguishes.
Six chunks are needed there: four fill the magazines of a thread, the fifth sends
a magazine to the cache. The largest runs are `unused_build` and `sequential`, with
1,292,086 and 406,236 distinct states. Runs say `CHECK_DEADLOCK FALSE` where a bound on calls or the
end of the program stops the model; `unused_build` checks deadlock: nobody
is stuck among the unused threads, and a link can always go on until the program is
linked (`Rests`).

**Two configurations of the event loop.** `Concurrent = FALSE` lets sources be
added and removed by callbacks, and by other threads while nobody runs the
manager; with it the iteration of `foreachCheck` is exact. `Concurrent = TRUE`
lets other threads do so while the owner runs; then a step of the iterator may
find no source, because the arrays move under it without a lock (see below), and
the run checks what is said about waking and stopping up to there.
`removeAll()` is called only in `sourcemgr_calls`: it also takes the wake-up
source out of the storage.

**Fairness.** A thread that is not blocked takes its next step (weak fairness of
the steps of each thread): the kernel schedules threads. The wait of a thread
in a futex is not a step; its wake-up is the step of another. Nothing is assumed
of callers: nobody has to push, to free, to quit. Tasks, callbacks and
initialisers return. Timed waits end (half a second in the thread pool, the sleep
of `epoll_wait`), but an idle time of 0 has no end. In `AMutex` a thread inside
the mutex leaves it, and nothing is assumed about who gets it: the mutex lets
newcomers overtake, so no property promises a particular thread its turn.
`MutualExclusion`, `BlockingQueue` and `GlobalPool` state their fairness for
"some waiting thread" for the same reason. The spawner takes its steps;
`AskersAnswered` leaves out a thread that cannot be created, which answers
nobody. The clock has no fairness: nothing that is checked depends on time
passing. The link step has none: it may be interrupted for ever.

## What is proved

For every value of the constants that the named assumptions admit. `tlapm` checks
every leaf.

| Theorem | Says | Argument |
|---|---|---|
| `MutexExcludes`, `MutexWakesSleepers`, `MutexImplementsLock` (`Runtime_proofs`) | mutual exclusion; while somebody sleeps either the word is at least 2, so that the holder will wake a sleeper, or somebody is on the way; each step is a step of the lock or none | `TypeOK`, `Exclusion` and `NoLostWakeup` are inductive together: the word tells who is inside only if it does not wrap, and it does not wrap because each thread inside `lock()` has added to it at most once since it was last exchanged |
| `QueueCountsWaiters`, `QueueWakesForEachItem`, `QueuePopsInOrder` (`AAsyncQueue_proofs`) | `waitingThreads` is exact; while a thread sleeps every item in the queue has a woken thread on its way; a sorted queue is popped in order | inductive with `OrderlyOK`, for queues of any length; a push relies on `waitingThreads > 0`, so the count is needed for the wake-up |
| `QueueImplementsBlockingQueue` (`AAsyncQueue_proofs`) | what the threads see of the queue, with its waits, timeouts, interruptions and late wake-ups, is a behaviour of `BlockingQueue` (the safety part of `ImplementsQueue`) | a thread in `wait()` is mapped to one that waits, for ever or up to its time, wherever it is in it; every step inside `wait()` is then invisible. Only `TimeoutsTimed` is needed besides the types: a `pop` without `endTime` does not time out, so it never comes back without an item |
| `SortPlacePermutes` and the other lemmas of `AQueue_proofs` | sorting puts each item in exactly one place, in order; what insertion, sorting and removal leave | on functions; the sort is defined by the place of each item, not by recursion |
| `OneThreadOwns` (`ASourceMgr_proofs`) | the manager is run by one thread at a time, and `ownerCount` is the number of releases it owes | `OwnerCounted` is not inductive: it must be known in which calls a thread may be at a stage (`StageOf`). One lemma for each kind of step: a thread goes on, takes, gives back, or is woken |
| `ManagerTypes`, `StorageConsistent` (`ASourceMgr_proofs`) | the state of the manager is well typed; the storage lists in order the priorities that have sources, and each stored source once, under its own priority | `StorageOK` with `DataTyped`: arrays keep what is behind their end, so the shape (`ListsOK`) is proved for adding to and removing from the index and a list separately (`AddIndexShape`, `RemoveIndexShape`, `AddedToLists`, `RemovedFromLists`), then for every call of another thread and of a callback |
| `WaitersWoken` (`ASourceMgr_proofs`) | nobody waits for a free manager unless another thread has been woken for it | inductive with ownership: only the last `release` frees the manager, and it wakes one of those who wait; a thread that is woken and finds an owner again waits again (`ReleaseWakes`, `WaiterKept`) |
| `NoWakeupMissed` (`ASourceMgr_proofs`) | no loop sleeps past the time of a source that is ready or timed, nor in spite of `quit()` | `OthersWhileOwned` lists what other threads can do to the state while one owns the manager: each change that matters leaves a wake-up in the eventfd. `PreparedSleep` bounds the computed sleep by every source of the storage; `StopTold` says that a loop told to stop has not missed the telling |
| `IteratorFindsSource` (`ASourceMgr_proofs`) | if only the owner adds and removes sources, `foreachCheck` finds one at each step, whatever the callbacks of earlier rounds did and also when another thread calls `removeAll()` | `IterThere` says where the iterator stands in the lists; `IterStep` says what one step leaves ahead of it (`AheadOf`). The hypothesis `~Concurrent` is the one the code does not ensure, see below |
| `RoundOfOnePriority` (`ASourceMgr_proofs`) | the sources of a round are all of one priority, and none is dispatched twice in it | `CheckRound`: those found so far have the priority `maxPriority`, are not ahead of the iterator, and those ahead are of no smaller one; `RoundAlike` keeps it while they are dispatched; `NoneLeft`: nothing is left of an earlier round. Hypotheses: `~Concurrent`, and `PendingAlone`, that is, no other thread iterates beside one that calls `pending()`, which leaves its sources in the array; without it TLC finds two rounds mixed |
| `UnusedTypes`, `NoRequestStranded` (`UnusedThread_proofs`) | the counter of unused threads never goes below zero; an accepted request has a waiting thread, counted from the end that is popped | inductive with `InsideCounted` (`unusedThreads` counts the threads between its two updates) and `RestoresLimit`. A push in front does not change a request's distance to the end; a pop takes one item and at most one waiter; a timeout or a new wait meets an empty queue |
| `UnusedThreadsImplementPool` (`UnusedThread_proofs`) | what pools see of the unused threads, with markers, limits that change, idle times and kills, is a behaviour of `GlobalPool` (the safety part of `ImplementsGlobalPool`) | the requests are the pools in the queue in their order, `PoolsOf`: the k-th is at the place up to which there are k pools, so that a push or a pop is a fact about counting places (`Ranked`, `Shifted`, `OneInFront`) and needs no induction over the queue. A thread that pops a marker may leave because it is spare: each request has a waiting thread for each item up to it, the marker included (`SpareWaiter`). `GivenLeaves`: a thread that was given a pool does not wait |
| `UnusedLimitObeyed` (`UnusedThread_proofs`) | if calls of the setters do not overlap (`OneAtATime`), then once all is quiet no more threads wait than the limit allows, for any number of calls | `Matched`: while more threads than allowed would stay (`Committed`), either the setter is still on its way and knows how many they are, or there are kills for all of them and, for each, an item in the queue or a thread that holds a marker, and all of them have an old serial (`OldSerials`). So a marker that is dropped, by a thread that knows the serial, shows that nobody is too many; and a thread that comes and stays has counted fewer than the limit. With overlapping setters the second overwrites the kills of the first, and it is false |
| `PoolCountsThreads`, `PoolFreedOnce` (`AThreadPool_proofs`) | `numThreads` is the threads at work plus the requests in the global pool; the pool is freed at most once, when no thread or request has it | inductive with `Pushers` (a push is under way only in a task or in an owner that does not free) and `OwnerPhase` (`running` is false from `free()` on; while `free()` waits, `waiting` keeps the threads from clearing). If a thread has the pool nobody clears it (`NobodyClears`), so nobody starts a thread for a pool that is being cleared |
| `PoolRunsTasksOnce`, `PoolFreedGracefully` (`AThreadPool_proofs`) | no task is run twice and the wake-up pointer is never run; after `free(FALSE, ...)` the pool is gone only when every accepted task has been run, and a `free` that waits goes on only when no task runs (and, without `immediate`, none is left) | `TaskState`: a task is pushed by one caller, is then in the queue once, then run, never two of these. `MarkersLate`: the pointer is in the queue only after the pool was told to stop. `AllInPop`: when `numThreads` threads wait in `pop`, the queue is empty and nobody else has the pool, which is the situation in which the last thread lets `free` go on; `Graceful` and `WaitedInv` carry this to the state in which the pool is cleared |
| `ObjectFreedOnce` (`Runtime_proofs`) | `FreedAtLastRef`: an object is freed once, when its last reference has gone, also when a `ref` comes too late | the count is that of the live references as long as no call was late (`CountExact`); a thread in a compare-and-swap loop has seen another reference, so that of two last ones only one is the last (`SawAnother`) |
| `OnceOnly` (`Runtime_proofs`) | a location is initialised once, and every call that has returned finds its value, whatever other locations the initialisers need | `Listed`: a location on the list has one initialiser, in one place of one thread's stack of calls. `Stored`: off the list it has a value or was never begun. `OneInside` gives exclusion from the mutex that is made by whoever comes first; `SeenCurrent` says that what a thread has read is still so while it has that mutex |
| `SpawnerWritesToLiving`, `ThreadFreedOnce` (`Runtime_proofs`) | the spawner writes only to records of calls that still wait, a call that goes on has its thread; an `AThread` is freed when both maker and thread have given it up, and the system thread is joined or detached, once | `QueueWaits` and `ServedWaits`: who is in the queue or served has not gone on, is there once and has no thread yet; `ReferencesCounted`: the count of an `AThread` is one for a thread that is alive plus one for a maker that is not done |
| `MemoryStaysRegistered` (`Runtime_proofs`) | until the program aborts, memory in use is registered under the device it came from | `MemoryInv`: an address is in the hands of one thread or of the program (`Handled`, `Apart`), except the one that a thread has given back and is about to take off: another thread that is given it meanwhile adds it after it was taken off, or finds it registered, which ends the program |
| `StoragePlacesAgree` (`Containers_proofs`) | until the program aborts the lists, the array, the hash table and the places that the sources have noted agree, each source has as many references as places hold it, and the iterators find each stored source once, in the order of priorities, whenever no `removeAll()` is half-way | `StorageInv`: `Held` is `PlacesAgree` in a form that steps keep, for the sources that a `removeAll()` has left: `ArrayHolds` (the noted place is the place), `ListsHold` with the priority that each one is listed under, which is the new one from the move in the storage until the assignment (`PriorityPending`). `ListAdded` and `ListRemoved` say what is left of the lists behind a change, by places and not by flattening; `IterationKept` derives the iteration |
| `HeapTopIsLeast` (`Containers_proofs`) | nothing is lost or doubled in the heap while items move, and between calls every node goes in front of its children, so that `top()` is an item that no other one goes in front of | `HeapInv`: all pairs that do not touch the hole are ordered (`HeapOrdered`), the parent of the hole goes in front of its children and, on the way up, so does the item (`AroundHole`), and on the way down the item goes behind that parent (`NotAbove`). The copies of an item are counted with the hole filled (`Counted`); a round moves one copy (`MoveKeepsCounted`). That the first item is in front of all others is shown by the place of the least one that is not: its parent would be one as well |
| `SliceConservesChunks` (`Containers_proofs`) | no chunk is lost, or in two places, on its way between threads, the shared cache and the slabs; the counts of magazines and pages are exact; the ring keeps pages that are used up at its end | `SliceInv`: `Phases` says what a thread moves at which point of its call, `OnePlace` where chunks may be, `SlabInv` what each page of the ring and each page outside it has, `Counts` that magazines are exact. One lemma for each kind of move; a chunk that leaves or enters the slabs changes one page and one thread (`OneChunk`, `PageCardinality`). Who has `slab_mutex` occurs in no conjunct: it keeps the rounds of two threads apart, but what is conserved is so after each round |
| `BuildCollectsNotes`, `BuildSpecialises`, `BuildHasInterfaces` (`AetCollect_proofs`) | behind the middle file the lists are those of the present notes; what is linked has been specialised with the blocks of all sources; each interface in use has an object made from its header | what an earlier call of make has left is trusted because of times: a note older than the middle file has been read for it (`NotesRead`), as no file is from the future (`TimesPast`) and make links only when every note is there (`NotesThere`); the list of sources is that of the notes read (`BlocksListed`), and it is not removed when it has been worked off, so that each link works it off again; an interface in use is listed, or up to date, or its user's note will be read first (`IfacesListed`), for a header that was edited is not older than its object (`StaleLater`) |

**Only model-checked**, and why:

- Everything with fairness: `ImplementsLock`, `ImplementsQueue` and
  `ImplementsGlobalPool` beyond their safety parts, every property with `~>`,
  `Settles`. Liveness is out of reach of the prover.
- `TableIsMap`, `ListIsSequence`, `SortedStably`: what the hash table, the list and
  the merge sort compute is defined with recursive operators, on probe sequences,
  chains of nodes and halves of arrays. That it is right for every input is an
  induction over data, which the prover cannot be led through.
- The five statements that do not hold: their runs show a counterexample.

**Assumptions.** The threads and the references are finite sets; `NULL` (`None`)
is not a thread, item, source or pool; the futex word has more values than threads
plus two; ranks and priorities are integers and there is a largest priority (the
code's `int` has one), the wake-up source has priority 0; limits are natural
numbers or -1; an object has at least one reference. A page has at least one chunk,
thresholds of magazines are at least `MIN_MAGAZINE_SIZE`, as
`allocator_get_magazine_threshold()` gives them. `AetCollect` needs none: any
sources, headers and contents. The bounds `MaxLength`, `MaxCalls`, `MaxTime`,
`MaxEdits` occur in guards only and no proof looks at them. Three theorems have
hypotheses of their own, named in the table; the configuration `sourcemgr_calls`
satisfies those of the event loop, and in `unused_build` one caller sets the
limits. The theorems of `Runtime_proofs` hold for every choice of `Parts`.

## What the models found

Each of the first five is a run that fails as expected.

1. `threadpool_sort`: the wake-up data of `free()` may meet the sort function.
   A task that is running may be inside `push()`, past the test of `running`,
   when `wakeupAndStopAll()` fills the queue with the pointer 1; the push then
   sorts it in, although the comment at `AThreadPool.c:528` says the data are not
   to be sorted "since it'll crash the sorter".
2. `storage_poll_place`: `removeFromPollArray()` (`ArrayStorage.c:236`) writes
   the new places of the sources that move to the source that is removed. Later
   a source is looked for where it is not, which is fatal.
3. `sourcemgr_pending`: `iterate()` sets the number of pending sources to 0
   before it knows whether it owns the manager (`ASourceMgr.c:477`); the owner in
   another thread then forgets the rest of its round.
4. `mtcs_address`: `free()` (`MtcsMem.c:260`) gives memory back to the device
   before it takes the address off the registry. Another thread may be given the
   address in between and finds it registered, which ends the program.
5. `build_linked`: `compileMiddleFile()` (`aetcollect.c:706`) returns no name when
   the middle object is up to date, so a link that is repeated, because ld failed,
   make was interrupted or the program was removed, is made without it, although
   the comment of `createNewArgv()` names it as one of the two kinds of objects
   that are added, and `compileSingleFile()` has a case "do not compile, link the
   object" for it.

Seen while modelling, each at the line given, without a run of its own:

In the event loop and the storage:

- `ASourceMgr.c:360`: `event|EPOLLIN` is never zero, so every source with a
  descriptor is dispatched in every round, and sources of lower priority wait as
  long as there is one.
- `ASourceMgr.c:638`: `removeAll()` from a callback leaves the count of pending
  sources; `excute()` then fails its assertion at line 445 (`crashed = "assert"`
  in the model). The sources stay active, so that `destroy()` of one of them is
  fatal, and the wake-up source is gone.
- `ASourceMgr.c:368`: `foreachCheck()` iterates without the mutex; a source of a
  new priority added by another thread moves the arrays under the iterator, which
  then finds no source (`crashed = "null"`; with `Concurrent = TRUE`
  `SourceIsThere` does not hold).
- `EventSource.c:68`: between the move of a source in the storage and the
  assignment of its priority, `remove()` looks for it in the wrong list, which is
  fatal.
- `ASourceMgr.c:581`: `destroy()` goes on using a source whose last reference the
  storage may have dropped.
- `ALoop.c:69`: a `quit()` that comes before `run()` sets `isRunning` is lost.

In the threads and the data structures:

- `AThreadPool.c:615`: with `maxThreads` 0 `free()` tests the queue before it
  takes the mutex; tasks queued in between are never run.
- `AThreadPool.c:500`: if no thread can be created the spawner reports neither a
  thread nor an error; the call waits for ever with the mutex of its pool held,
  and the `AThread` is not given back. Where `push()` (line 588)
  could not start a thread the task stays in the queue, and a `free()` that
  waits for the tasks does so for ever (`failed` in the model).
- `AObject.c:91`: after one late `ref()` has been noticed, a second one is given
  the dead object.
- `AList.c:407`: `clear()` and the destructor free only the first node.
- `MtcsSystem.c:113`: `if(!defaultProvider);` makes provider 0 the default always,
  which the comment above it denies; line 181 admits an index one too large.

In the link step:

- A source that ceases to be AET, or leaves the program, does not make the other
  notes newer, so the lists stay as they are; `compileGeneric()` then asks for the
  parameters of an object without a note and splits a null pointer
  (`aetcollect.c:928`, line 864). In the model a source stays one of the program.
- A source that is edited after its first compilation and before its second one
  gets an object newer than itself, but its note is that of the old text: make
  does not compile it again (`edited` but not `dirty`).
- `aetcollect.c:823`: the list of interfaces is removed when a compiler cannot be
  started, while the middle object stays: the next call compiles none of them
  (`listLost`).
- `aetcollect.c:607`: `st>dt` in seconds keeps an object made in the second of
  its source; `compareFile()` does the same for an edited header.
- Two programs linked in one directory share the middle file and both lists.
- `aetcollect.c:631`: a failure while the file for kernels is compiled leaves it
  under its other name.
- Objects of interfaces that are no longer used are still linked.
- `aetcollect.c:1197`: the buffer of names is appended to without having been
  made empty.

## What is not modelled, and why

- In the modelled parts: recursive iteration from a callback; freeing a source
  while it is used (it needs the reference counts of every holder); `setPriority`
  of a source in a running manager (`ArrayStorage` has it); overflow of the
  counters of the library other than the mutex word; the lengths of the arrays of
  `ArrayStorage` (1001 and 1024 pointers for ids up to 2048); the destroy
  callbacks and the iterators of the containers; concurrent use of the hash table
  under `MtcsMem`; what is for kernels in the link step, the interface checks, the
  list of libraries, and the code that is generated.
- Not at all: I/O wrappers, conversions of text, logging, random numbers (no
  order of events to get wrong); the CUDA back end (each method is one call of an
  API that is not in the repository).
- The rest of the compiler, by far the most of the lines of the repository: the
  front end in `aet/*.c`, the second back end in `aet/mtcs`, which is GCC's own
  passes, instruction tables and option tables adapted to PTX, and GCC's files
  with hooks in them. They are sequential passes, run to the end or not at all,
  over trees and RTL whose definitions are mostly GCC's and not in the
  repository; what could be wrong in them is what code they generate for a
  program, which a model of their control would not show and their tests, which
  are programs, do.
- Out of reach of the prover, left to TLC: liveness and fairness, `ENABLED`,
  and what recursive definitions compute for every input.

## The plan

Done: the mutex, the queue, the unused threads, the thread pool, the spawner, the
storage, the event loop, the reference count, once, the registry of device memory,
the containers, the slice allocator, the link step.

What would come next, in this order:

1. The lifetime of the sources in `ASourceMgr`: who holds a reference while a
   source is pending, dispatched, destroyed, on top of `AObject`. *Never used
   after it was freed.*
2. `ASourceMgr`: recursive iteration, `setPriority`.
3. The link step with several programs in one directory, and with sources that
   leave the program.
4. Proofs: `PollPlaceNoted` once `removeFromPollArray()` has been corrected; the
   list, with its chains described by numbered nodes instead of recursion; that
   `ASourceMgr` may use the lists of `SourceLists` for the whole of `ArrayStorage`
   as a refinement between the two modules.
