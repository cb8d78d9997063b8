------------------------------- MODULE Once -------------------------------
(***************************************************************************)
(* innerlock.c: one-time initialisation.  a_once_init_enter() tells one    *)
(* caller to initialise a location and lets the others wait until it has   *)
(* called a_once_init_leave(); a_once_impl() does the same around a        *)
(* function.  All locations share one mutex, one condition variable and    *)
(* the list of locations that are being initialised.  The mutex itself is  *)
(* made by the first thread that wants it: inner_mutex_get_impl().         *)
(*                                                                         *)
(* An initialiser may initialise another location on its way, as that of   *)
(* the default ASourceMgr does.                                            *)
(***************************************************************************)
EXTENDS Naturals, Sequences

CONSTANTS Threads,
          Locations,
          Onces,          \* those that are an InnerOnce, for a_once_impl()
          inner,          \* the location that an initialiser needs, or None
          None            \* NULL

VARIABLES p,              \* inner_once_mutex.p: the thread that made the mutex
          holder,         \* who holds the mutex that each thread made
          mutex,          \* the mutex each thread has found in p
          value,          \* what was stored at each location
          init_list,      \* the locations being initialised
          stack,          \* the locations each thread is at, innermost first
          pc,
          goal,           \* where each thread goes on with the mutex
          seen,           \* what it has read under the mutex
          begun,          \* history: how often each location was initialised
          done            \* history: the calls that have returned

vars == <<p, holder, mutex, value, init_list, stack, pc, goal, seen, begun, done>>

Nothing == [value |-> None, listed |-> FALSE]

Init == /\ p = None
        /\ holder = [t \in Threads |-> None]
        /\ mutex = [t \in Threads |-> None]
        /\ value = [l \in Locations |-> None]
        /\ init_list = {}
        /\ stack = [t \in Threads |-> <<>>]
        /\ pc = [t \in Threads |-> "idle"]
        /\ goal = [t \in Threads |-> "enter"]
        /\ seen = [t \in Threads |-> Nothing]
        /\ begun = [l \in Locations |-> 0]
        /\ done = [t \in Threads |-> {}]

Goto(t, label) == pc' = [pc EXCEPT ![t] = label]
Lock(t, label) == Goto(t, "lock") /\ goal' = [goal EXCEPT ![t] = label]
Unlock(t) == /\ holder' = [holder EXCEPT ![mutex[t]] = None]
             /\ seen' = [seen EXCEPT ![t] = Nothing]

(* The call for the innermost location is over: the thread goes on with    *)
(* the initialiser that made it.                                           *)
Return(t, l) == /\ done' = [done EXCEPT ![t] = @ \cup {l}]
                /\ stack' = [stack EXCEPT ![t] = Tail(@)]
                /\ Goto(t, IF Tail(stack[t]) = <<>> THEN "idle" ELSE "init")
-----------------------------------------------------------------------------
(* The macro a_once_init_enter: nothing to do if the location has a value. *)
Call(t, l) ==
    /\ l \notin done[t]
    /\ \/ pc[t] = "idle"
       \/ pc[t] = "init" /\ l = inner[Head(stack[t])]
    /\ IF l \notin Onces /\ value[l] # None
       THEN /\ done' = [done EXCEPT ![t] = @ \cup {l}]
            /\ UNCHANGED <<stack, pc, goal>>
       ELSE /\ stack' = [stack EXCEPT ![t] = <<l>> \o @]
            /\ Lock(t, "enter")
            /\ UNCHANGED done
    /\ UNCHANGED <<p, holder, mutex, value, init_list, seen, begun>>

(* inner_mutex_get_impl(): the mutex that is in p, or one of our own.      *)
GetImpl(t) == /\ pc[t] = "lock"
              /\ IF p = None THEN Goto(t, "cas") /\ UNCHANGED mutex
                 ELSE Goto(t, "acquire") /\ mutex' = [mutex EXCEPT ![t] = p]
              /\ UNCHANGED <<p, holder, value, init_list, stack, goal, seen, begun, done>>

PutImpl(t) == /\ pc[t] = "cas"
              /\ p' = IF p = None THEN t ELSE p
              /\ Goto(t, "lock")
              /\ UNCHANGED <<holder, mutex, value, init_list, stack, goal, seen, begun, done>>

(* With the mutex a thread first looks at the location and at the list.    *)
Acquire(t) == /\ pc[t] = "acquire" /\ holder[mutex[t]] = None
              /\ holder' = [holder EXCEPT ![mutex[t]] = t]
              /\ LET l == Head(stack[t])
                 IN  seen' = [seen EXCEPT ![t] = [value  |-> value[l],
                                                  listed |-> l \in init_list]]
              /\ Goto(t, goal[t])
              /\ UNCHANGED <<p, mutex, value, init_list, stack, goal, begun, done>>

(* Faulty variant: a_once_init_enter() looks at the list only.             *)
EnterUnchecked(t) ==
    LET l == Head(stack[t])
    IN  /\ pc[t] = "enter"
        /\ IF ~seen[t].listed
           THEN /\ init_list' = init_list \cup {l}
                /\ begun' = [begun EXCEPT ![l] = @ + 1]
                /\ Goto(t, "init") /\ UNCHANGED <<stack, done>>
           ELSE Goto(t, "wait") /\ UNCHANGED <<init_list, begun, stack, done>>
        /\ Unlock(t)
        /\ UNCHANGED <<p, mutex, value, goal>>

Enter(t) ==
    LET l == Head(stack[t])
    IN  /\ pc[t] = "enter"
        /\ IF seen[t].value # None
           THEN Return(t, l) /\ UNCHANGED <<init_list, begun>>
           ELSE IF ~seen[t].listed
           THEN /\ init_list' = init_list \cup {l}
                /\ begun' = [begun EXCEPT ![l] = @ + 1]
                /\ Goto(t, "init") /\ UNCHANGED <<stack, done>>
           ELSE Goto(t, "wait") /\ UNCHANGED <<init_list, begun, stack, done>>
        /\ Unlock(t)
        /\ UNCHANGED <<p, mutex, value, goal>>

(* After inner_cond_wait(): as long as the location is on the list.        *)
Recheck(t) == /\ pc[t] = "recheck"
              /\ IF seen[t].listed THEN Goto(t, "wait") /\ UNCHANGED <<stack, done>>
                 ELSE Return(t, Head(stack[t]))
              /\ Unlock(t)
              /\ UNCHANGED <<p, mutex, value, init_list, goal, begun>>

(* The initialiser returns.  a_once_init_leave() stores the value before   *)
(* it takes the mutex, a_once_impl() when it has it.                       *)
Publish(t) ==
    LET l == Head(stack[t])
    IN  /\ pc[t] = "init" /\ (inner[l] # None => inner[l] \in done[t])
        /\ value' = IF l \in Onces THEN value ELSE [value EXCEPT ![l] = t]
        /\ Lock(t, "leave")
        /\ UNCHANGED <<p, holder, mutex, init_list, stack, seen, begun, done>>

(* Faulty variant: nobody is told.                                         *)
LeaveSilent(t) ==
    LET l == Head(stack[t])
    IN  /\ pc[t] = "leave"
        /\ init_list' = init_list \ {l}
        /\ value' = [value EXCEPT ![l] = t]
        /\ Unlock(t) /\ Return(t, l)
        /\ UNCHANGED <<p, mutex, goal, begun>>

Leave(t) ==
    LET l == Head(stack[t])
        woken == {u \in Threads : pc[u] = "wait"}
    IN  /\ pc[t] = "leave"
        /\ init_list' = init_list \ {l}
        /\ value' = [value EXCEPT ![l] = t]
        /\ Unlock(t)
        /\ done' = [done EXCEPT ![t] = @ \cup {l}]
        /\ stack' = [stack EXCEPT ![t] = Tail(@)]
        /\ pc' = [u \in Threads |->
                     IF u = t THEN IF Tail(stack[t]) = <<>> THEN "idle" ELSE "init"
                     ELSE IF u \in woken THEN "lock" ELSE pc[u]]
        /\ goal' = [u \in Threads |-> IF u \in woken THEN "recheck" ELSE goal[u]]
        /\ UNCHANGED <<p, mutex, begun>>

Step(t) == \/ GetImpl(t) \/ PutImpl(t) \/ Acquire(t)
           \/ Enter(t) \/ Recheck(t) \/ Publish(t) \/ Leave(t)

Next == \E t \in Threads : Step(t) \/ \E l \in Locations : Call(t, l)

(* A thread that is not blocked goes on, initialisers return (and make the *)
(* call they need).                                                        *)
Fairness == \A t \in Threads :
               /\ WF_vars(Step(t))
               /\ WF_vars(pc[t] = "init" /\ \E l \in Locations : Call(t, l))

Spec == Init /\ [][Next]_vars /\ Fairness
-----------------------------------------------------------------------------
(* a_once_init_enter() and a_once_impl(): a location is initialised by one *)
(* thread and once, and every call that returns finds its value, although  *)
(* the value is stored before the location leaves the list and callers     *)
(* look at the value without the mutex.                                    *)
InitialisedOnce ==
    \A l \in Locations :
        /\ begun[l] <= 1
        /\ \A t \in Threads : l \in done[t] => value[l] \in Threads
        /\ \A t \in Threads : pc[t] = "leave" /\ l = Head(stack[t]) => l \in init_list

(* Every call returns, with those its initialiser makes: a waiting thread  *)
(* is woken for its own location, whoever else uses the condition variable.*)
CallsReturn == \A t \in Threads : (pc[t] # "idle") ~> (pc[t] = "idle")
=============================================================================
