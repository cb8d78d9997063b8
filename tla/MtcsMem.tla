------------------------------ MODULE MtcsMem ------------------------------
(***************************************************************************)
(* mtcs/MtcsMem.c and mtcs/MtcsMemMgr.c: memory of devices.  malloc() asks *)
(* the allocator of a device, which notifies the registry of the address;  *)
(* free() finds the device of an address in the registry, gives the memory *)
(* back to the device and takes the address off the registry.  No step of  *)
(* this is synchronised with another thread.  Each operation of the        *)
(* registry is an action; it is an AHashTable, which concurrent operations *)
(* may also damage: that is left out.                                      *)
(***************************************************************************)
EXTENDS Functions, FiniteSets

CONSTANTS Threads, Addresses,
          Devices,        \* provider and number
          None

VARIABLES registry,       \* sourcesHash: address -> device
          memory,         \* of the devices: address -> device it belongs to
          owned,          \* the addresses that malloc() has returned
          pc, address, device,    \* of the call each thread is in
          aborted         \* a_error() or abort() was called

call == <<pc, address, device>>
vars == <<registry, memory, owned, call, aborted>>

Init == /\ registry = [a \in {} |-> None] /\ memory = registry
        /\ owned = {} /\ aborted = FALSE
        /\ pc = [t \in Threads |-> "idle"]
        /\ address = [t \in Threads |-> None]
        /\ device = [t \in Threads |-> None]

Goto(t, label) == pc' = [pc EXCEPT ![t] = label]
With(f, a, d) == [b \in DOMAIN f \cup {a} |-> IF b = a THEN d ELSE f[b]]
Without(f, a) == Restrict(f, DOMAIN f \ {a})
-----------------------------------------------------------------------------
(* malloc(): the device gives an address that is not in use.               *)
Malloc(t, d) == /\ ~aborted /\ pc[t] = "idle"
                /\ \E a \in Addresses \ DOMAIN memory :
                      /\ memory' = With(memory, a, d)
                      /\ address' = [address EXCEPT ![t] = a]
                /\ device' = [device EXCEPT ![t] = d]
                /\ Goto(t, "add")
                /\ UNCHANGED <<registry, owned, aborted>>

(* Faulty variant: add() says nothing of an address that is there already. *)
AddSilent(t) == /\ ~aborted /\ pc[t] = "add"
                /\ registry' = With(registry, address[t], device[t])
                /\ owned' = owned \cup {address[t]}
                /\ Goto(t, "idle")
                /\ UNCHANGED <<memory, address, device, aborted>>

(* mallocHappend() and add(): an address that is there already is fatal.   *)
Add(t) == /\ ~aborted /\ pc[t] = "add"
          /\ aborted' = (address[t] \in DOMAIN registry)
          /\ registry' = With(registry, address[t], device[t])
          /\ owned' = owned \cup {address[t]}
          /\ Goto(t, "idle")
          /\ UNCHANGED <<memory, address, device>>

(* free(): get() finds the provider and the device, or -1 and -1, with     *)
(* which getProvider() aborts.                                             *)
Free(t, a) == /\ ~aborted /\ pc[t] = "idle" /\ a \in owned
              /\ owned' = owned \ {a}
              /\ address' = [address EXCEPT ![t] = a]
              /\ IF a \in DOMAIN registry
                 THEN /\ device' = [device EXCEPT ![t] = registry[a]]
                      /\ Goto(t, "free") /\ UNCHANGED aborted
                 ELSE aborted' = TRUE /\ UNCHANGED <<device, pc>>
              /\ UNCHANGED <<registry, memory>>

FreeOnDevice(t) == /\ ~aborted /\ pc[t] = "free"
                   /\ memory' = Without(memory, address[t])
                   /\ Goto(t, "remove")
                   /\ UNCHANGED <<registry, owned, address, device, aborted>>

Remove(t) == /\ ~aborted /\ pc[t] = "remove"
             /\ registry' = Without(registry, address[t])
             /\ Goto(t, "idle")
             /\ UNCHANGED <<memory, owned, address, device, aborted>>

Next == \E t \in Threads : \/ \E d \in Devices : Malloc(t, d)
                           \/ Add(t)
                           \/ \E a \in Addresses : Free(t, a)
                           \/ FreeOnDevice(t) \/ Remove(t)

Spec == Init /\ [][Next]_vars
-----------------------------------------------------------------------------
(* malloc(), free() and memcpy(), which looks addresses up: as long as the *)
(* program goes on, memory in use is registered under its device and is    *)
(* freed there, whoever allocates and frees meanwhile.                     *)
MemoryRegistered ==
    ~aborted => /\ \A a \in owned : /\ a \in DOMAIN registry /\ a \in DOMAIN memory
                                    /\ registry[a] = memory[a]
                /\ \A t \in Threads : pc[t] = "free" =>
                       /\ address[t] \in DOMAIN memory
                       /\ memory[address[t]] = device[t]

(* MtcsMemMgr.add(): "address repeated" is an error that is not expected.  *)
AddressesNotRepeated == ~aborted
=============================================================================
