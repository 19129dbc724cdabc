------------------------------ MODULE Registry ------------------------------
(***************************************************************************)
(* The listener registry of src/src/runtime.rs: the list of registrations, *)
(* the per-registration (active, in_flight) pair behind its mutex, and the *)
(* `idle` condition variable on which an unregistering thread waits.       *)
(*                                                                         *)
(* Every critical section of the code (one lock(), one effect, one         *)
(* unlock) is one action; what runs between two of them may interleave.    *)
(* A registration object is never reused: registering a key again makes a  *)
(* new object, so a key can be live in `entries` while the object that     *)
(* last carried it is still being closed.                                  *)
(*                                                                         *)
(* The position of an entry in the code's Vec is abstracted: `entries` is  *)
(* a set, and whoever walks it does so in any order.  A call that returns  *)
(* Err (AlreadyExists, NotFound) changes nothing and is a stuttering step. *)
(***************************************************************************)
EXTENDS Naturals

CONSTANTS Regs,         \* registration objects (Arc<Registration>)
          NoReg,        \* no registration object
          Keys,         \* (source filter, sink filter, listener) triples
          NoKey,        \* key of a registration object not yet made
          Callers,      \* threads that call register and unregister
          Owner,        \* the thread that drops the transport
          MaxInFlight   \* bound: callbacks of one registration at a time

ASSUME NoRegAssumption == NoReg \notin Regs
ASSUME NoKeyAssumption == NoKey \notin Keys
ASSUME OwnerAssumption == Owner \notin Callers
ASSUME MaxInFlightAssumption == MaxInFlight \in Nat \ {0}

VARIABLES entries,      \* Registry.entries
          key,          \* key[r]: what r was registered for, or NoKey
          active,       \* RegistrationState.active
          inFlight,     \* RegistrationState.in_flight
          pc,           \* pc[t]: where thread t is in the registry's code
          target,       \* target[t]: the registration t is deactivating
          todo,         \* entries deactivate_all still has to deactivate
          closed        \* history: deactivate_and_wait has returned for r

registryVars == <<entries, key, active, inFlight, pc, target, todo, closed>>

Threads == Callers \cup {Owner}

Init ==
  /\ entries = {}
  /\ key = [r \in Regs |-> NoKey]
  /\ active = [r \in Regs |-> FALSE]
  /\ inFlight = [r \in Regs |-> 0]
  /\ pc = [t \in Threads |-> "idle"]
  /\ target = [t \in Threads |-> NoReg]
  /\ todo = {}
  /\ closed = {}

(* register and unregister borrow the transport, Drop owns it: the         *)
(* compiler rules out a call that overlaps the drop.                       *)
Borrowed == \E c \in Callers : pc[c] # "idle"

(* Fault: the list is not searched for an entry with the same key.         *)
RegisterBlindly(c, k) ==
  /\ pc[c] = "idle" /\ pc[Owner] = "idle"
  /\ \E r \in Regs :
       /\ key[r] = NoKey
       /\ key' = [key EXCEPT ![r] = k]
       /\ active' = [active EXCEPT ![r] = TRUE]
       /\ entries' = entries \cup {r}
  /\ UNCHANGED <<inFlight, pc, target, todo, closed>>

Register(c, k) ==
  /\ pc[c] = "idle" /\ pc[Owner] = "idle"
  /\ \A r \in entries : key[r] # k
  /\ \E r \in Regs :
       /\ key[r] = NoKey
       /\ key' = [key EXCEPT ![r] = k]
       /\ active' = [active EXCEPT ![r] = TRUE]
       /\ entries' = entries \cup {r}
  /\ UNCHANGED <<inFlight, pc, target, todo, closed>>

(* Fault: the entry is found and closed, and stays in the list.            *)
UnregisterLate(c, k) ==
  /\ pc[c] = "idle" /\ pc[Owner] = "idle"
  /\ \E r \in entries : key[r] = k /\ target' = [target EXCEPT ![c] = r]
  /\ pc' = [pc EXCEPT ![c] = "removed"]
  /\ UNCHANGED <<entries, key, active, inFlight, todo, closed>>

(* The first half of unregister: find the entry and remove it, under the   *)
(* registry's write lock.  The second half is Deactivate.                  *)
Unregister(c, k) ==
  /\ pc[c] = "idle" /\ pc[Owner] = "idle"
  /\ \E r \in entries :
       /\ key[r] = k
       /\ entries' = entries \ {r}
       /\ target' = [target EXCEPT ![c] = r]
  /\ pc' = [pc EXCEPT ![c] = "removed"]
  /\ UNCHANGED <<key, active, inFlight, todo, closed>>

(* Fault: the registration is deactivated and nobody waits.                *)
ReturnAtOnce(t) ==
  /\ closed' = closed \cup {target[t]}
  /\ target' = [target EXCEPT ![t] = NoReg]
  /\ pc' = [pc EXCEPT ![t] = IF t = Owner THEN "draining" ELSE "idle"]

(* The loop of deactivate_and_wait, from the test of in_flight to the      *)
(* return or to the wait that releases the mutex.                          *)
ReturnOrWait(t) ==
  \/ /\ inFlight[target[t]] = 0
     /\ closed' = closed \cup {target[t]}
     /\ target' = [target EXCEPT ![t] = NoReg]
     /\ pc' = [pc EXCEPT ![t] = IF t = Owner THEN "draining" ELSE "idle"]
  \/ /\ inFlight[target[t]] # 0
     /\ pc' = [pc EXCEPT ![t] = "waiting"]
     /\ UNCHANGED <<closed, target>>

Deactivate(t) ==
  /\ pc[t] = "removed"
  /\ active' = [active EXCEPT ![target[t]] = FALSE]
  /\ ReturnOrWait(t)
  /\ UNCHANGED <<entries, key, inFlight, todo>>

Recheck(t) ==
  /\ pc[t] = "woken"
  /\ ReturnOrWait(t)
  /\ UNCHANGED <<entries, key, active, inFlight, todo>>

(* A condition variable may wake a waiter that nobody notified.            *)
SpuriousWake(t) ==
  /\ pc[t] = "waiting"
  /\ pc' = [pc EXCEPT ![t] = "woken"]
  /\ UNCHANGED <<entries, key, active, inFlight, target, todo, closed>>

(* matching: the registrations a message for the keys `ks` is handed to.   *)
Matching(ks) == {r \in entries : key[r] \in ks}

(* Fault: a job from an old snapshot begins although its registration is   *)
(* inactive by now.                                                        *)
BeginUnchecked(r) ==
  /\ key[r] # NoKey
  /\ inFlight[r] < MaxInFlight
  /\ inFlight' = [inFlight EXCEPT ![r] = @ + 1]
  /\ UNCHANGED <<entries, key, active, pc, target, todo, closed>>

(* begin: whoever kept a registration from Matching may try it at any      *)
(* later time; an inactive one answers None, which changes nothing.        *)
Begin(r) ==
  /\ active[r]
  /\ inFlight[r] < MaxInFlight
  /\ inFlight' = [inFlight EXCEPT ![r] = @ + 1]
  /\ UNCHANGED <<entries, key, active, pc, target, todo, closed>>

Notified(r) == {t \in Threads : pc[t] = "waiting" /\ target[t] = r}

(* Fault: the test for the last guard is made before the decrement.        *)
ReleaseSilently(r) ==
  /\ inFlight[r] > 0
  /\ inFlight' = [inFlight EXCEPT ![r] = @ - 1]
  /\ pc' = IF inFlight[r] = 0
             THEN [t \in Threads |-> IF t \in Notified(r) THEN "woken" ELSE pc[t]]
             ELSE pc
  /\ UNCHANGED <<entries, key, active, target, todo, closed>>

(* Drop of InFlight; the last one out notifies every waiter of r.          *)
Release(r) ==
  /\ inFlight[r] > 0
  /\ inFlight' = [inFlight EXCEPT ![r] = @ - 1]
  /\ pc' = IF inFlight[r] = 1
             THEN [t \in Threads |-> IF t \in Notified(r) THEN "woken" ELSE pc[t]]
             ELSE pc
  /\ UNCHANGED <<entries, key, active, target, todo, closed>>

(* deactivate_all: take the whole list, then deactivate one by one.        *)
TakeAll ==
  /\ pc[Owner] = "idle"
  /\ ~Borrowed
  /\ todo' = entries
  /\ entries' = {}
  /\ pc' = [pc EXCEPT ![Owner] = "draining"]
  /\ UNCHANGED <<key, active, inFlight, target, closed>>

DrainNext ==
  /\ pc[Owner] = "draining"
  /\ \E r \in todo :
       /\ todo' = todo \ {r}
       /\ target' = [target EXCEPT ![Owner] = r]
  /\ pc' = [pc EXCEPT ![Owner] = "removed"]
  /\ UNCHANGED <<entries, key, active, inFlight, closed>>

DrainDone ==
  /\ pc[Owner] = "draining"
  /\ todo = {}
  /\ pc' = [pc EXCEPT ![Owner] = "drained"]
  /\ UNCHANGED <<entries, key, active, inFlight, target, todo, closed>>

(* The transport is gone: the program goes on without it.                  *)
Dropped ==
  /\ pc[Owner] = "drained"
  /\ UNCHANGED registryVars

Next ==
  \/ \E c \in Callers, k \in Keys : Register(c, k) \/ Unregister(c, k)
  \/ \E t \in Threads : Deactivate(t) \/ Recheck(t) \/ SpuriousWake(t)
  \/ \E r \in Regs : Begin(r) \/ Release(r)
  \/ TakeAll \/ DrainNext \/ DrainDone \/ Dropped

Spec == Init /\ [][Next]_registryVars

(* Threads are scheduled, and a callback in progress ends at last.  Nobody *)
(* has to call anything, and no wakeup is assumed but the notified ones.   *)
Fairness ==
  /\ \A t \in Threads : WF_registryVars(Deactivate(t) \/ Recheck(t))
  /\ \A r \in Regs : WF_registryVars(Release(r))
  /\ WF_registryVars(DrainNext \/ DrainDone)

FairSpec == Spec /\ Fairness
-----------------------------------------------------------------------------
Closing == {"removed", "waiting", "woken"}

(* Types, and the bound on the in-flight counter.                          *)
TypeOK ==
  /\ entries \subseteq Regs
  /\ key \in [Regs -> Keys \cup {NoKey}]
  /\ active \in [Regs -> BOOLEAN]
  /\ inFlight \in [Regs -> 0..MaxInFlight]
  /\ pc \in [Threads -> Closing \cup {"idle", "draining", "drained"}]
  /\ target \in [Threads -> Regs \cup {NoReg}]
  /\ todo \subseteq Regs
  /\ closed \subseteq Regs

(* Once unregister (or the drop) has returned for a registration, no       *)
(* callback of it is in progress and none can start: it is inactive for    *)
(* good and no longer listed, whoever still holds a snapshot of it.        *)
ClosedIsSilent ==
  \A r \in closed : inFlight[r] = 0 /\ ~active[r] /\ r \notin entries

(* No thread sleeps on the condition variable once the callbacks it waits  *)
(* for are over: the notification of the last InFlight is never missed.    *)
NoLostWakeup ==
  \A t \in Threads : pc[t] = "waiting" => inFlight[target[t]] > 0

(* A registration is deactivated by one call only: two unregister calls    *)
(* for the same key, or an unregister and the drop, never both remove it.  *)
OneCloser ==
  \A t \in Threads :
    pc[t] \in Closing =>
      /\ target[t] \in Regs \ (entries \cup todo \cup closed)
      /\ \A u \in Threads \ {t} : target[u] # target[t]

(* The list never holds two entries with the same filters and listener,    *)
(* however the register and unregister calls of several threads interleave.*)
UniqueKeys ==
  \A r, s \in entries : key[r] = key[s] => r = s

(* unregister and deactivate_all return once the callbacks in progress     *)
(* have ended.                                                             *)
ClosingEnds ==
  \A t \in Threads : pc[t] \in Closing ~> pc[t] \notin Closing

(* The registry implements the contract: a registration is open from       *)
(* register to the return of deactivate_and_wait.                          *)
Phase(r) ==
  IF key[r] = NoKey THEN "unused" ELSE IF r \in closed THEN "closed" ELSE "open"

Contract == INSTANCE ListenerContract
              WITH phase <- [r \in Regs |-> Phase(r)], running <- inFlight

ContractSpec == Contract!Spec
=============================================================================
