-------------------------- MODULE ReentrancyProofs --------------------------
(***************************************************************************)
(* Where a call is made decides when it proceeds, never what it does: the  *)
(* placed transport is a transport, and keeps what is proved of one.  On   *)
(* top of that, prudent use never waits in a circle, for any number of     *)
(* callers, workers and registrations: the dispatcher runs one callback at *)
(* a time, so that only one thread can be waiting for it, and this thread  *)
(* takes one worker at most.  A drop is alone in its calls, and leaves the *)
(* other worker to the callback it waits for.                              *)
(***************************************************************************)
EXTENDS Reentrancy, TransportProofs

(* Only the drop goes through deactivate_all.                              *)
CallersUnregister == \A c \in Callers : pc[c] \in R!Closing \cup {"idle"}

PInv == IInv /\ CallersUnregister /\ place \in Placements

LEMMA PlacedStep == [PlacedNext]_placedVars => [Next]_vars
  <1> SUFFICES ASSUME [PlacedNext]_placedVars PROVE [Next]_vars
    OBVIOUS
  <1>1. CASE PlacedCalls
    BY <1>1 DEF PlacedCalls, Next, Calls
  <1>2. CASE PlacedCallback
    BY <1>2 DEF PlacedCallback, PlacedPoll, PlacedCancel, Next, Callback
  <1>3. CASE PlacedDrop
    BY <1>3 DEF PlacedDrop, Next, Dropping
  <1>4. CASE (\E c \in Contents : Deliver(c)) \/ Polling \/ Dispatching
    BY <1>4 DEF Next
  <1>5. CASE UNCHANGED placedVars
    BY <1>5 DEF placedVars
  <1>6. QED
    BY <1>1, <1>2, <1>3, <1>4, <1>5 DEF PlacedNext

LEMMA CallersStep == Base /\ CallersUnregister /\ [Next]_vars => CallersUnregister'
  <1> SUFFICES ASSUME Base, CallersUnregister, [R!Next]_registryVars
               PROVE  CallersUnregister'
    BY RegistryStep
  <1> USE DEF CallersUnregister, R!Closing, R!Threads
  <1>0. Owner \notin Callers /\ pc \in [R!Threads -> R!Closing \cup {"idle", "draining", "drained"}]
    BY RegistryAssumption DEF Base, TypeOK, R!TypeOK
  <1>1. ASSUME NEW c \in Callers, NEW k \in Keys, R!Register(c, k) \/ R!Unregister(c, k)
        PROVE  CallersUnregister'
    BY <1>0, <1>1 DEF R!Register, R!Unregister
  <1>2. ASSUME NEW t \in R!Threads, R!Deactivate(t) \/ R!Recheck(t) \/ R!SpuriousWake(t)
        PROVE  CallersUnregister'
    BY <1>0, <1>2 DEF R!Deactivate, R!Recheck, R!SpuriousWake, R!ReturnOrWait
  <1>3. ASSUME NEW r \in Regs, R!Begin(r) \/ R!Release(r) PROVE CallersUnregister'
    BY <1>0, <1>3 DEF R!Begin, R!Release
  <1>4. CASE R!TakeAll \/ R!DrainNext \/ R!DrainDone
    BY <1>0, <1>4 DEF R!TakeAll, R!DrainNext, R!DrainDone
  <1>5. CASE R!Dropped \/ UNCHANGED registryVars
    BY <1>5 DEF R!Dropped, R!registryVars, registryVars
  <1>6. QED
    BY <1>1, <1>2, <1>3, <1>4, <1>5 DEF R!Next

LEMMA PInvInit == PlacedInit => PInv
  <1> SUFFICES ASSUME PlacedInit PROVE PInv
    OBVIOUS
  <1>1. IInv
    BY InitInv DEF PlacedInit
  <1>2. pc = [t \in R!Threads |-> "idle"]
    BY DEF PlacedInit, Init, R!Init
  <1>3. QED
    BY <1>1, <1>2 DEF PInv, PlacedInit, CallersUnregister, R!Threads

LEMMA PInvStep == PInv /\ [PlacedNext]_placedVars => PInv'
  <1> SUFFICES ASSUME PInv, [PlacedNext]_placedVars PROVE PInv'
    OBVIOUS
  <1>1. [Next]_vars /\ UNCHANGED place
    BY PlacedStep DEF PlacedNext, placedVars
  <1>2. QED
    BY <1>1, InvStep, CallersStep DEF PInv, IInv

(* The one who waits waits for the callback in progress.                   *)
LEMMA WaitsForCallback ==
  ASSUME PInv, NEW t \in R!Threads, pc[t] = "waiting"
  PROVE  Live /\ target[t] = job.reg
  <1>1. target[t] \in Regs /\ inFlight[target[t]] > 0
    BY DEF PInv, IInv, Base, RP!IInv, RP!OneCloser, RP!NoLostWakeup, RP!Closing,
       RP!Threads, R!Threads
  <1>2. inFlight[target[t]] = IF Live /\ job.reg = target[t] THEN 1 ELSE 0
    BY <1>1 DEF PInv, IInv, InFlightExact
  <1>3. QED
    BY <1>1, <1>2

(* When nobody is on the way through the registry, one who waits is the    *)
(* only one in the middle of a call.                                       *)
LEMMA WaitsAlone ==
  ASSUME PInv, NEW t \in R!Threads, pc[t] = "waiting",
         \A u \in R!Threads : pc[u] \notin {"removed", "woken"},
         NEW u \in R!Threads, Calling(u)
  PROVE  u = t
  <1>1. \A v \in R!Threads : pc[v] = "waiting" => v = t
    <2> SUFFICES ASSUME NEW v \in R!Threads, pc[v] = "waiting" PROVE v = t
      OBVIOUS
    <2>1. target[v] = target[t]
      BY WaitsForCallback
    <2>2. QED
      BY <2>1 DEF PInv, IInv, Base, RP!IInv, RP!OneCloser, RP!Closing, RP!Threads, R!Threads
  <1>2. CASE u \in Callers
    <2>1. pc[u] \in R!Closing
      BY <1>2, RegistryAssumption DEF Calling, PInv, CallersUnregister
    <2>2. QED
      BY <1>1, <2>1 DEF R!Closing
  <1>3. CASE u = Owner
    <2>1. stop
      BY <1>3 DEF Calling, PInv, IInv, Base, Control
    <2>2. \A c \in Callers : pc[c] = "idle"
      BY <2>1 DEF PInv, IInv, DropOrder
    <2>3. QED
      BY <1>3, <2>2 DEF R!Threads
  <1>4. QED
    BY <1>2, <1>3 DEF R!Threads

(* It takes no worker that the callback cannot do without.                 *)
LEMMA WorkerLeft ==
  ASSUME Prudent, task = "pending", NEW t \in R!Threads,
         \A u \in R!Threads : Calling(u) => u = t
  PROVE  FreeWorker
  <1> DEFINE taken == {u \in R!Threads : place[u] = "worker" /\ Calling(u)}
  <1>1. Workers \in Nat \ {0} /\ Occupied = Cardinality(taken) + 0
    BY WorkersAssumption DEF Occupied
  <1>2. CASE place[t] = "worker"
    <2>1. taken \subseteq {t} /\ IsFiniteSet({t}) /\ Cardinality({t}) = 1
      BY FS_Singleton
    <2>2. Cardinality(taken) \in Nat /\ Cardinality(taken) <= 1
      BY <2>1, FS_Subset, FS_CardinalityType
    <2>3. Workers >= 2
      BY <1>2 DEF Prudent
    <2>4. QED
      BY <1>1, <2>2, <2>3 DEF FreeWorker
  <1>3. CASE place[t] # "worker"
    <2>1. Cardinality(taken) = 0
      BY <1>3, FS_EmptySet
    <2>2. QED
      BY <1>1, <2>1 DEF FreeWorker
  <1>4. QED
    BY <1>2, <1>3

(* From the stop flag on, the drop is the only call there is.              *)
LEMMA DropAlone ==
  ASSUME PInv, dropPc # "alive", NEW u \in R!Threads, Calling(u)
  PROVE  u = Owner
  <1>1. \A c \in Callers : pc[c] = "idle" /\ c # Owner
    BY RegistryAssumption DEF PInv, IInv, Base, Control, DropOrder
  <1>2. QED
    BY <1>1 DEF Calling, R!Threads

LEMMA WorkerForDrop == PInv => DropLeavesWorker
  <1> SUFFICES ASSUME PInv, Prudent, dropPc # "alive", Live
               PROVE  \/ task = "polling" /\ ~Stalled
                      \/ task = "pending" /\ FreeWorker
    BY DEF DropLeavesWorker
  <1>1. Owner \in R!Threads /\ \A u \in R!Threads : Calling(u) => u = Owner
    BY DropAlone DEF R!Threads
  <1>2. ~Stalled
    BY <1>1 DEF Stalled, Prudent
  <1>3. task = "pending" => FreeWorker
    BY <1>1, WorkerLeft
  <1>4. QED
    BY <1>2, <1>3 DEF Live

LEMMA NoCycle == PInv => NoWaitCycle
  <1> SUFFICES ASSUME PInv, Prudent, NEW t \in R!Threads, pc[t] = "waiting",
                      \A u \in R!Threads : pc[u] \notin {"removed", "woken"}
               PROVE  \/ task = "polling" /\ ~Stalled
                      \/ task = "pending" /\ FreeWorker
    BY DEF NoWaitCycle
  <1>1. \A u \in R!Threads : Calling(u) => u = t
    BY WaitsAlone
  <1>2. Live /\ target[t] = job.reg
    BY WaitsForCallback
  <1>3. CASE task = "polling"
    <2> SUFFICES ASSUME NEW u \in R!Threads, place[u] = "callback", Calling(u) PROVE FALSE
      BY <1>3 DEF Stalled
    <2>1. u = t /\ t # Owner
      BY <1>1 DEF Prudent
    <2>2. QED
      BY <1>2, <2>1 DEF Prudent, SelfUnregister, R!Threads
  <1>4. CASE task = "pending"
    BY <1>1, <1>4, WorkerLeft
  <1>5. QED
    BY <1>2, <1>3, <1>4 DEF Live
-----------------------------------------------------------------------------
THEOREM PlacedInvariance == PlacedSpec => []PInv
  BY PInvInit, PInvStep, PTL DEF PlacedSpec

(* Wherever its calls are made, a transport is a transport: what is proved *)
(* of Transport's Spec (GuardsBalance to RegistryKept) holds of it.        *)
THEOREM PlacedIsTransport == PlacedSpec => Spec
  <1>1. PlacedInit => Init
    BY DEF PlacedInit
  <1>2. QED
    BY <1>1, PlacedStep, PTL DEF PlacedSpec, Spec

(* unregister, run_callback and the runtime: in prudent use, whoever waits *)
(* in deactivate_and_wait waits for something that can go on.              *)
THEOREM NobodyWaitsInACircle == PlacedSpec => []NoWaitCycle
  BY NoCycle, PlacedInvariance, PTL

(* Drop, its joins and the runtime: in prudent use a worker is left for    *)
(* the callback that the dispatcher has to see the end of.                 *)
THEOREM DropNeverStarves == PlacedSpec => []DropLeavesWorker
  BY WorkerForDrop, PlacedInvariance, PTL
=============================================================================
