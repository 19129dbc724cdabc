----------------------------- MODULE Reentrancy -----------------------------
(***************************************************************************)
(* Transport, with every call of the application placed on the kind of     *)
(* thread it is made on.  unregister and Drop block: deactivate_and_wait   *)
(* waits on a condition variable, join_worker joins a thread, and neither  *)
(* gives a tokio worker back meanwhile.  A call made by a task of the      *)
(* runtime therefore takes one of the workers that the callbacks need, and *)
(* one made inside a callback holds that callback up.                      *)
(*                                                                         *)
(* Each step is a step of Transport under a guard, so that its safety      *)
(* theorems hold here as well; what can be lost is progress.               *)
(***************************************************************************)
EXTENDS Transport

CONSTANTS Workers,      \* worker threads of the tokio runtime
          Placements    \* the placements to consider

Places == {"thread", "worker", "callback"}

ASSUME WorkersAssumption == Workers \in Nat \ {0}
ASSUME PlacementsAssumption == Placements \subseteq [R!Threads -> Places]

VARIABLE place          \* place[t]: what the calls of t are made on

placedVars == <<vars, place>>

(* t is in the middle of a call: of unregister, or of Drop.                *)
Calling(t) ==
  IF t = Owner THEN dropPc \notin {"alive", "dropped"} ELSE pc[t] # "idle"

(* Fault: the dispatcher is a task of the runtime, not a thread.           *)
OccupiedByDispatcher ==
  Cardinality({t \in R!Threads : place[t] = "worker" /\ Calling(t)})
    + (IF task = "polling" THEN 1 ELSE 0)
    + IF dispatcher \in {"watch", "join"} THEN 1 ELSE 0

(* The worker threads in use: by the poll of a callback, which includes    *)
(* the calls made in it, and by the calls of other tasks.                  *)
Occupied ==
  Cardinality({t \in R!Threads : place[t] = "worker" /\ Calling(t)})
    + IF task = "polling" THEN 1 ELSE 0

FreeWorker == Occupied < Workers

(* The callback is in the middle of a call.                                *)
Stalled == \E t \in R!Threads : place[t] = "callback" /\ Calling(t)

MayCall(t) ==
  \/ place[t] = "thread"
  \/ place[t] = "worker" /\ FreeWorker
  \/ place[t] = "callback" /\ task = "polling" /\ ~Stalled

PlacedInit == Init /\ place \in Placements

PlacedCalls ==
  \/ \E c \in Callers, k \in Keys :
       MayCall(c) /\ (Register(c, k) \/ Unregister(c, k))
  \/ \E t \in R!Threads : Deactivation(t) \/ SpuriousWake(t)
  \/ SendFails \/ RuntimeShutdown

PlacedPoll == FreeWorker /\ Poll

(* abort only schedules a task that awaits, and the shutdown of a runtime  *)
(* is the work of its workers: either way a worker drops the future.       *)
PlacedCancel == FreeWorker /\ Cancel

PlacedCallback ==
  PlacedPoll \/ PlacedCancel \/ (~Stalled /\ (Await \/ Return \/ Panic))

PlacedDrop == (MayCall(Owner) /\ DropStop) \/ Teardown \/ Dropped

PlacedNext ==
  /\ \/ PlacedCalls \/ (\E c \in Contents : Deliver(c)) \/ Polling \/ Dispatching
     \/ PlacedCallback \/ PlacedDrop
  /\ UNCHANGED place

PlacedSpec == PlacedInit /\ [][PlacedNext]_placedVars

(* Threads run; a poll of a callback returns unless it is inside a call; a *)
(* task that waits for a worker is reached when workers keep getting free. *)
PlacedFairSpec ==
  /\ PlacedSpec
  /\ ThreadsRun
  /\ WF_vars(~Stalled /\ (Await \/ Return \/ Panic))
  /\ SF_vars(PlacedCancel)

PlacedCallbacksEnd == SF_vars(PlacedPoll) /\ SF_vars(~Stalled /\ (Return \/ Panic))
-----------------------------------------------------------------------------
(* A callback unregisters its own listener.                                *)
SelfUnregister ==
  \E c \in Callers : place[c] = "callback" /\ pc[c] # "idle" /\ target[c] = job.reg

(* The uses of the transport that cannot block for ever: two workers if    *)
(* any task of the runtime unregisters or drops, however many do; no       *)
(* callback that unregisters itself, none that drops the transport.        *)
Prudent ==
  /\ (\E t \in R!Threads : place[t] = "worker") => Workers >= 2
  /\ place[Owner] # "callback"
  /\ ~SelfUnregister

(* In prudent use, threads never wait for each other in a circle: when one *)
(* waits for a registration (deactivate_and_wait), either another is on    *)
(* its way through the registry, or a callback is being polled or there is *)
(* a worker to poll or drop it.                                            *)
NoWaitCycle ==
  (Prudent /\ \E t \in R!Threads : pc[t] = "waiting") =>
    \/ \E t \in R!Threads : pc[t] \in {"removed", "woken"}
    \/ task = "polling" /\ ~Stalled
    \/ task = "pending" /\ FreeWorker

(* In prudent use, a drop never takes what it waits for away: as long as a *)
(* callback is in progress, its poll can return or there is a worker to    *)
(* drop it, in every join of Drop and not only in deactivate_all.          *)
DropLeavesWorker ==
  (Prudent /\ dropPc \notin {"alive", "dropped"} /\ Live) =>
    \/ task = "polling" /\ ~Stalled
    \/ task = "pending" /\ FreeWorker

(* In prudent use, unregister returns when callbacks complete, on whatever *)
(* threads the callers run.                                                *)
PrudentUnregisterReturns ==
  PlacedCallbacksEnd /\ []Prudent =>
    \A c \in Callers : pc[c] = "removed" ~> pc[c] = "idle"

(* In prudent use, Drop ends although callbacks may never complete.        *)
PrudentDropEnds == []Prudent => DropEnds
=============================================================================
