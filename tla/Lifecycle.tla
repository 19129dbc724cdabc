----------------------------- MODULE Lifecycle ------------------------------
(***************************************************************************)
(* Transports from construction to drop, over one participant factory:     *)
(* with_config step by step, with a failure at each; the two worker        *)
(* threads, either of which may die; wait_ready with its deadline; and     *)
(* Drop, on a thread of the application or on one of the workers.          *)
(*                                                                         *)
(* What a transport does with messages meanwhile is module Transport; what *)
(* remains of a worker here is that it runs, and why it ends.  A handle of *)
(* Dust DDS deletes nothing when it is dropped: a participant and what it  *)
(* contains live until the factory deletes them.                           *)
(***************************************************************************)
EXTENDS Naturals, FiniteSets

CONSTANTS Transports,
          Peers,        \* readers of other processes, which come and go
          Required,     \* bound: reader counts that wait_ready is asked for
          Timeouts,     \* bound: its timeouts, in sleeps of 10 ms
          MaxTime       \* bound: the clock, in the same unit

ASSUME PeersAssumption == Peers \cap Transports = {}
ASSUME BoundsAssumption ==
  Required \subseteq Nat /\ Timeouts \subseteq Nat /\ MaxTime \in Nat

Entities == {"topic", "publisher", "writer", "subscriber", "reader"}

(* The steps of with_config, each with the one that follows it.            *)
Following ==
  [validate |-> "participant", participant |-> "topic", topic |-> "publisher",
   publisher |-> "writer", writer |-> "subscriber", subscriber |-> "reader",
   reader |-> "dispatcher", dispatcher |-> "poller", poller |-> "alive"]
Building == DOMAIN Following
Dropping == {"joinPoller", "joinDispatcher", "deleteEntities", "deleteParticipant"}
Waiting == {"read", "test", "sleep"}
Over == {"failed", "dropped", "unwound"}

VARIABLES
  at,           \* where construction, life or drop of a transport is
  participants, \* transports whose participant the factory holds
  entities,     \* entities[i]: what the participant of i contains
  poller, dispatcher,   \* the worker threads: none, running, exited, panicked
  dropper,      \* the thread the last handle is dropped on
  panics,       \* DdsHealth.worker_panics
  teardown,     \* DdsHealth.teardown_errors
  matched,      \* matched[i]: the readers that the writer of i knows
  waiter,       \* the call of wait_ready on a transport
  clock         \* Instant::now()

lifeVars == <<at, participants, entities, poller, dispatcher, dropper, panics, teardown>>
waitVars == <<waiter, clock>>
vars == <<lifeVars, matched, waitVars>>

Idle == [pc |-> "idle", required |-> 0, deadline |-> 0, wake |-> 0, short |-> FALSE]

Init ==
  /\ at = [i \in Transports |-> "none"]
  /\ participants = {}
  /\ entities = [i \in Transports |-> {}]
  /\ poller = [i \in Transports |-> "none"]
  /\ dispatcher = [i \in Transports |-> "none"]
  /\ dropper = [i \in Transports |-> "application"]
  /\ panics = [i \in Transports |-> 0]
  /\ teardown = [i \in Transports |-> 0]
  /\ matched = [i \in Transports |-> {}]
  /\ waiter = [i \in Transports |-> Idle]
  /\ clock = 0

Go(i, next) == at' = [at EXCEPT ![i] = next]
-----------------------------------------------------------------------------
(* with_config.                                                            *)

Construct(i) ==
  /\ at[i] = "none"
  /\ Go(i, "validate")
  /\ UNCHANGED <<participants, entities, poller, dispatcher, dropper, panics,
                 teardown, matched, waitVars>>

(* What each step makes, when it succeeds.                                 *)
Build(i) ==
  LET step == at[i] IN
    /\ step \in Building
    /\ Go(i, Following[step])
    /\ participants' = IF step = "participant" THEN participants \cup {i} ELSE participants
    /\ entities' = [entities EXCEPT ![i] = @ \cup ({step} \cap Entities)]
    /\ dispatcher' = IF step = "dispatcher"
                       THEN [dispatcher EXCEPT ![i] = "running"] ELSE dispatcher
    /\ poller' = IF step = "poller" THEN [poller EXCEPT ![i] = "running"] ELSE poller
    /\ UNCHANGED <<dropper, panics, teardown, matched, waitVars>>

(* `?` returns the error and drops the handles: nothing is deleted.        *)
Fail(i) ==
  /\ at[i] \in Building
  /\ Go(i, "failed")
  /\ UNCHANGED <<participants, entities, poller, dispatcher, dropper, panics,
                 teardown, matched, waitVars>>
-----------------------------------------------------------------------------
(* The worker threads.                                                     *)

(* StopToken: set by Drop for good.                                        *)
Stopped(i) == at[i] \in Dropping \cup {"dropped", "unwound"}

(* A thread that is dropping the transport does nothing else.              *)
Busy(i, worker) == dropper[i] = worker /\ at[i] \in Dropping

PollerExits(i) ==
  /\ poller[i] = "running" /\ Stopped(i) /\ ~Busy(i, "poller")
  /\ poller' = [poller EXCEPT ![i] = "exited"]
  /\ UNCHANGED <<at, participants, entities, dispatcher, dropper, panics, teardown,
                 matched, waitVars>>

(* Fault: with_config leaks its sender when the poller does not start.     *)
SenderKept(i) == poller[i] = "running" \/ at[i] \in {"poller", "failed"}

(* The sender of the channel is with with_config, then with the poller.    *)
SenderLives(i) == at[i] = "poller" \/ poller[i] = "running"

DispatcherExits(i) ==
  /\ dispatcher[i] = "running" /\ ~SenderLives(i) /\ ~Busy(i, "dispatcher")
  /\ dispatcher' = [dispatcher EXCEPT ![i] = "exited"]
  /\ UNCHANGED <<at, participants, entities, poller, dropper, panics, teardown,
                 matched, waitVars>>

(* The destructor of a listener panics on the poller, which held the last  *)
(* reference to its registration; the payload of a callback's panic panics *)
(* when the dispatcher drops it.                                           *)
PollerPanics(i) ==
  /\ poller[i] = "running" /\ ~Busy(i, "poller")
  /\ poller' = [poller EXCEPT ![i] = "panicked"]
  /\ UNCHANGED <<at, participants, entities, dispatcher, dropper, panics, teardown,
                 matched, waitVars>>

DispatcherPanics(i) ==
  /\ dispatcher[i] = "running" /\ at[i] \notin {"poller", "failed"} /\ ~Busy(i, "dispatcher")
  /\ dispatcher' = [dispatcher EXCEPT ![i] = "panicked"]
  /\ UNCHANGED <<at, participants, entities, poller, dropper, panics, teardown,
                 matched, waitVars>>
-----------------------------------------------------------------------------
(* Drop.  A worker that lets go of a listener may let go of the last       *)
(* handle of the transport with it, and then Drop runs on that worker.     *)

Drop(i, on) ==
  /\ at[i] = "alive" /\ waiter[i].pc \notin Waiting
  /\ on = "poller" => poller[i] = "running"
  /\ on = "dispatcher" => dispatcher[i] = "running"
  /\ dropper' = [dropper EXCEPT ![i] = on]
  /\ Go(i, "joinPoller")
  /\ UNCHANGED <<participants, entities, poller, dispatcher, panics, teardown,
                 matched, waitVars>>

(* Fault: the result of join is ignored.                                   *)
JoinQuietly(i, here, worker, next) ==
  /\ at[i] = here /\ worker[i] # "running"
  /\ Go(i, next)
  /\ UNCHANGED <<participants, entities, poller, dispatcher, dropper, panics,
                 teardown, matched, waitVars>>

(* Fault: the worker is told to stop and not waited for.                   *)
JoinNever(i, here, worker, next) ==
  /\ at[i] = here
  /\ Go(i, next)
  /\ UNCHANGED <<participants, entities, poller, dispatcher, dropper, panics,
                 teardown, matched, waitVars>>

(* Fault: a worker that panicked is taken for one that still runs.         *)
JoinExited(i, here, worker, next) ==
  /\ at[i] = here /\ worker[i] = "exited"
  /\ Go(i, next)
  /\ UNCHANGED <<participants, entities, poller, dispatcher, dropper, panics,
                 teardown, matched, waitVars>>

(* join_worker.                                                            *)
Join(i, here, worker, next) ==
  /\ at[i] = here /\ worker[i] # "running"
  /\ Go(i, next)
  /\ panics' = [panics EXCEPT ![i] = @ + IF worker[i] = "panicked" THEN 1 ELSE 0]
  /\ UNCHANGED <<participants, entities, poller, dispatcher, dropper, teardown,
                 matched, waitVars>>

JoinPoller(i) == Join(i, "joinPoller", poller, "joinDispatcher")
JoinDispatcher(i) == Join(i, "joinDispatcher", dispatcher, "deleteEntities")

(* A thread that joins itself: std panics or waits for ever, as the        *)
(* platform has it.  The panic unwinds Drop.  It ends the poller, while    *)
(* the dispatcher catches it as a callback's and goes on.                  *)
JoinSelf(i) ==
  /\ \/ /\ at[i] = "joinPoller" /\ dropper[i] = "poller"
        /\ poller' = [poller EXCEPT ![i] = "panicked"]
     \/ /\ at[i] = "joinDispatcher" /\ dropper[i] = "dispatcher"
        /\ UNCHANGED poller
  /\ Go(i, "unwound")
  /\ UNCHANGED <<participants, entities, dispatcher, dropper, panics, teardown,
                 matched, waitVars>>

TeardownFails(i) == teardown' = [teardown EXCEPT ![i] = @ + 1]

(* delete_contained_entities may fail with part of the work done.          *)
DeleteEntities(i) ==
  /\ at[i] = "deleteEntities"
  /\ \/ entities' = [entities EXCEPT ![i] = {}] /\ UNCHANGED teardown
     \/ /\ \E rest \in SUBSET entities[i] : entities' = [entities EXCEPT ![i] = rest]
        /\ TeardownFails(i)
  /\ Go(i, "deleteParticipant")
  /\ UNCHANGED <<participants, poller, dispatcher, dropper, panics, matched, waitVars>>

(* Fault: only the first failure of the teardown is recorded.              *)
DeleteParticipantQuietly(i) ==
  /\ at[i] = "deleteParticipant"
  /\ participants' \in {participants, participants \ {i}}
  /\ Go(i, "dropped")
  /\ UNCHANGED <<entities, poller, dispatcher, dropper, panics, teardown, matched, waitVars>>

(* delete_participant refuses a participant that is not empty.             *)
DeleteParticipant(i) ==
  /\ at[i] = "deleteParticipant"
  /\ \/ entities[i] = {} /\ participants' = participants \ {i} /\ UNCHANGED teardown
     \/ TeardownFails(i) /\ UNCHANGED participants
  /\ Go(i, "dropped")
  /\ UNCHANGED <<entities, poller, dispatcher, dropper, panics, matched, waitVars>>
-----------------------------------------------------------------------------
(* Discovery, by DDS: a writer learns of readers and of their end.         *)

LocalReaders == {i \in Transports : "reader" \in entities[i]}

Match(i, j) ==
  /\ "writer" \in entities[i]
  /\ j \in Peers \cup LocalReaders
  /\ matched' = [matched EXCEPT ![i] = @ \cup {j}]
  /\ UNCHANGED <<lifeVars, waitVars>>

Enough(i, readers) == Cardinality(readers) >= waiter[i].required

Unmatch(i, j) ==
  /\ j \in matched[i] \ LocalReaders
  /\ matched' = [matched EXCEPT ![i] = @ \ {j}]
  /\ waiter' = [waiter EXCEPT ![i].short = @ \/ ~Enough(i, matched[i] \ {j})]
  /\ UNCHANGED <<lifeVars, clock>>
-----------------------------------------------------------------------------
(* wait_ready, on a thread that borrows the transport.                     *)

(* Fault: the deadline is tested before the first reading.                 *)
WaitReadyLate(i, n, timeout) ==
  /\ at[i] = "alive" /\ waiter[i].pc \notin Waiting
  /\ clock + timeout <= MaxTime
  /\ waiter' = [waiter EXCEPT ![i] =
       [pc |-> IF n = 0 THEN "ready" ELSE "test", required |-> n,
        deadline |-> clock + timeout, wake |-> clock,
        short |-> Cardinality(matched[i]) < n]]
  /\ UNCHANGED <<lifeVars, matched, clock>>

(* A count of zero is always there; a deadline is set once.                *)
WaitReady(i, n, timeout) ==
  /\ at[i] = "alive" /\ waiter[i].pc \notin Waiting
  /\ clock + timeout <= MaxTime
  /\ waiter' = [waiter EXCEPT ![i] =
       [pc |-> IF n = 0 THEN "ready" ELSE "read", required |-> n,
        deadline |-> clock + timeout, wake |-> clock,
        short |-> Cardinality(matched[i]) < n]]
  /\ UNCHANGED <<lifeVars, matched, clock>>

(* get_publication_matched_status, which may fail.                         *)
ReadCount(i) ==
  /\ waiter[i].pc = "read"
  /\ \/ waiter' = [waiter EXCEPT ![i].pc = IF Enough(i, matched[i]) THEN "ready" ELSE "test"]
     \/ waiter' = [waiter EXCEPT ![i].pc = "error"]
  /\ UNCHANGED <<lifeVars, matched, clock>>

TestDeadline(i) ==
  /\ waiter[i].pc = "test"
  /\ waiter' = [waiter EXCEPT ![i] =
       [@ EXCEPT !.pc = IF clock >= waiter[i].deadline THEN "timeout" ELSE "sleep",
                 !.wake = clock + 1]]
  /\ UNCHANGED <<lifeVars, matched, clock>>

(* Fault: each round waits for the whole timeout again.                    *)
WakeRearmed(i) ==
  /\ waiter[i].pc = "sleep" /\ clock >= waiter[i].wake
  /\ waiter' = [waiter EXCEPT ![i].pc = "read", ![i].deadline = clock + 1]
  /\ UNCHANGED <<lifeVars, matched, clock>>

Wake(i) ==
  /\ waiter[i].pc = "sleep" /\ clock >= waiter[i].wake
  /\ waiter' = [waiter EXCEPT ![i].pc = "read"]
  /\ UNCHANGED <<lifeVars, matched, clock>>

Tick ==
  /\ clock < MaxTime
  /\ clock' = clock + 1
  /\ UNCHANGED <<lifeVars, matched, waiter>>
-----------------------------------------------------------------------------
Workers(i) ==
  PollerExits(i) \/ DispatcherExits(i) \/ PollerPanics(i) \/ DispatcherPanics(i)

Teardown(i) ==
  JoinPoller(i) \/ JoinDispatcher(i) \/ DeleteEntities(i) \/ DeleteParticipant(i)

Wait(i) == ReadCount(i) \/ TestDeadline(i) \/ Wake(i)

Done == (\A i \in Transports : at[i] \in Over) /\ UNCHANGED vars

Next ==
  \/ \E i \in Transports :
       \/ Construct(i) \/ Build(i) \/ Fail(i)
       \/ Workers(i)
       \/ \E on \in {"application", "poller", "dispatcher"} : Drop(i, on)
       \/ Teardown(i) \/ JoinSelf(i)
       \/ \E j \in Transports \cup Peers : Match(i, j) \/ Unmatch(i, j)
       \/ \E n \in Required, timeout \in Timeouts : WaitReady(i, n, timeout)
       \/ Wait(i)
  \/ Tick \/ Done

Spec == Init /\ [][Next]_vars

(* Threads run and time passes.  No transport need be dropped, and nothing *)
(* is assumed of DDS, or of a thread that joins itself.                    *)
Fairness ==
  /\ \A i \in Transports :
       /\ WF_vars(Build(i) \/ Fail(i))
       /\ WF_vars(PollerExits(i)) /\ WF_vars(DispatcherExits(i))
       /\ WF_vars(Teardown(i))
       /\ WF_vars(Wait(i))
  /\ WF_vars(Tick)

FairSpec == Spec /\ Fairness
-----------------------------------------------------------------------------
Stages == Building \cup {"none", "alive"} \cup Dropping \cup Over
ThreadStates == {"none", "running", "exited", "panicked"}

TypeOK ==
  /\ at \in [Transports -> Stages]
  /\ participants \subseteq Transports
  /\ entities \in [Transports -> SUBSET Entities]
  /\ poller \in [Transports -> ThreadStates]
  /\ dispatcher \in [Transports -> ThreadStates]
  /\ dropper \in [Transports -> {"application", "poller", "dispatcher"}]
  /\ panics \in [Transports -> 0..2] /\ teardown \in [Transports -> 0..2]
  /\ matched \in [Transports -> SUBSET (Transports \cup Peers)]
  /\ waiter \in [Transports -> [pc : Waiting \cup {"idle", "ready", "timeout", "error"},
                                required : Nat, deadline : Nat, wake : Nat,
                                short : BOOLEAN]]
  /\ clock \in Nat

(* A drop that recorded no teardown error left nothing behind: whatever    *)
(* stays in the factory of a dropped transport is in its health counters.  *)
LeftoversReported ==
  \A i \in Transports :
    at[i] = "dropped" /\ teardown[i] = 0 => i \notin participants /\ entities[i] = {}

(* A worker that died, at any time and unnoticed until then, is counted by *)
(* the end of the drop: once each, and nothing else is.                    *)
DeadWorkersReported ==
  \A i \in Transports :
    at[i] = "dropped" =>
      panics[i] = Cardinality({w \in {<<"poller", poller[i]>>, <<"dispatcher", dispatcher[i]>>} :
                                 w[2] = "panicked"})

(* The reader that a poller takes from and the writer that wait_ready asks *)
(* exist, in a participant that exists.                                    *)
UsedEntitiesExist ==
  \A i \in Transports :
    /\ entities[i] # {} => i \in participants
    /\ poller[i] = "running" => "reader" \in entities[i]
    /\ waiter[i].pc \in Waiting => "writer" \in entities[i]

(* wait_ready never times out on a transport that had enough matched       *)
(* readers all the time, not even with a timeout of zero.                  *)
ReadyNeverTimesOut ==
  \A i \in Transports : waiter[i].pc = "timeout" => waiter[i].short

(* The steps that a wait can still make at most: three for every sleep     *)
(* that ends before the deadline, and the last reading with its test.      *)
TriesLeft(i) ==
  LET w == waiter[i]
      sleeps == IF w.wake < w.deadline THEN w.deadline - w.wake ELSE 0
  IN  CASE w.pc = "sleep" -> 3 * sleeps + 3
        [] w.pc = "read" -> 3 * sleeps + 2
        [] w.pc = "test" -> 3 * sleeps + 1
        [] OTHER -> 0

(* Each step of wait_ready brings its end nearer, and nothing puts it off: *)
(* not the readers that come and go, the other waits, or a late wakeup.    *)
WaitGetsOn ==
  [][\A i \in Transports : waiter[i].pc \in Waiting =>
       /\ TriesLeft(i)' <= TriesLeft(i)
       /\ Wait(i) => TriesLeft(i)' < TriesLeft(i)]_vars

(* wait_ready returns.                                                     *)
WaitEnds == \A i \in Transports : waiter[i].pc = "read" ~> waiter[i].pc \notin Waiting

(* A drop by the application ends, whichever of the workers has died.      *)
DropEnds ==
  \A i \in Transports :
    at[i] = "joinPoller" /\ dropper[i] = "application" ~> at[i] = "dropped"

(* No worker outlives its transport: a construction that failed after the  *)
(* dispatcher was started, and a drop that was unwound, leave entities     *)
(* behind but no thread.                                                   *)
ThreadsEnd ==
  \A i \in Transports :
    at[i] \in Over ~> poller[i] # "running" /\ dispatcher[i] # "running"
=============================================================================
