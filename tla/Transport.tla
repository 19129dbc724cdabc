----------------------------- MODULE Transport ------------------------------
(***************************************************************************)
(* One transport instance at work: the poller thread, the bounded dispatch *)
(* queue, the dispatcher thread, the callback task on the tokio runtime,   *)
(* the threads that call register and unregister, and the drop.  The       *)
(* classic, owned and zero-copy transports (lib.rs, owned.rs,              *)
(* zero_copy.rs) run this same machine over three different sample types.  *)
(*                                                                         *)
(* The registry is the module Registry: a step here is a step of it or     *)
(* leaves its variables alone.  Two reads in a row of flags that are only  *)
(* ever set once (the stop flag, the end of the task) are one action.      *)
(***************************************************************************)
EXTENDS Naturals, Sequences, FiniteSets

CONSTANTS Regs, NoReg, Keys, NoKey, Callers, Owner, MaxInFlight,  \* as in Registry
          Contents,       \* [kind |-> .., to |-> ..]: what a sample may hold
          NoJob,          \* the dispatcher holds no job
          Capacity,       \* DdsConfig.dispatch_capacity
          MaxTake,        \* DdsConfig.max_samples_per_poll
          Depth,          \* DdsQos.history_depth
          MaxSamples,     \* bound: samples that arrive at the reader
          MaxDdsErrors,   \* bound: failures of take and write
          RuntimeMayStop  \* whether the application may shut its runtime down

Kinds == {"nodata", "own", "malformed", "routable"}
Jobs == [reg : Regs, id : 1..MaxSamples]

ASSUME RegistryAssumption ==
  NoReg \notin Regs /\ NoKey \notin Keys /\ Owner \notin Callers /\ MaxInFlight \in Nat \ {0}
ASSUME ContentsAssumption == Contents \subseteq [kind : Kinds, to : SUBSET Keys]
ASSUME NoJobAssumption == NoJob \notin Jobs
ASSUME ConfigAssumption == {Capacity, MaxTake, Depth} \subseteq Nat \ {0}
ASSUME BoundsAssumption ==
  {MaxSamples, MaxDdsErrors} \subseteq Nat /\ RuntimeMayStop \in BOOLEAN

VARIABLES
  entries, key, active, inFlight, pc, target, todo, closed,  \* as in Registry
  reader,       \* the DDS reader's history: samples received and not taken
  arrived,      \* number of samples that have arrived so far
  stop,         \* StopToken
  poller,       \* where the poller thread is
  batch,        \* samples of the last take not yet dealt with
  snap,         \* registrations Head(batch) still has to be submitted for
  queue,        \* the dispatch channel
  dispatcher,   \* where the dispatcher thread is
  job,          \* the job the dispatcher took, or NoJob
  task,         \* state of the callback task of that job
  aborted,      \* task.abort() was called
  dropPc,       \* where Drop is
  runtimeUp,    \* the tokio runtime accepts and polls tasks
  health,       \* the counters of DdsHealth
  last,         \* history: last[r] is the last message r was called with
  tally         \* history: what became of the jobs, and the panics in them

registryVars == <<entries, key, active, inFlight, pc, target, todo, closed>>
pollerVars == <<poller, batch, snap>>
taskVars == <<task, aborted>>
dispatcherVars == <<dispatcher, job>>
historyVars == <<last, tally>>
vars == <<registryVars, reader, arrived, stop, pollerVars, queue, dispatcherVars,
          taskVars, dropPc, runtimeUp, health, historyVars>>

R == INSTANCE Registry

(* The states of a worker thread that has ended, by itself or by a panic.  *)
Over == {"exited", "panicked"}

Counters == {"dds", "malformed", "drops", "panics", "workers", "teardown"}
Tallied == {"matched", "begun", "refused", "lost", "panicked", "unwound"}

Record(kind) == health' = [health EXCEPT ![kind] = @ + 1]
Count(what, n) == tally' = [tally EXCEPT ![what] = @ + n]

Init ==
  /\ R!Init
  /\ reader = <<>> /\ arrived = 0
  /\ stop = FALSE
  /\ poller = "wait" /\ batch = <<>> /\ snap = {}
  /\ queue = <<>>
  /\ dispatcher = "recv" /\ job = NoJob
  /\ task = "none" /\ aborted = FALSE
  /\ dropPc = "alive"
  /\ runtimeUp = TRUE
  /\ health = [k \in Counters |-> 0]
  /\ last = [r \in Regs |-> 0]
  /\ tally = [k \in Tallied |-> 0]
-----------------------------------------------------------------------------
(* Calls of the application.                                               *)

Register(c, k) ==
  /\ dropPc = "alive"
  /\ R!Register(c, k)
  /\ UNCHANGED <<reader, arrived, stop, pollerVars, queue, dispatcherVars,
                 taskVars, dropPc, runtimeUp, health, historyVars>>

Unregister(c, k) ==
  /\ dropPc = "alive"
  /\ R!Unregister(c, k)
  /\ UNCHANGED <<reader, arrived, stop, pollerVars, queue, dispatcherVars,
                 taskVars, dropPc, runtimeUp, health, historyVars>>

(* deactivate_and_wait, called by unregister or by Drop.                   *)
Deactivation(t) ==
  /\ R!Deactivate(t) \/ R!Recheck(t)
  /\ UNCHANGED <<reader, arrived, stop, pollerVars, queue, dispatcherVars,
                 taskVars, dropPc, runtimeUp, health, historyVars>>

SpuriousWake(t) ==
  /\ R!SpuriousWake(t)
  /\ UNCHANGED <<reader, arrived, stop, pollerVars, queue, dispatcherVars,
                 taskVars, dropPc, runtimeUp, health, historyVars>>

(* send: a failed write is recorded.  One that succeeds comes back to this *)
(* transport's own reader as a sample of kind "own" (Deliver).             *)
SendFails ==
  /\ dropPc = "alive"
  /\ health["dds"] < MaxDdsErrors
  /\ Record("dds")
  /\ UNCHANGED <<registryVars, reader, arrived, stop, pollerVars, queue,
                 dispatcherVars, taskVars, dropPc, runtimeUp, historyVars>>

(* The application shuts its runtime down, or drops it, at any time.       *)
RuntimeShutdown ==
  /\ RuntimeMayStop /\ runtimeUp
  /\ runtimeUp' = FALSE
  /\ UNCHANGED <<registryVars, reader, arrived, stop, pollerVars, queue,
                 dispatcherVars, taskVars, dropPc, health, historyVars>>
-----------------------------------------------------------------------------
(* The DDS reader and the poller thread.                                   *)

(* A sample arrives: with KEEP_LAST the oldest one makes room for it.      *)
Deliver(c) ==
  /\ poller \notin Over
  /\ arrived < MaxSamples
  /\ arrived' = arrived + 1
  /\ reader' = Append(IF Len(reader) = Depth THEN Tail(reader) ELSE reader,
                      [id |-> arrived + 1, kind |-> c.kind, to |-> c.to])
  /\ UNCHANGED <<registryVars, stop, pollerVars, queue, dispatcherVars, taskVars,
                 dropPc, runtimeUp, health, historyVars>>

(* Fault: what has arrived is still dealt with before the poller exits.    *)
PollWaitForLast ==
  /\ poller = "wait"
  /\ poller' = IF stop /\ reader = <<>> THEN "exited" ELSE "take"
  /\ UNCHANGED <<registryVars, reader, arrived, stop, batch, snap, queue,
                 dispatcherVars, taskVars, dropPc, runtimeUp, health, historyVars>>

(* poll_stop.wait: the interval is over, or the flag is set.               *)
PollWait ==
  /\ poller = "wait"
  /\ poller' = IF stop THEN "exited" ELSE "take"
  /\ UNCHANGED <<registryVars, reader, arrived, stop, batch, snap, queue,
                 dispatcherVars, taskVars, dropPc, runtimeUp, health, historyVars>>

Least(m, n) == IF m < n THEN m ELSE n

(* Fault: the reader is read where it should be taken from.                *)
TakeRepeats ==
  /\ poller = "take"
  /\ LET n == Least(MaxTake, Len(reader)) IN
       /\ batch' = SubSeq(reader, 1, n)
       /\ poller' = IF n = 0 THEN "wait" ELSE "batch"
  /\ UNCHANGED <<registryVars, reader, arrived, stop, snap, queue, dispatcherVars,
                 taskVars, dropPc, runtimeUp, health, historyVars>>

Take ==
  /\ poller = "take"
  /\ LET n == Least(MaxTake, Len(reader)) IN
       /\ batch' = SubSeq(reader, 1, n)
       /\ reader' = SubSeq(reader, n + 1, Len(reader))
       /\ poller' = IF n = 0 THEN "wait" ELSE "batch"
  /\ UNCHANGED <<registryVars, arrived, stop, snap, queue, dispatcherVars, taskVars,
                 dropPc, runtimeUp, health, historyVars>>

TakeFails ==
  /\ poller = "take"
  /\ health["dds"] < MaxDdsErrors
  /\ Record("dds")
  /\ poller' = "wait"
  /\ UNCHANGED <<registryVars, reader, arrived, stop, batch, snap, queue,
                 dispatcherVars, taskVars, dropPc, runtimeUp, historyVars>>

(* Go on with the registrations rs for Head(batch), or, when there are     *)
(* none left, with the next sample or the next wait.                       *)
GoOn(rs) ==
  /\ snap' = rs
  /\ batch' = IF rs = {} THEN Tail(batch) ELSE batch
  /\ poller' = IF rs # {} THEN "fanout"
               ELSE IF Len(batch) = 1 THEN "wait" ELSE "batch"

SkipSample ==
  /\ poller = "batch"
  /\ Head(batch).kind \in {"nodata", "own"}
  /\ GoOn({})
  /\ UNCHANGED <<registryVars, reader, arrived, stop, queue, dispatcherVars, taskVars,
                 dropPc, runtimeUp, health, historyVars>>

RejectSample ==
  /\ poller = "batch"
  /\ Head(batch).kind = "malformed"
  /\ Record("malformed")
  /\ GoOn({})
  /\ UNCHANGED <<registryVars, reader, arrived, stop, queue, dispatcherVars, taskVars,
                 dropPc, runtimeUp, historyVars>>

RouteSample ==
  /\ poller = "batch"
  /\ Head(batch).kind = "routable"
  /\ LET rs == R!Matching(Head(batch).to) IN
       GoOn(rs) /\ Count("matched", Cardinality(rs))
  /\ UNCHANGED <<registryVars, reader, arrived, stop, queue, dispatcherVars, taskVars,
                 dropPc, runtimeUp, health, last>>

(* try_send takes a job while there is room and somebody to receive it.    *)
Accepting == Len(queue) < Capacity /\ dispatcher # "panicked"

(* Fault: the channel is unbounded.                                        *)
SubmitUnbounded(r) ==
  /\ poller = "fanout" /\ r \in snap
  /\ queue' = Append(queue, [reg |-> r, id |-> Head(batch).id])
  /\ GoOn(snap \ {r})
  /\ UNCHANGED <<registryVars, reader, arrived, stop, dispatcherVars, taskVars,
                 dropPc, runtimeUp, health, historyVars>>

(* Fault: the result of try_send is ignored.                               *)
SubmitSilently(r) ==
  /\ poller = "fanout" /\ r \in snap
  /\ queue' = IF Accepting
                THEN Append(queue, [reg |-> r, id |-> Head(batch).id])
                ELSE queue
  /\ GoOn(snap \ {r})
  /\ UNCHANGED <<registryVars, reader, arrived, stop, dispatcherVars, taskVars,
                 dropPc, runtimeUp, health, historyVars>>

(* A list, a call or a queued job has a handle of the registration.        *)
Kept(r) ==
  \/ r \in entries \cup todo
  \/ \E t \in R!Threads : target[t] = r
  \/ \E i \in DOMAIN queue : queue[i].reg = r

(* The destructor of r's listener panics on the poller, which had the last *)
(* handle.  The thread ends, and the rest of the fan-out with it.          *)
PollerUnwinds(r) ==
  /\ ~Kept(r) /\ ~(job # NoJob /\ job.reg = r)
  /\ poller' = "panicked" /\ batch' = <<>> /\ snap' = {}
  /\ Count("lost", Cardinality(snap \ {r}))

(* submit: the poller never waits for the dispatcher.  A job that finds    *)
(* the queue full, or its receiver gone, is counted and then dropped.      *)
Submit(r) ==
  /\ poller = "fanout" /\ r \in snap
  /\ \/ /\ Accepting
        /\ queue' = Append(queue, [reg |-> r, id |-> Head(batch).id])
        /\ GoOn(snap \ {r})
        /\ UNCHANGED <<health, tally>>
     \/ /\ ~Accepting
        /\ Record("drops")
        /\ (GoOn(snap \ {r}) /\ UNCHANGED tally) \/ PollerUnwinds(r)
        /\ UNCHANGED queue
  /\ UNCHANGED <<registryVars, reader, arrived, stop, dispatcherVars, taskVars,
                 dropPc, runtimeUp, last>>
-----------------------------------------------------------------------------
(* The dispatcher thread: one job, hence one callback, at a time.          *)

Recv ==
  /\ dispatcher = "recv" /\ queue # <<>>
  /\ job' = Head(queue)
  /\ queue' = Tail(queue)
  /\ dispatcher' = "begin"
  /\ UNCHANGED <<registryVars, reader, arrived, stop, pollerVars, taskVars, dropPc,
                 runtimeUp, health, historyVars>>

(* The sender lives in the poller: recv fails when it is gone and the      *)
(* queue is empty.                                                         *)
RecvFails ==
  /\ dispatcher = "recv" /\ queue = <<>> /\ poller \in Over
  /\ dispatcher' = "exited"
  /\ UNCHANGED <<registryVars, reader, arrived, stop, pollerVars, queue, job, taskVars,
                 dropPc, runtimeUp, health, historyVars>>

(* registration.begin() grants the job: run_callback spawns its task.      *)
BeginJob ==
  /\ dispatcher = "begin"
  /\ R!Begin(job.reg)
  /\ task' = "pending" /\ aborted' = FALSE
  /\ dispatcher' = "watch"
  /\ last' = [last EXCEPT ![job.reg] = job.id]
  /\ Count("begun", 1)
  /\ UNCHANGED <<reader, arrived, stop, pollerVars, queue, job, dropPc, runtimeUp,
                 health>>

(* begin() answered None: the registration was closed after the match.     *)
RefuseJob ==
  /\ dispatcher = "begin"
  /\ ~active[job.reg]
  /\ dispatcher' = "letgo"
  /\ Count("refused", 1)
  /\ UNCHANGED <<registryVars, reader, arrived, stop, pollerVars, queue, job, taskVars,
                 dropPc, runtimeUp, health, last>>

Finished == task \in {"done", "panicked", "cancelled"}

(* Fault: the watch loop tests the stop flag only.                         *)
WatchStop ==
  /\ dispatcher = "watch" /\ stop
  /\ aborted' = ~Finished
  /\ dispatcher' = "join"
  /\ UNCHANGED <<registryVars, reader, arrived, stop, pollerVars, queue, job, task,
                 dropPc, runtimeUp, health, historyVars>>

(* Fault: the stop flag does not abort the task.                           *)
WatchOnly ==
  /\ dispatcher = "watch"
  /\ Finished \/ stop
  /\ dispatcher' = "join"
  /\ UNCHANGED <<registryVars, reader, arrived, stop, pollerVars, queue, job, taskVars,
                 dropPc, runtimeUp, health, historyVars>>

(* The watch loop ends with the task or with the stop flag, which aborts a *)
(* task that is not finished.                                              *)
Watch ==
  /\ dispatcher = "watch"
  /\ Finished \/ stop
  /\ aborted' = ~Finished
  /\ dispatcher' = "join"
  /\ UNCHANGED <<registryVars, reader, arrived, stop, pollerVars, queue, job, task,
                 dropPc, runtimeUp, health, historyVars>>

(* The job panics outside its task, n times in a destructor.  catch_unwind *)
(* has that recorded, unless the payload of the panic panics when it is    *)
(* dropped: the thread ends, and with the receiver the jobs in the queue.  *)
Unwind(n) ==
  /\ job' = NoJob
  /\ \/ /\ dispatcher' = "recv"
        /\ Record("panics") /\ Count("unwound", n)
        /\ UNCHANGED queue
     \/ /\ dispatcher' = "panicked"
        /\ queue' = <<>>
        /\ tally' = [tally EXCEPT !["unwound"] = @ + n, !["lost"] = @ + Len(queue)]
        /\ UNCHANGED health

(* runtime.block_on(task): any join error counts as a panic, unless the    *)
(* transport is stopping.  The error is dropped before that, and the       *)
(* payload of a callback's panic may panic in its turn.                    *)
Join ==
  /\ dispatcher = "join" /\ Finished
  /\ task' = "none" /\ aborted' = FALSE
  /\ \/ /\ IF task # "done" /\ ~stop THEN Record("panics") ELSE UNCHANGED health
        /\ dispatcher' = "letgo"
        /\ UNCHANGED <<queue, job, tally>>
     \/ task = "panicked" /\ Unwind(0)
  /\ UNCHANGED <<registryVars, reader, arrived, stop, pollerVars, dropPc, runtimeUp,
                 last>>

(* Fault: the result of catch_unwind is ignored.                           *)
LetGoQuietly ==
  /\ dispatcher = "letgo"
  /\ dispatcher' = "recv" /\ job' = NoJob
  /\ \/ UNCHANGED tally
     \/ ~Kept(job.reg) /\ job.reg \notin snap /\ Count("unwound", 1)
  /\ UNCHANGED <<registryVars, reader, arrived, stop, pollerVars, queue, taskVars,
                 dropPc, runtimeUp, health, last>>

(* The job returns and drops its handle of the registration.  If that was  *)
(* the last one, the destructor of the listener runs, and may panic.       *)
LetGo ==
  /\ dispatcher = "letgo"
  /\ \/ dispatcher' = "recv" /\ job' = NoJob /\ UNCHANGED <<queue, health, tally>>
     \/ ~Kept(job.reg) /\ job.reg \notin snap /\ Unwind(1)
  /\ UNCHANGED <<registryVars, reader, arrived, stop, pollerVars, taskVars, dropPc,
                 runtimeUp, last>>
-----------------------------------------------------------------------------
(* The tokio runtime and the callback in it.                               *)

Poll ==
  /\ task = "pending" /\ ~aborted /\ runtimeUp
  /\ task' = "polling"
  /\ UNCHANGED <<registryVars, reader, arrived, stop, pollerVars, queue,
                 dispatcherVars, aborted, dropPc, runtimeUp, health, historyVars>>

(* The callback awaits something: only here can it be cancelled.           *)
Await ==
  /\ task = "polling"
  /\ task' = "pending"
  /\ UNCHANGED <<registryVars, reader, arrived, stop, pollerVars, queue,
                 dispatcherVars, aborted, dropPc, runtimeUp, health, historyVars>>

(* However the future ends, its InFlight guard is dropped with it.         *)
Return ==
  /\ task = "polling"
  /\ R!Release(job.reg)
  /\ task' = "done"
  /\ UNCHANGED <<reader, arrived, stop, pollerVars, queue, dispatcherVars, aborted,
                 dropPc, runtimeUp, health, historyVars>>

(* Fault: the guard is given back after the await, not by unwinding.       *)
PanicLeaks ==
  /\ task = "polling"
  /\ task' = "panicked"
  /\ Count("panicked", 1)
  /\ UNCHANGED <<registryVars, reader, arrived, stop, pollerVars, queue,
                 dispatcherVars, aborted, dropPc, runtimeUp, health, last>>

Panic ==
  /\ task = "polling"
  /\ R!Release(job.reg)
  /\ task' = "panicked"
  /\ Count("panicked", 1)
  /\ UNCHANGED <<reader, arrived, stop, pollerVars, queue, dispatcherVars, aborted,
                 dropPc, runtimeUp, health, last>>

(* Fault: a cancelled callback keeps its guard.                            *)
CancelLeaks ==
  /\ task = "pending" /\ (aborted \/ ~runtimeUp)
  /\ task' = "cancelled"
  /\ UNCHANGED <<registryVars, reader, arrived, stop, pollerVars, queue,
                 dispatcherVars, aborted, dropPc, runtimeUp, health, historyVars>>

(* A task at an await, or not yet polled, is dropped when it was aborted   *)
(* and when its runtime is shut down.                                      *)
Cancel ==
  /\ task = "pending" /\ (aborted \/ ~runtimeUp)
  /\ R!Release(job.reg)
  /\ task' = "cancelled"
  /\ UNCHANGED <<reader, arrived, stop, pollerVars, queue, dispatcherVars, aborted,
                 dropPc, runtimeUp, health, historyVars>>
-----------------------------------------------------------------------------
(* Drop, on the thread that owned the transport last.                      *)

DropStop ==
  /\ dropPc = "alive" /\ ~R!Borrowed
  /\ stop' = TRUE
  /\ dropPc' = "joinPoller"
  /\ UNCHANGED <<registryVars, reader, arrived, pollerVars, queue, dispatcherVars,
                 taskVars, runtimeUp, health, historyVars>>

(* join_worker: a worker that panicked is recorded.                        *)
JoinWorker(worker) ==
  /\ worker \in Over
  /\ IF worker = "panicked" THEN Record("workers") ELSE UNCHANGED health

JoinPoller ==
  /\ dropPc = "joinPoller" /\ JoinWorker(poller)
  /\ R!TakeAll
  /\ dropPc' = "drain"
  /\ UNCHANGED <<reader, arrived, stop, pollerVars, queue, dispatcherVars, taskVars,
                 runtimeUp, historyVars>>

DrainNext ==
  /\ dropPc = "drain"
  /\ R!DrainNext
  /\ UNCHANGED <<reader, arrived, stop, pollerVars, queue, dispatcherVars,
                 taskVars, dropPc, runtimeUp, health, historyVars>>

DrainDone ==
  /\ dropPc = "drain"
  /\ R!DrainDone
  /\ dropPc' = "joinDispatcher"
  /\ UNCHANGED <<reader, arrived, stop, pollerVars, queue, dispatcherVars, taskVars,
                 runtimeUp, health, historyVars>>

(* Fault: the dispatcher is detached.                                      *)
DetachDispatcher ==
  /\ dropPc = "joinDispatcher"
  /\ dropPc' = "deleteEntities"
  /\ UNCHANGED <<registryVars, reader, arrived, stop, pollerVars, queue,
                 dispatcherVars, taskVars, runtimeUp, health, historyVars>>

JoinDispatcher ==
  /\ dropPc = "joinDispatcher" /\ JoinWorker(dispatcher)
  /\ dropPc' = "deleteEntities"
  /\ UNCHANGED <<registryVars, reader, arrived, stop, pollerVars, queue,
                 dispatcherVars, taskVars, runtimeUp, historyVars>>

(* delete_contained_entities, then delete_participant: a failure is        *)
(* recorded and does not stop the drop.                                    *)
Delete(here, next) ==
  /\ dropPc = here
  /\ Record("teardown") \/ UNCHANGED health
  /\ dropPc' = next
  /\ UNCHANGED <<registryVars, reader, arrived, stop, pollerVars, queue,
                 dispatcherVars, taskVars, runtimeUp, historyVars>>

DeleteEntities == Delete("deleteEntities", "deleteParticipant")
DeleteParticipant == Delete("deleteParticipant", "dropped")

Dropped == dropPc = "dropped" /\ UNCHANGED vars
-----------------------------------------------------------------------------
Calls ==
  \/ \E c \in Callers, k \in Keys : Register(c, k) \/ Unregister(c, k)
  \/ \E t \in R!Threads : Deactivation(t) \/ SpuriousWake(t)
  \/ SendFails \/ RuntimeShutdown

Polling ==
  PollWait \/ Take \/ TakeFails \/ SkipSample \/ RejectSample \/ RouteSample
  \/ \E r \in Regs : Submit(r)

Dispatching == Recv \/ RecvFails \/ BeginJob \/ RefuseJob \/ Watch \/ Join \/ LetGo

Callback == Poll \/ Await \/ Return \/ Panic \/ Cancel

Teardown ==
  JoinPoller \/ DrainNext \/ DrainDone \/ JoinDispatcher \/ DeleteEntities
  \/ DeleteParticipant

Dropping == DropStop \/ Teardown \/ Dropped

Next ==
  Calls \/ (\E c \in Contents : Deliver(c)) \/ Polling \/ Dispatching \/ Callback
  \/ Dropping

Spec == Init /\ [][Next]_vars

(* Threads are scheduled; a take or write that keeps failing is not.       *)
ThreadsRun ==
  /\ WF_vars(PollWait) /\ WF_vars(Take)
  /\ WF_vars(SkipSample \/ RejectSample \/ RouteSample)
  /\ WF_vars(\E r \in Regs : Submit(r))
  /\ WF_vars(Dispatching)
  /\ \A t \in R!Threads : WF_vars(Deactivation(t))
  /\ WF_vars(Teardown)

(* A poll of a callback returns, and a cancelled task is dropped.  A       *)
(* callback need not ever complete.                                        *)
Fairness == ThreadsRun /\ WF_vars(Await \/ Return \/ Panic) /\ WF_vars(Cancel)

FairSpec == Spec /\ Fairness

(* What an application may promise on top of it: a callback that awaits is *)
(* woken and completes at last.                                            *)
CallbacksEnd == WF_vars(Poll) /\ SF_vars(Return \/ Panic)
-----------------------------------------------------------------------------
Live == task \in {"pending", "polling"}
Sample == [id : 1..MaxSamples, kind : Kinds, to : SUBSET Keys]

PollerTypes ==
  /\ reader \in Seq(Sample) /\ Len(reader) <= Depth
  /\ arrived \in 0..MaxSamples
  /\ poller \in {"wait", "take", "batch", "fanout"} \cup Over
  /\ batch \in Seq(Sample) /\ Len(batch) <= MaxTake
  /\ snap \subseteq Regs

DispatcherTypes ==
  /\ queue \in Seq(Jobs) /\ Len(queue) <= Capacity
  /\ dispatcher \in {"recv", "begin", "watch", "join", "letgo"} \cup Over
  /\ job \in Jobs \cup {NoJob}
  /\ task \in {"none", "pending", "polling", "done", "panicked", "cancelled"}
  /\ aborted \in BOOLEAN

DropTypes ==
  /\ stop \in BOOLEAN /\ runtimeUp \in BOOLEAN
  /\ dropPc \in {"alive", "joinPoller", "drain", "joinDispatcher",
                 "deleteEntities", "deleteParticipant", "dropped"}

RecordTypes ==
  /\ health \in [Counters -> Nat]
  /\ last \in [Regs -> 0..MaxSamples]
  /\ tally \in [Tallied -> Nat]

(* Types, the registry's among them, and the bounds of the queues.         *)
TypeOK ==
  R!TypeOK /\ PollerTypes /\ DispatcherTypes /\ DropTypes /\ RecordTypes

(* The in-flight counter of a registration is exactly the callback that    *)
(* the one dispatcher has running: a task that returned, panicked or was   *)
(* cancelled gave its guard back, and no second callback is started.       *)
InFlightExact ==
  \A r \in Regs : inFlight[r] = IF Live /\ job.reg = r THEN 1 ELSE 0

(* No job gets lost: every match of a sample with a registration is still  *)
(* on its way, or was begun, refused, or dropped and counted in health; or *)
(* a worker thread died, and its jobs with it.                             *)
NoJobLost ==
  /\ tally["matched"] =
       Cardinality(snap) + Len(queue) + (IF dispatcher = "begin" THEN 1 ELSE 0)
         + tally["begun"] + tally["refused"] + tally["lost"] + health["drops"]
  /\ tally["lost"] > 0 => "panicked" \in {poller, dispatcher}

(* While transport and runtime are up, the callback panics in the health   *)
(* counters are the panics in jobs that happened, be it in the callback or *)
(* in the destructor of a listener, but for the one being joined and the   *)
(* one the dispatcher died of.  A destructor's counts when stopping, too.  *)
PanicsCounted ==
  LET fatal == IF dispatcher = "panicked" THEN 1 ELSE 0 IN
    /\ runtimeUp /\ ~stop =>
         tally["panicked"] + tally["unwound"] =
           health["panics"] + fatal + IF task = "panicked" THEN 1 ELSE 0
    /\ tally["unwound"] <= health["panics"] + fatal

(* DDS entities are deleted only when nothing can use them or call a       *)
(* listener any more: both workers have ended, no job is left behind, no   *)
(* callback runs and no registration could still grant one.                *)
TeardownIsLast ==
  dropPc \in {"deleteEntities", "deleteParticipant", "dropped"} =>
    /\ poller \in Over /\ dispatcher \in Over
    /\ queue = <<>> /\ batch = <<>>
    /\ ~Live
    /\ entries = {} /\ \A r \in Regs : ~active[r] /\ inFlight[r] = 0

(* "Callback panics caught by the dispatcher": the counter never exceeds   *)
(* the panics there were (HealthSnapshot.callback_panics, runtime.rs).     *)
OnlyPanicsCounted == health["panics"] <= tally["panicked"] + tally["unwound"]

(* The transport implements the registry on its own.                       *)
RegistrySpec == R!Spec

(* One callback at a time, in the order of arrival, at most once, and only *)
(* between register and the return of unregister or of the drop.           *)
Mailbox == INSTANCE Delivery
             WITH phase <- [r \in Regs |-> R!Phase(r)],
                  current <- IF Live THEN job.reg ELSE NoReg

MailboxSpec == Mailbox!Spec

(* What Drop waits for gets on.  In deactivate_all it waits for the one    *)
(* callback in progress; and that callback, for which the dispatcher waits *)
(* as well, is being polled, or is aborted or about to be.                 *)
DropGetsOn ==
  /\ pc[Owner] = "waiting" => Live
  /\ stop /\ Live => task = "polling" \/ aborted \/ dispatcher = "watch"

(* The steps that the poller and the dispatcher can still make at most,    *)
(* once the stop flag is set: a sample is one, and a fan-out of a job for  *)
(* every entry; a job is nine, from its submission to its return.          *)
SampleWork == 1 + 9 * Cardinality(entries)

PollerWork ==
  CASE poller \in Over -> 0
    [] poller = "wait" -> 1
    [] poller = "take" -> 2 + MaxTake * SampleWork
    [] poller = "batch" -> 1 + Len(batch) * SampleWork
    [] poller = "fanout" -> 1 + (Len(batch) - 1) * SampleWork + 9 * Cardinality(snap)

DispatcherWork ==
  CASE dispatcher \in Over -> 0
    [] dispatcher = "recv" -> 1
    [] dispatcher = "letgo" -> 2
    [] dispatcher = "begin" -> 8
    [] dispatcher = "watch" -> 7
    [] dispatcher = "join" -> IF Finished THEN 3 ELSE IF task = "pending" THEN 4 ELSE 5

WorkLeft == PollerWork + 8 * Len(queue) + DispatcherWork

(* Once Drop has set the stop flag, the background work only shrinks, and  *)
(* it does with each step of a worker, and of a callback that is aborted:  *)
(* no new samples, calls, jobs or wakeups keep a drop from ending.         *)
WindsDown ==
  [][stop => /\ WorkLeft' <= WorkLeft
             /\ Polling \/ Dispatching \/ (aborted /\ Callback) => WorkLeft' < WorkLeft]_vars

(* Drop always ends, although a callback in progress may never complete:   *)
(* it is aborted where it awaits.                                          *)
DropEnds == dropPc = "joinPoller" ~> dropPc = "dropped"

(* unregister returns when callbacks complete, whichever job the           *)
(* dispatcher is busy with and whatever is queued behind it.               *)
UnregisterReturns ==
  CallbacksEnd => \A c \in Callers : pc[c] = "removed" ~> pc[c] = "idle"

(* The poller and the dispatcher never wait for each other for good: the   *)
(* queue drains when callbacks complete.                                   *)
QueueDrains ==
  CallbacksEnd =>
    \A n \in 1..MaxSamples :
      (\E i \in DOMAIN queue : queue[i].id = n)
        ~> ~(\E i \in DOMAIN queue : queue[i].id = n)
=============================================================================
