# TLA+ models of up-transport-dds-rust

A uProtocol transport over Dust DDS: `UTransport` in three route families
(classic `lib.rs`, owned-frame `owned.rs`, copy-minimized `zero_copy.rs`) that
share one runtime (`runtime.rs`), and six small processes that use it
(`bin/common/mod.rs`). This directory holds the models of that system, the TLC
configurations that check them on small instances and the TLAPS proofs that
hold for every instance. `PROJECT.json` maps each definition to the lines it
models; paths below are relative to the repository's root.

## The system

| Component | State it keeps | Operations | Talks to |
|---|---|---|---|
| Listener registry, `src/runtime.rs` 352-496 | the list of registrations; of each, `active` and `in_flight` behind a mutex with a condition variable | `register`, `unregister`, `matching`, `begin`, drop of the `InFlight` guard, `deactivate_and_wait`, `deactivate_all` | called by the application, the poller, the dispatcher, callback tasks, `Drop` |
| Background machinery, `start_dispatcher`, `run_callback`, `submit`, `StopToken` in `src/runtime.rs`, the poller loop and `Drop` in `src/lib.rs`, `src/owned.rs`, `src/zero_copy.rs` | the DDS reader's history, the bounded channel, the stop flag, two threads, one callback task | take, decode, match, submit; receive, begin, spawn, watch, abort, join; stop and tear down | DDS, tokio, registry, health |
| Health record, `src/runtime.rs` 101-201 | six counters, a ring of the last 64 events, a sequence number, behind one mutex | `record`, `snapshot` | written by all threads, read by any holder of the handle |
| Discovery wait, `wait_until` in `src/runtime.rs` | none | poll the matched-reader count up to a deadline | DDS discovery |
| Role binaries, `src/bin/` | the place in a linear script, a channel from the listener | create, register, wait, send, receive | each other, over one topic |
| Construction, `DdsConfig`, `with_config` | participant, topic, reader, writer, threads | build in order, return at the first failure | DDS, tokio |
| Wire contract, encode and decode of each family | none | map a message to a sample and back | the poller, `send` |
| Loans and leases, `AlignedBytes` and the buffers of `src/zero_copy.rs` | a buffer and whether it is initialised and present | loan, commit, lease | the application |

What is hard here is the order of things. Five kinds of thread (application
threads, poller, dispatcher, tokio workers, the thread that drops) meet in the
registry. A job is matched in one critical section and begun in another, and
`unregister` may run between the two. A callback ends by returning, by
panicking or by being cancelled, and each must give its in-flight count back
and wake whoever waits. `unregister` and `Drop` block the thread they are
called on, and that thread may be a tokio worker the callbacks need, or the
callback itself. `Drop` must not deadlock with a callback that never ends, nor
with a worker thread that has died. The queue and the DDS history are bounded,
and what they lose must be accounted for. Discovery is asynchronous, and a
sender waits for a number, not for a peer. A construction may fail at any of
its eight steps. Loans reuse memory that other messages were in, and a sample
may come from a program that does not keep to the wire contract.

What makes each part correct:

- **registry**: after `unregister` returns, the listener is silent; while it
  waits, a callback is there to wake it; two calls never close the same
  registration.
- **machinery**: one callback at a time, at most once per message and in order;
  every match accounted for; entities deleted when nobody can use them; `Drop`
  ends; which uses of it cannot deadlock.
- **health**: counters and ring tell one story, in every snapshot.
- **construction, wait and drop**: what exists is what the threads use; what
  stays behind and who has died is reported; a wait ends, and never times out
  on readers that were there.
- **wire and loans**: what is delivered is what another transport sent; a
  sample outside the contract is rejected, one that keeps to it never is; no
  byte of an earlier message is sent.
- **roles**: one send reaches whoever it is for, and a role takes only messages
  of its own pattern from a topic they all share.

`PROJECT.json` lists the hazards one by one, each at its line, with the
properties that guard it or the reason why none does.

## The modules

```
ListenerContract          Delivery                     (abstract: what is promised)
      ^ refined by             ^ refined by
   Registry  <--INSTANCE--  Transport  <--EXTENDS--  Reentrancy
      ^                        ^                        ^
 RegistryProofs  <------  TransportProofs  <-----  ReentrancyProofs
                               ^
                          DeliveryProofs

   Wire  <--EXTENDS--  Carriage      Lifecycle      Health      Roles
                          ^              ^             ^           ^
                   CarriageProofs  LifecycleProofs  HealthProofs  RolesProofs
```

An `MC` module beside each of `Registry`, `Transport`, `Reentrancy`,
`Lifecycle`, `Carriage`, `Health` and `Roles` gives its constants small values
for TLC.

**`ListenerContract`** is the promise about one listener: closed only when no
callback of it runs, never called again after that.

**`Registry`** has one action per critical section. `entries` is
`Registry.entries`, as a set (the `Vec`'s order decides nothing but the order
in which the drop drains, and there all orders are allowed). A registration
object is created once, as an `Arc` is: registering a key again takes a fresh
one. `active` and `inFlight` are the fields of `Registration.state`; `pc` and
`target` are where a thread is in `unregister` or in the drop, and `todo` is
what `deactivate_all` took out of the list. `closed` is a history variable:
the registrations for which `deactivate_and_wait` has returned. The two halves
of `unregister` (the list's lock, then the registration's) are two actions, and
the condition variable has a notified and a spurious wakeup.

**`Delivery`** is the promise about messages: one callback at a time, each
registration called in the order of arrival, at most once per message, only
between its opening and its closing. Skipping is allowed: the transport is best
effort.

**`Transport`** composes a registry (`R == INSTANCE Registry`) with everything
around it. A sample has a number, by order of arrival, a kind (no data, own
origin, malformed, routable) and the set of keys it matches; those are all the
outcomes of decoding and matching the machine can tell apart, so one machine
stands for the three families. `poller`, `batch` and `snap` are the poller's
program counter, the rest of its last take and the rest of the fan-out of the
current sample; `dispatcher`, `job`, `task` and `aborted` are the dispatcher
and the one callback task; `dropPc` is how far `Drop` has got, with one value
per step of the code's order. The fan-out picks registrations in any order,
the `Vec`'s among them. `last` and `tally` are history variables. The
application's runtime may be shut down at any time (`runtimeUp`): the transport
borrows a handle and does not own the runtime.

A worker thread may die. A job holds an `Arc` of its registration. Whoever
lets go of the last one (`Kept` says when that cannot be) runs the destructor
of the listener, which may panic: on the poller when `try_send` gives the job
back, where nothing catches it (`PollerUnwinds`), or on the dispatcher when the
job returns (`LetGo`), where `catch_unwind` does and records a callback panic.
The payload of a panic may panic when it is dropped, and that is outside of
`catch_unwind`: the dispatcher ends before it has recorded anything (`Unwind`).
With the dispatcher goes the receiver of the channel, and with it the jobs in
the queue; later ones are given back and counted as dropped (`Submit`). `tally`
has a count for each fate of a job, lost ones included.

**`Reentrancy`** extends `Transport` with the kind of thread each call is made
on: a thread of the application's own, a worker of the tokio runtime, or the
callback in progress. A worker is taken by the poll of a callback and, for its
whole length, by a call that a task makes: `deactivate_and_wait` waits on a
condition variable and `join_worker` joins a thread, and neither gives the
worker back. A callback in the middle of a call does not go on. Every step is a
step of `Transport` under a guard (`PlacedIsTransport`), so that what can be
lost is progress. `Prudent` names the uses that cannot block for ever.

**`Lifecycle`** is a transport from `with_config` to the end of `Drop`, with a
failure at each step of the construction; its participant and entities in the
factory; its two worker threads as what runs and why it ends (the stop flag,
the end of the channel, a panic); `wait_ready` with its deadline against a
clock; and `Drop`, on a thread of the application or on one of the workers,
when a listener that a worker lets go of held the last handle. `matched` is
what DDS reports to the writer, the transport's own reader among it. What the
workers do with messages is `Transport`'s. A wait remembers in `short`, a
history variable, whether there were ever too few readers. The death of a
worker is a step of both modules: in `Transport` for what becomes of its jobs,
here for what becomes of the drop, which may then find the thread gone.

**`Wire`** has the samples as records, with `Encode`, `Decode` and `Accepts` for
the classic and the owned family (they differ in how attributes are encoded,
and an encoding is a tagged value here), and `Commit`, `AcceptsZeroCopy` and
`DecodeZeroCopy` for the third. The contract of a sample (`IsEncoded`,
`IsCommitted`) is stated as what some message or loan is made into.

**`Carriage`** moves these samples: transmit loans over a heap whose blocks are
used again, cleared for an initialised loan and left as they were for an
uninitialised one; the writes through a loan; its commitment or drop; and the
poller from a taken sample to what it looks for listeners for: suppression of
its own samples, rejection and count of malformed ones, delivery. Byte `n` of a
payload is written by the owner of loan `n`, so that a byte tells whose it is.
Other programs on the topic send samples within the contract and outside it.

**`Health`** has the record, the ring and one monitor that takes snapshots; the
history variable `log` is what really went wrong.

**`Roles`** has several processes, each with a role, its addresses and its
process ID, over a DDS in which writers discover readers one by one and in one
direction. The two flows of `bin/common/mod.rs` (classic and owned, which wait
right before each send; copy-minimized, which waits once after creation) are
the operators `AfterCreate` to `AfterReceive`; any step may return an error
that ends the role (`StepFails`). The transport below is a mailbox, as
`MailboxKept` justifies.

The definitions marked "Fault" in a module are plausible mistakes in the
operation that follows them. They are part of no specification; substituted for
the operation they show that the property named for them in `PROJECT.json`
("mutants") can fail.

## The runs

| Run | Instance | Shows |
|---|---|---|
| `Registry` | 2 callers and the owner, 2 keys, 4 registrations, 2 callbacks per registration at once | `ClosedIsSilent`, `NoLostWakeup`, `OneCloser`, `UniqueKeys`, `ClosingEnds`; `Registry` implements `ListenerContract` (`ContractSpec`) |
| `TransportSafety` | 1 caller and the owner, 2 keys, 2 registrations, queue of 1, history of 2, 2 samples of any kind (no data, own, malformed, for one or for both keys), 1 DDS failure, workers may die, runtime may stop | `InFlightExact`, `NoJobLost`, `PanicsCounted`, `TeardownIsLast`, `DropGetsOn`; action property `WindsDown` |
| `TransportLive` | 2 keys, 2 registrations, 2 samples for either, one at a time through a history and a queue of 1, workers may die, runtime may stop | `Transport` implements `Delivery` (`MailboxSpec`); `DropEnds`, and with callbacks that complete `UnregisterReturns`, with a job of another listener in front as well, and `QueueDrains` |
| `TransportPanics` | 1 sample, runtime may stop | violated: `OnlyPanicsCounted` |
| `Reentrancy` | 2 callers, 2 keys, 1 sample for both, runtime of 2 workers that may stop; all callers and the owner are tasks, or one caller is a thread, one the callback and the owner a task | `NoWaitCycle`, `DropLeavesWorker`, `PrudentUnregisterReturns`, `PrudentDropEnds` |
| `PoolDrop` | the same with 1 worker, the owner a task on it | violated: `DropEnds` |
| `Lifecycle` | 1 transport and 1 peer, required counts 0 and 2, timeouts 0 and 2, clock up to 3 | `LeftoversReported`, `DeadWorkersReported`, `UsedEntitiesExist`, `ReadyNeverTimesOut`; action property `WaitGetsOn`; `WaitEnds`, `DropEnds`, `ThreadsEnd` |
| `Carriage` | 2 zero-copy and 1 framed transport, foreign programs, 1 heap block, 2 loans, 2 sends | `NoStaleBytes`, `DeliveredIsSent`, `MalformedIsGarbage` |
| `Health` | ring of 2, 4 errors of all six kinds | `Faithful`, `AtomicSnapshot`, `NothingMissed` |
| `RolesPair` | client and server, classic or owned, started in any order | `SendsToAddressee`, `FlowCompletes` |
| `RolesTopic` | publisher, subscriber, notifier, copy-minimized; any step may fail | `RightMessage`, `NoneLost` |
| `RolesServer` | client and server, copy-minimized | violated: `SendsToAddressee` |

`TransportSafety` also checks the type invariant of the transport, which takes
in the registry's and the bounds of the queues. The type invariants of the
other modules are proved (`TypesKept` in each module of proofs) and not run
again.

**Bounds.** Two callers and the owner are enough for every pair of calls that
can meet in the registry (the code's critical sections involve one registration
each); four registrations over two keys let a key be registered again while
both an unregistration and a stale snapshot of the old object are under way.
Two callbacks at once per registration (`MaxInFlight`) is more than the
transport ever has (`InFlightExact`), so that the registry's own locking is
tested and not the dispatcher's. In `Transport` one caller suffices, the
interplay of callers being `Registry`'s, and two registration objects allow a
re-registration; a queue of one is full while one job runs and one waits. In
`TransportSafety` a history and a batch of two make the poller hold a sample
while another is fanned out; in `TransportLive` a history of one evicts with
the second unread sample, and each listener meets the job of the other in front
of its own. What larger histories, batches and queues do to the order of
delivery is proved (`MailboxKept`). In `Reentrancy` two callers that block meet
one callback, and one of them can be that callback while it unregisters the
other's registration; with two workers the pool is exhausted by one caller and
the owner. `Lifecycle` has one transport, since two share only the factory and
the domain; its own reader and one peer make a count of two that comes and
goes, and a timeout of two sleeps under a clock of three leaves a round before,
at and after the deadline. One heap block makes every loan but the first meet
used memory, and the three ends of a loan, two transports of its family and a
foreign program meet in two sends. `Health` wraps its ring twice over. The
poller's interval is not modelled: its wait can end at any time.
`MaxDdsErrors`, `MaxSamples`, `MaxErrors`, `MaxTime`, `MaxLoans` and `MaxSends`
cap counters; the code's are 64 bits wide and are not expected to wrap. The
theorems below hold without the bounds.

`RolesPair` runs with `CHECK_DEADLOCK FALSE`: it has no timeouts, and a request
sent before the peer's listener is registered is lost for good, after which the
processes wait for ever. So do `Reentrancy` and `PoolDrop`: in imprudent use
(a callback that unregisters itself, a drop on the only worker) the system
really deadlocks.

**Fairness.** Weak fairness for each thread (`ThreadsRun`) stands for an
operating system that schedules threads; none is assumed of the application's
calls, of DDS failures, of a runtime shutdown or of spurious wakeups. A poll of
a callback returns (`Await`, `Return` or `Panic`): a callback that blocks its
worker for ever cannot be stopped by anything. Beyond that a callback may stay
pending for ever in `FairSpec`, and `DropEnds` needs no more, because `Drop`
sets the stop flag first and the dispatcher then aborts the task.
`UnregisterReturns` and `QueueDrains` have as their premise that callbacks
complete (`CallbacksEnd`): strong fairness for their end, since a callback that
awaits goes in and out of being polled. A take may fail before the drop ends,
and fairness of `Take` says only that it does not fail for ever; the poller
sees the stop flag at its next wait in either case. In `Reentrancy` a task that
waits for a worker, to be polled or to be dropped, gets one if workers keep
getting free (strong fairness: tokio's queues are served in turn); a worker
inside a call of the application need not get free. `Registry` on its own
assumes that callbacks end, which `Transport` does not have to assume.
`Lifecycle` assumes that threads run and time passes, and nothing of DDS or of
a thread that joins itself. `Roles` assumes that processes run, that discovery
completes and that a sample on the wire arrives (reliable QoS is the default);
`FlowCompletes` has as its premise that whoever a message is for was discovered
and listening when it was sent.

## Where code and documentation disagree

1. `TransportPanics`: `run_callback` counts any join error as a callback panic
   while the transport is not stopping. A callback cancelled because the
   application shut its runtime down is counted too, although the counter is
   documented as "Callback panics caught by the dispatcher."
2. `RolesServer`: the copy-minimized server waits for one matched reader, which
   may be its own, and responds without waiting again; the response may find no
   client. `wait_ready`'s documentation asks cross-instance callers for two.
3. `PoolDrop`: `Drop` blocks its thread, and `task.abort` only schedules a
   future that awaits; a worker has to drop it. If the only worker of the
   runtime is the one that drops the transport, the drop never ends. The README
   promises that dropping "cancels callback work" without a condition.
   `PrudentDropEnds` shows that two workers are enough for any placement of the
   callers other than inside a callback.

Two more, which no run of their own shows: `wait_ready` counts readers and
cannot tell whose they are, so that with a third process on the domain the
count of two can be met without "the remote DDS reader" an active role is said
to wait for (`src/README.md:53`). And the default origin is made of the process
ID and a counter (`src/src/runtime.rs:73`), while the wire contract says that
the origin identifies one transport instance (`src/docs/wire-contract.md:7`).
Two containers on one domain can have equal ones: the first process of each has
the ID 1. They then suppress each other's samples, and no counter shows it;
`--origin-id` avoids it. `RolesTopic` and `NothingLost` are about distinct
process IDs and say nothing of such containers.

## The proofs

All theorems hold for every value of the constants that satisfies the named
assumptions of their module (`NoReg`, `NoKey`, `NoJob` and `Owner` are distinct
from the real values, capacities are positive as `validate` makes them, the
bounds are natural numbers). For the registry that is any number of callers,
keys and registrations; for the transport any number of samples and any sizes
of queue, batch and history.

**`RegistryProofs`.** The safety invariants are not inductive on their own. The
strengthening `IInv` adds: an object not yet registered is blank and in no set
(`UnusedIsBlank`); a thread that closes has a registered target
(`TargetKnown`); the list, the drop's work list and the closed ones do not
overlap (`Disjoint`); and an active registration is in the list, in the drop's
work list or the target of a thread that is about to deactivate it
(`ActiveIsHeld`). `ClosedIsSilent` follows because only the thread that
removed a registration closes it, having seen its counter at zero after
clearing `active`. `ContractKept` proves the refinement step by step: `Recheck`
and `Deactivate` map to `Close` when they return, the rest to `Open`, `Begin`,
`End` or a stutter.

**`TransportProofs`.** First that each step of the transport is a step of the
registry or leaves it alone (`RegistryStep`), so that the registry's invariant
and its theorems carry over (`RegistryKept`); `SameRegistry` says that both
modules mean the same by it. Then an invariant in layers. `Base` has the types
and `Control`: where the threads are decides which of their variables are in
use. `InFlightExact` relates the counters to the one task; `DropOrder` says
which thread has exited and which sets are empty at each stage of the drop,
which gives `TeardownIsLast`; a worker that has ended stays ended (`OverStays`).
`Aborts` says that only a stopping transport aborts a task, which gives
`PanicsCounted`: what `health` has of panics is what jobs had of them, in
callbacks and in destructors, but for the one on its way to the join and the one
that took the dispatcher with it. `NoJobLost` is a count: each step moves jobs
between those under way (`Underway`), those whose fate is recorded (`Settled`)
and those that a worker lost when it died, which is the one way to lose any.

That a drop ends (`DropEnds`) is a liveness property and stays with TLC; the
two facts its argument rests on are proved. `DropProceeds`: what the drop waits
for has a step to make. In `deactivate_all` it waits only while a callback is
in progress, and this callback, which the dispatcher waits for too, is being
polled, or has been aborted, or the dispatcher is about to test the stop flag
again. `Watched` is the strengthening: the dispatcher goes on to `join` only
when the task is over or it has aborted it. `BackgroundWindsDown`: once the
stop flag is set, `WorkLeft` is a bound on the steps that the two threads can
still make; nothing makes it grow, and each step of theirs, and of the aborted
callback, makes it smaller. A job costs nine steps at most, from its submission
to its return, and a sample one step and a job for every entry, hence
`SampleWork`; a worker that dies has none left; the poller takes at most one
more batch, since it tests the flag before each take; and the list of entries
does not grow, since the caller of `register` holds a handle that the drop has
seen the last of. What is missing to `DropEnds` is that fairness makes one of
these steps happen.

**`DeliveryProofs`.** That the transport implements `Delivery` rests on an
order (`Ordered`) that no single step shows: the numbers of the samples grow
along the way back from a listener, its last call, the job in hand, the queue,
the batch, the reader. They are strictly increasing but for the sample being
fanned out, whose number is also in the queue and in last calls; there the
registrations that have had it are no longer in the snapshot (`Beyond`). A
step of the poller moves samples in one of five ways (`SamplesMove`), which
keeps what was beyond a call beyond it (`BeyondStep`); a submitted job comes
after all its registration was called or is queued with (`SubmittedFits`).
With that, `BeginJob` maps to `Enter`, the three ends of a callback to `Leave`,
`Register` to `Open`, the return of `deactivate_and_wait` to `Close` (by
`InFlightExact` the current callback is another's), the rest to a stutter.

**`ReentrancyProofs`.** A placed transport is a transport, so that all of the
above holds of it. `NoWaitCycle` follows for any number of callers and workers
because the dispatcher runs one callback at a time: a waiting thread waits for
that callback (`WaitsForCallback`), so that only one can be waiting when nobody
is on the way through the registry (`WaitsAlone`), and it takes one worker at
most (`WorkerLeft`): two workers are enough, however many callers there are.
`DropNeverStarves` is about the joins of `Drop`, which block their thread as
well: the drop has the last handle, so that nobody else is in a call
(`DropAlone`), and a prudent drop leaves the callback the other worker.

**`LifecycleProofs`.** How far a transport has got decides what exists
(`Progress`) and what has been counted (`Counted`: a worker's death counts when
it is joined); a wait that goes on has seen too few readers (`Remembered`).
`Progress` also gives `NobodyStranded`: a thread that is joined, or that is left
to itself by a construction that failed, has what ends it. `WaitShrinks` is what
`WaitEnds` rests on besides fairness: a sleep never reaches past the deadline
and is over when the clock says so (`Timed`), so that the readings and sleeps
that are left (`TriesLeft`) become fewer with each.

**`CarriageProofs`.** First the contract, for all messages and samples:
`FramedRoundTrip` and `ZeroCopyRoundTrip` say that decoding undoes encoding,
`FramedExact` and `ZeroCopyExact` that the checks of the decoder accept exactly
what some message or loan is made into, so that no sample of another program is
read as more than it is. "Exactly" is of the outer contract: the encodings
inside it are tagged values that parse or do not. Then an invariant with what
each block holds (`Written`), where each sample at a reader comes from
(`Sourced`) and how many there can be (`Counted`).

**`HealthProofs`.** The invariant is that `sequence` is the length of the log,
`Faithful` and `AtomicSnapshot`. The work is in `RingStep`, that dropping the
oldest event and appending one gives the most recent events of the longer log,
and in `CounterStep`, that appending adds one to one cardinality; a snapshot
stays true because the log only grows (`ViewStep`). `MonitorComplete` adds that
from one snapshot to the next the ring has every new event if there are at most
64 of them, and that the sequence numbers tell if there are more.

**`RolesProofs`.** The addresses of a message tell its kind (`Shape`), a
listener that got a message has its addresses (`Heeded`), and a process sends
only where its script lets it (`Script`): for any number of processes in any
roles, both flows and any failures.

`SendsToAddressee` is not true of every system, and the hypotheses of
`PairSends` (`Partners`) say of which: an active role and its passive partner
that have each other's authority, alone on their domain, so that the second
reader is the partner's; no failing step, because a partner that dies between
the wait and the send takes its reader with it; and for a client not the
copy-minimized flow, whose server does not wait before it answers (see above).
That the partner does not end normally in that gap either is the argument
(`PairInv`): nothing reaches the passive role before the active one has sent,
and nothing reaches a client before its server has answered, so that each still
waits for the other. The rest is counting: two known readers, one's own
included, are both.

`NothingLost` needs distinct process IDs, since a process that takes another's
samples for its own ignores them. A process listens until it ends and has in
hand the only message it takes (`Attentive`); then every step leaves what was
sent to it on the wire, in its channel or in its hand.

Types (`TypesKept`) are run in `TransportSafety` only.

| Property | TLC | TLAPS |
|---|---|---|
| types, safety of the registry | `Registry` | `TypesKept`, `Silence`, `WakeupsArrive`, `ClosersExclude`, `KeysUnique` |
| registry implements its contract | `Registry` | `ContractKept` |
| types, safety of the transport | `TransportSafety` | `TypesKept`, `GuardsBalance`, `JobsConserved`, `PanicCounter`, `TeardownOrder` |
| progress of the drop: `DropGetsOn`, `WindsDown` | `TransportSafety` | `DropProceeds`, `BackgroundWindsDown` |
| transport implements a registry | | `RegistryKept` |
| transport implements `Delivery` | `TransportLive` | `MailboxKept` |
| placed transport implements a transport | | `PlacedIsTransport` |
| `NoWaitCycle`, `DropLeavesWorker` | `Reentrancy` | `NobodyWaitsInACircle`, `DropNeverStarves` |
| types, safety of construction, wait, drop | `Lifecycle` | `TypesKept`, `UsedExist`, `LeftoversCounted`, `DeathsCounted`, `NoFalseTimeout` |
| `WaitGetsOn` | `Lifecycle` | `WaitShrinks` |
| `NoThreadStranded`, what `ThreadsEnd` rests on | | `NobodyStranded` |
| wire contract | | `FramedRoundTrip`, `FramedExact`, `ZeroCopyRoundTrip`, `ZeroCopyExact` |
| types, safety of loans and carriage | `Carriage` | `TypesKept`, `NothingStale`, `DeliveriesAreSent`, `MessagesAreWellFormed` |
| health record, snapshots, monitor | `Health` | `TypesKept`, `RecordFaithful`, `SnapshotAtomic`, `MonitorComplete` |
| types, pattern, delivery of roles | `RolesTopic` | `TypesKept`, `OwnPattern`, `NothingLost` (of distinct process IDs) |
| `SendsToAddressee` | `RolesPair` | `PairSends`, of partners alone on their domain; not true in general |
| liveness (`ClosingEnds`, `UnregisterReturns`, `QueueDrains`, `DropEnds`, `PrudentUnregisterReturns`, `PrudentDropEnds`, `WaitEnds`, `ThreadsEnd`, `FlowCompletes`) | their runs | out of reach: fairness needs ENABLED; the safety at their core is proved where named above |

## Not modelled

- **Widths and conversions of `wait_ready`**: `Instant::now() + timeout` panics
  for a huge timeout, and a negative count is read as zero; guards of one line,
  better tested than modelled.
- **Allocation**: alignment, layout errors and failures of `AlignedBytes`; the
  missing upper bound of `dispatch_capacity`, whose buffer is allocated at once.
- **Encodings**: protobuf, URIs, frame metadata and their parsers are up-rust's;
  an encoding is a tagged value that parses or does not.
- **Two processes with the same authority** in one role: both accept what one of
  them is meant to have; the binaries are not run that way.
- **Panics on the application's threads**: a listener's destructor that panics
  inside `unregister` is the caller's panic; inside `deactivate_all` it unwinds
  `Drop`, which leaves later registrations and the dispatcher as they are. A
  second panic while a thread unwinds aborts the process.
- **Request IDs and late answers**: the client does not compare the ID of a
  response; the model has no IDs, and one client per authority.
- **The write itself**: whether a sample written right before the writer is
  deleted still arrives is up to DDS.
- **DDS, tokio, up-rust**: external; only what the code relies on is there.
- **Argument parsing, formatting, tests, benchmarks, IDL.**

## Plan

Done: all of the components above, their composition where they share state,
and the safety of each as theorems, with the non-temporal core of why a drop
and a wait end. Left, in order of importance:

1. The same core for `UnregisterReturns` and `QueueDrains`: a measure of the
   jobs ahead of the one a caller waits for, under callbacks that complete.
2. The registry and the health record inside one module with the writers of
   both, so that a snapshot of the health record and the state of the transport
   it tells of can be compared.
3. Two transports of one process that share a runtime: callbacks of both on one
   pool of workers, and what `Prudent` then has to ask for.
