------------------------------- MODULE Health --------------------------------
(***************************************************************************)
(* DdsHealth (runtime.rs): six counters and a ring of the most recent      *)
(* errors behind one mutex.  The poller, the dispatcher, the senders and   *)
(* Drop record errors; any clone of the handle takes snapshots, during the *)
(* transport's life and after it.  Here one monitor takes them, and `log`, *)
(* a history variable, is what really went wrong, in order.                *)
(***************************************************************************)
EXTENDS Naturals, Sequences, FiniteSets

CONSTANTS MaxEvents,   \* MAX_HEALTH_EVENTS
          MaxErrors    \* bound: errors recorded; far below 2^64

ASSUME MaxEventsAssumption == MaxEvents \in Nat \ {0}
ASSUME MaxErrorsAssumption == MaxErrors \in Nat

VARIABLES
  counters,   \* one counter per kind of error
  sequence,   \* HealthState.next_sequence
  events,     \* the ring, oldest first
  view,       \* the monitor's latest snapshot
  log         \* history: the kinds of all errors so far

vars == <<counters, sequence, events, view, log>>

HealthErrorKind == {"Dds", "MalformedSample", "DispatchBackpressure", "CallbackPanic",
                    "WorkerPanic", "Teardown"}
Event == [sequence : Nat, kind : HealthErrorKind]

Init ==
  /\ counters = [k \in HealthErrorKind |-> 0]
  /\ sequence = 0
  /\ events = <<>>
  /\ view = [counters |-> counters, events |-> events]
  /\ log = <<>>

(* Fault: a full ring keeps what it has.                                   *)
RecordOldest(kind) ==
  /\ Len(log) < MaxErrors
  /\ counters' = [counters EXCEPT ![kind] = @ + 1]
  /\ sequence' = sequence + 1
  /\ events' = IF Len(events) = MaxEvents THEN events
               ELSE Append(events, [sequence |-> sequence', kind |-> kind])
  /\ log' = Append(log, kind)
  /\ UNCHANGED view

(* Fault: the ring is emptied when it is full.                             *)
RecordAfresh(kind) ==
  /\ Len(log) < MaxErrors
  /\ counters' = [counters EXCEPT ![kind] = @ + 1]
  /\ sequence' = sequence + 1
  /\ events' = Append(IF Len(events) = MaxEvents THEN <<>> ELSE events,
                      [sequence |-> sequence', kind |-> kind])
  /\ log' = Append(log, kind)
  /\ UNCHANGED view

Record(kind) ==
  /\ Len(log) < MaxErrors
  /\ counters' = [counters EXCEPT ![kind] = @ + 1]
  /\ sequence' = sequence + 1
  /\ events' = Append(IF Len(events) = MaxEvents THEN Tail(events) ELSE events,
                      [sequence |-> sequence', kind |-> kind])
  /\ log' = Append(log, kind)
  /\ UNCHANGED view

(* Fault: the ring is copied before the counters are read.                 *)
SnapshotTorn ==
  /\ \/ view' = [view EXCEPT !.events = events]
     \/ view' = [view EXCEPT !.counters = counters]
  /\ UNCHANGED <<counters, sequence, events, log>>

Snapshot ==
  /\ view' = [counters |-> counters, events |-> events]
  /\ UNCHANGED <<counters, sequence, events, log>>

Next == Snapshot \/ \E kind \in HealthErrorKind : Record(kind)

Spec == Init /\ [][Next]_vars
-----------------------------------------------------------------------------
Least(m, n) == IF m < n THEN m ELSE n

Snapshots == [counters : [HealthErrorKind -> Nat], events : Seq(Event)]

TypeOK ==
  /\ counters \in [HealthErrorKind -> Nat]
  /\ sequence \in Nat
  /\ events \in Seq(Event) /\ Len(events) <= MaxEvents
  /\ view \in Snapshots
  /\ log \in Seq(HealthErrorKind)

(* What a snapshot taken after n errors has to be.                         *)
Recent(n, es) ==
  /\ Len(es) = Least(n, MaxEvents)
  /\ \A i \in 1..Len(es) :
       LET at == n - Len(es) + i IN es[i] = [sequence |-> at, kind |-> log[at]]

Counted(n, cs) ==
  \A k \in HealthErrorKind : cs[k] = Cardinality({i \in 1..n : log[i] = k})

(* The counters and the ring always tell of the same errors: all of them   *)
(* are counted, and the ring holds the most recent ones in their order,    *)
(* numbered without a gap.                                                 *)
Faithful == Recent(Len(log), events) /\ Counted(Len(log), counters)

(* A snapshot is atomic: what the monitor has seen was true at one moment. *)
AtomicSnapshot ==
  \E n \in 0..Len(log) : Recent(n, view.events) /\ Counted(n, view.counters)

Latest(es) == IF es = <<>> THEN 0 ELSE es[Len(es)].sequence

(* A monitor that takes snapshots sees in recent_events every error since  *)
(* its last one, unless more than MAX_HEALTH_EVENTS were recorded between  *)
(* the two, and then the sequence numbers tell it how many it missed.      *)
NewErrors == {i \in 1..Len(log) : i > Latest(view.events)}
Seen == {e \in {view'.events[i] : i \in DOMAIN view'.events} :
           e.sequence > Latest(view.events)}
NothingMissed ==
  [][/\ Latest(view'.events) = Len(log)
     /\ Cardinality(NewErrors) <= MaxEvents =>
          Seen = {[sequence |-> i, kind |-> log[i]] : i \in NewErrors}]_view
=============================================================================
