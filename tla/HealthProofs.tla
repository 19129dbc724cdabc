---------------------------- MODULE HealthProofs -----------------------------
(***************************************************************************)
(* The health record is faithful for a ring of any size and any number of  *)
(* errors.                                                                 *)
(***************************************************************************)
EXTENDS Health, SequenceTheorems, FiniteSetTheorems, TLAPS

(* The errors are numbered from 1, and what was recorded stays recorded.   *)
IInv == TypeOK /\ sequence = Len(log) /\ Faithful /\ AtomicSnapshot

LEMMA Nothing == \A k : Cardinality({i \in 1..0 : log[i] = k}) = 0
  <1> TAKE k
  <1>1. {i \in 1..0 : log[i] = k} = {}
    OBVIOUS
  <1>2. QED
    BY <1>1, FS_EmptySet

LEMMA InitInv == Init => IInv
  <1> SUFFICES ASSUME Init PROVE IInv
    OBVIOUS
  <1>1. <<>> \in Seq(Event) /\ <<>> \in Seq(HealthErrorKind) /\ Len(<<>>) = 0
    BY EmptySeq
  <1>2. TypeOK
    BY <1>1, MaxEventsAssumption DEF Init, TypeOK, Snapshots
  <1>3. Recent(0, events) /\ view.events = events
    BY <1>1, MaxEventsAssumption DEF Init, Recent, Least
  <1>4. Counted(0, counters) /\ view.counters = counters
    BY Nothing DEF Init, Counted
  <1>5. Len(log) = 0 /\ sequence = 0
    BY <1>1 DEF Init
  <1>6. Faithful /\ AtomicSnapshot
    BY <1>3, <1>4, <1>5 DEF Faithful, AtomicSnapshot
  <1>7. QED
    BY <1>2, <1>5, <1>6 DEF IInv

(* The ring after one more error holds the most recent ones again.         *)
LEMMA RingStep ==
  ASSUME IInv, NEW kind \in HealthErrorKind, Record(kind)
  PROVE  /\ events' \in Seq(Event) /\ Len(events') <= MaxEvents
         /\ Recent(Len(log), events)'
  <1> DEFINE n == Len(log)
             e == [sequence |-> n + 1, kind |-> kind]
             room == IF Len(events) = MaxEvents THEN Tail(events) ELSE events
  <1>1. /\ n \in Nat /\ log \in Seq(HealthErrorKind) /\ MaxEvents \in Nat \ {0}
        /\ events \in Seq(Event) /\ Len(events) \in Nat /\ Len(events) <= MaxEvents
    BY MaxEventsAssumption, LenProperties DEF IInv, TypeOK
  <1>2. e \in Event
    BY <1>1 DEF Event
  <1>3. events' = Append(room, e) /\ log' = Append(log, kind)
    BY <1>1 DEF Record, IInv
  <1>4. /\ Len(log') = n + 1 /\ log'[n + 1] = kind
        /\ \A i \in 1..n : log'[i] = log[i]
    BY <1>1, <1>3, AppendProperties
  <1>5. /\ Len(events) = Least(n, MaxEvents)
        /\ \A i \in 1..Len(events) :
             events[i] = [sequence |-> n - Len(events) + i, kind |-> log[n - Len(events) + i]]
    BY DEF IInv, Faithful, Recent
  <1>6. /\ room \in Seq(Event) /\ Len(room) \in Nat /\ Len(room) < MaxEvents
        /\ Len(room) + 1 = Least(n + 1, MaxEvents)
        /\ \A i \in 1..Len(room) :
             room[i] = [sequence |-> n - Len(room) + i, kind |-> log[n - Len(room) + i]]
    <2>1. CASE Len(events) = MaxEvents
      <3>1. /\ room = Tail(events) /\ Len(room) = MaxEvents - 1
            /\ \A i \in 1..Len(room) : room[i] = events[i + 1]
            /\ room \in Seq(Event)
        BY <1>1, <2>1, HeadTailProperties
      <3>2. MaxEvents <= n
        BY <1>1, <1>5, <2>1 DEF Least
      <3>3. ASSUME NEW i \in 1..Len(room)
            PROVE  room[i] = [sequence |-> n - Len(room) + i, kind |-> log[n - Len(room) + i]]
        <4>1. i + 1 \in 1..Len(events) /\ n - Len(events) + (i + 1) = n - Len(room) + i
          BY <1>1, <2>1, <3>1
        <4>2. QED
          BY <1>5, <3>1, <4>1
      <3>4. Len(room) + 1 = Least(n + 1, MaxEvents)
        BY <1>1, <3>1, <3>2 DEF Least
      <3> HIDE DEF room
      <3>5. QED
        BY <1>1, <3>1, <3>3, <3>4
    <2>2. CASE Len(events) # MaxEvents
      <3>1. room = events /\ Len(events) < MaxEvents /\ Len(events) = n
        BY <1>1, <1>5, <2>2 DEF Least
      <3>2. Len(events) + 1 = Least(n + 1, MaxEvents)
        BY <1>1, <3>1 DEF Least
      <3> HIDE DEF room
      <3>3. QED
        BY <1>1, <1>5, <3>1, <3>2
    <2>3. QED
      BY <2>1, <2>2
  <1> HIDE DEF room, e
  <1>7. /\ events' \in Seq(Event) /\ Len(events') = Len(room) + 1
        /\ events'[Len(room) + 1] = e
        /\ \A i \in 1..Len(room) : events'[i] = room[i]
    BY <1>2, <1>3, <1>6, AppendProperties
  <1>8. ASSUME NEW i \in 1..Len(events')
        PROVE  events'[i] = [sequence |-> n + 1 - Len(events') + i,
                             kind |-> log'[n + 1 - Len(events') + i]]
    <2>1. CASE i = Len(room) + 1
      <3>1. n + 1 - Len(events') + i = n + 1
        BY <1>1, <1>6, <1>7, <2>1
      <3>2. QED
        BY <1>4, <1>7, <2>1, <3>1 DEF e
    <2>2. CASE i # Len(room) + 1
      <3>1. i \in 1..Len(room)
        BY <1>6, <1>7, <2>2
      <3>2. /\ n + 1 - Len(events') + i = n - Len(room) + i
            /\ n - Len(room) + i \in 1..n
        BY <1>1, <1>6, <1>7, <3>1 DEF Least
      <3>3. QED
        BY <1>4, <1>6, <1>7, <3>1, <3>2
    <2>3. QED
      BY <2>1, <2>2
  <1>9. QED
    BY <1>1, <1>4, <1>6, <1>7, <1>8 DEF Recent

(* The kinds of the errors up to the n-th do not change with a record.     *)
LEMMA CountFrame ==
  ASSUME NEW n \in Nat, log \in Seq(HealthErrorKind), n <= Len(log),
         \A i \in 1..Len(log) : log'[i] = log[i]
  PROVE  \A k : {i \in 1..n : log'[i] = k} = {i \in 1..n : log[i] = k}
  <1>1. Len(log) \in Nat
    BY LenProperties
  <1>2. QED
    BY <1>1

LEMMA CounterStep ==
  ASSUME IInv, NEW kind \in HealthErrorKind, Record(kind)
  PROVE  Counted(Len(log), counters)'
  <1> DEFINE n == Len(log)
             Of(k) == {i \in 1..n : log[i] = k}
             Now(k) == {i \in 1..(n + 1) : log'[i] = k}
  <1>1. n \in Nat /\ log \in Seq(HealthErrorKind) /\ counters \in [HealthErrorKind -> Nat]
    BY LenProperties DEF IInv, TypeOK
  <1>2. log' = Append(log, kind) /\ counters' = [counters EXCEPT ![kind] = @ + 1]
    BY DEF Record
  <1>3. /\ Len(log') = n + 1 /\ log'[n + 1] = kind
        /\ \A i \in 1..n : log'[i] = log[i]
    BY <1>1, <1>2, AppendProperties
  <1>4. \A k \in HealthErrorKind : counters[k] = Cardinality(Of(k))
    BY DEF IInv, Faithful, Counted
  <1>5. SUFFICES ASSUME NEW k \in HealthErrorKind PROVE counters'[k] = Cardinality(Now(k))
    BY <1>3 DEF Counted
  <1>6. Now(k) = IF k = kind THEN Of(k) \cup {n + 1} ELSE Of(k)
    BY <1>1, <1>3
  <1>7. IsFiniteSet(Of(k)) /\ n + 1 \notin Of(k)
    <2>1. IsFiniteSet(1..n)
      BY <1>1, FS_Interval
    <2>2. QED
      BY <1>1, <2>1, FS_Subset
  <1>8. Cardinality(Of(k) \cup {n + 1}) = Cardinality(Of(k)) + 1
    BY <1>7, FS_AddElement
  <1> HIDE DEF Of, Now
  <1>9. QED
    BY <1>1, <1>2, <1>4, <1>6, <1>8

LEMMA ViewStep ==
  ASSUME IInv, NEW kind \in HealthErrorKind, Record(kind)
  PROVE  AtomicSnapshot'
  <1>1. Len(log) \in Nat /\ log \in Seq(HealthErrorKind) /\ MaxEvents \in Nat \ {0}
    BY MaxEventsAssumption, LenProperties DEF IInv, TypeOK
  <1>2. /\ Len(log') = Len(log) + 1 /\ view' = view
        /\ \A i \in 1..Len(log) : log'[i] = log[i]
    BY <1>1, AppendProperties DEF Record
  <1>3. PICK n \in 0..Len(log) : Recent(n, view.events) /\ Counted(n, view.counters)
    BY DEF IInv, AtomicSnapshot
  <1>4. Recent(n, view.events)'
    <2> DEFINE es == view.events
    <2>1. es \in Seq(Event) /\ Len(es) \in Nat
      BY LenProperties DEF IInv, TypeOK, Snapshots
    <2>2. Len(es) = Least(n, MaxEvents) /\ Len(es) <= n
      BY <1>1, <1>3 DEF Recent, Least
    <2>3. ASSUME NEW i \in 1..Len(es)
          PROVE  es[i] = [sequence |-> n - Len(es) + i, kind |-> log'[n - Len(es) + i]]
      <3>1. n - Len(es) + i \in 1..Len(log)
        BY <1>1, <2>1, <2>2
      <3>2. QED
        BY <1>2, <1>3, <3>1 DEF Recent
    <2>4. QED
      BY <1>2, <2>2, <2>3 DEF Recent
  <1>5. Counted(n, view.counters)'
    BY <1>1, <1>2, <1>3, CountFrame DEF Counted
  <1>6. n \in 0..Len(log')
    BY <1>1, <1>2
  <1>7. QED
    BY <1>4, <1>5, <1>6 DEF AtomicSnapshot

LEMMA InvStep == IInv /\ [Next]_vars => IInv'
  <1> SUFFICES ASSUME IInv, [Next]_vars PROVE IInv'
    OBVIOUS
  <1>1. ASSUME NEW kind \in HealthErrorKind, Record(kind) PROVE IInv'
    <2>1. counters' \in [HealthErrorKind -> Nat] /\ sequence' \in Nat /\ view' \in Snapshots
      BY <1>1 DEF Record, IInv, TypeOK
    <2>2. log' \in Seq(HealthErrorKind) /\ sequence' = Len(log')
      BY <1>1, AppendProperties DEF Record, IInv, TypeOK
    <2>3. QED
      BY <1>1, <2>1, <2>2, RingStep, CounterStep, ViewStep DEF IInv, TypeOK, Faithful
  <1>2. CASE Snapshot
    <2>1. view' = [counters |-> counters, events |-> events]
          /\ UNCHANGED <<counters, sequence, events, log>>
      BY <1>2 DEF Snapshot
    <2>2. TypeOK' /\ sequence' = Len(log')
      BY <2>1 DEF IInv, TypeOK, Snapshots
    <2>3. Faithful'
      BY <2>1 DEF IInv, Faithful, Recent, Counted
    <2>4. AtomicSnapshot'
      <3>1. Len(log') \in 0..Len(log')
        BY <2>2 DEF TypeOK
      <3>2. view'.events = events' /\ view'.counters = counters'
        BY <2>1
      <3>3. QED
        BY <2>3, <3>1, <3>2 DEF Faithful, AtomicSnapshot, Recent, Counted
    <2>5. QED
      BY <2>2, <2>3, <2>4 DEF IInv
  <1>3. CASE UNCHANGED vars
    <2>1. UNCHANGED <<counters, sequence, events, view, log>>
      BY <1>3 DEF vars
    <2>2. TypeOK' /\ sequence' = Len(log')
      BY <2>1 DEF IInv, TypeOK
    <2>3. Faithful' /\ AtomicSnapshot'
      BY <2>1 DEF IInv, Faithful, AtomicSnapshot, Recent, Counted
    <2>4. QED
      BY <2>2, <2>3 DEF IInv
  <1>4. QED
    BY <1>1, <1>2, <1>3 DEF Next

(* The invariant holds of every behaviour.                                 *)
THEOREM Invariance == Spec => []IInv
  BY InitInv, InvStep, PTL DEF Spec

(* record: the ring never holds more than MAX_HEALTH_EVENTS events.        *)
THEOREM TypesKept == Spec => []TypeOK
  <1>1. IInv => TypeOK
    BY DEF IInv
  <1>2. QED
    BY <1>1, Invariance, PTL

(* record: counters and recent events always tell of the same errors, and  *)
(* the events are the most recent ones.                                    *)
THEOREM RecordFaithful == Spec => []Faithful
  <1>1. IInv => Faithful
    BY DEF IInv
  <1>2. QED
    BY <1>1, Invariance, PTL

(* snapshot: what a reader of the handle holds was true at one moment.     *)
THEOREM SnapshotAtomic == Spec => []AtomicSnapshot
  <1>1. IInv => AtomicSnapshot
    BY DEF IInv
  <1>2. QED
    BY <1>1, Invariance, PTL

(* The last event of a snapshot is the last error before it.               *)
LEMMA LatestIs ==
  ASSUME NEW n \in Nat, NEW es, es \in Seq(Event), Recent(n, es)
  PROVE  Latest(es) = n
  <1>1. Len(es) \in Nat /\ Len(es) = Least(n, MaxEvents) /\ MaxEvents \in Nat \ {0}
    BY MaxEventsAssumption, LenProperties DEF Recent
  <1>2. CASE es = <<>>
    BY <1>1, <1>2, EmptySeq DEF Latest, Least
  <1>3. CASE es # <<>>
    <2>1. Len(es) \in 1..Len(es)
      BY <1>1, <1>3, EmptySeq
    <2>2. es[Len(es)].sequence = n - Len(es) + Len(es)
      BY <2>1 DEF Recent
    <2>3. QED
      BY <1>1, <1>3, <2>2 DEF Latest
  <1>4. QED
    BY <1>2, <1>3

LEMMA MonitorStep ==
  ASSUME IInv, Snapshot
  PROVE  /\ Latest(view'.events) = Len(log)
         /\ Cardinality(NewErrors) <= MaxEvents =>
              Seen = {[sequence |-> i, kind |-> log[i]] : i \in NewErrors}
  <1> DEFINE l == Len(log)
             size == Len(events)
  <1>1. PICK n \in 0..l : Recent(n, view.events)
    BY DEF IInv, AtomicSnapshot
  <1>2. l \in Nat /\ n \in Nat /\ size \in Nat /\ MaxEvents \in Nat \ {0}
    BY MaxEventsAssumption, LenProperties DEF IInv, TypeOK
  <1>3. Latest(view.events) = n
    BY <1>1, <1>2, LatestIs DEF IInv, TypeOK, Snapshots
  <1>4. view'.events = events
    BY DEF Snapshot
  <1>5. Recent(l, events)
    BY DEF IInv, Faithful
  <1>6. Latest(view'.events) = l
    BY <1>2, <1>4, <1>5, LatestIs DEF IInv, TypeOK
  <1>7. /\ size = Least(l, MaxEvents) /\ DOMAIN events = 1..size
        /\ \A i \in 1..size : events[i] = [sequence |-> l - size + i, kind |-> log[l - size + i]]
    BY <1>5, LenProperties DEF IInv, TypeOK, Recent
  <1>8. NewErrors = (n + 1)..l
    BY <1>2, <1>3 DEF NewErrors
  <1>9. Cardinality(NewErrors) = l - n
    <2> DEFINE first == n + 1
    <2>1. first \in Int /\ l \in Int
      BY <1>2
    <2> HIDE DEF first, l
    <2>2. Cardinality(first..l) = IF first > l THEN 0 ELSE l - first + 1
      BY <2>1, FS_Interval
    <2>3. QED
      BY <1>1, <1>2, <1>8, <2>2 DEF first
  <1> HIDE DEF l, size
  <1>10. ASSUME Cardinality(NewErrors) <= MaxEvents
         PROVE  Seen = {[sequence |-> i, kind |-> log[i]] : i \in NewErrors}
    <2>1. l - size <= n
      BY <1>1, <1>2, <1>7, <1>9, <1>10 DEF Least
    <2>2. Seen = {e \in {events[i] : i \in 1..size} : e.sequence > n}
      BY <1>3, <1>4, <1>7 DEF Seen
    <2>3. ASSUME NEW e \in Seen
          PROVE  e \in {[sequence |-> i, kind |-> log[i]] : i \in NewErrors}
      <3>1. PICK i \in 1..size : e = events[i] /\ e.sequence > n
        BY <2>2
      <3>2. e = [sequence |-> l - size + i, kind |-> log[l - size + i]]
        BY <1>7, <3>1
      <3>3. l - size + i \in (n + 1)..l
        BY <1>2, <3>1, <3>2
      <3>4. QED
        BY <1>8, <3>2, <3>3
    <2>4. ASSUME NEW i \in NewErrors
          PROVE  [sequence |-> i, kind |-> log[i]] \in Seen
      <3> DEFINE at == i - (l - size)
      <3>1. at \in 1..size /\ l - size + at = i /\ i > n
        BY <1>2, <1>8, <2>1
      <3>2. events[at] = [sequence |-> i, kind |-> log[i]]
        BY <1>7, <3>1
      <3> HIDE DEF at
      <3>3. QED
        BY <2>2, <3>1, <3>2
    <2>5. QED
      BY <2>3, <2>4
  <1>11. QED
    BY <1>6, <1>10 DEF l

(* snapshot: whoever takes snapshots of the handle sees every error, or    *)
(* can tell from the sequence numbers how many it did not see.             *)
THEOREM MonitorComplete == Spec => NothingMissed
  <1>1. IInv /\ [Next]_vars =>
          [/\ Latest(view'.events) = Len(log)
           /\ Cardinality(NewErrors) <= MaxEvents =>
                Seen = {[sequence |-> i, kind |-> log[i]] : i \in NewErrors}]_view
    <2> SUFFICES ASSUME IInv, [Next]_vars, view' # view PROVE Snapshot
      BY MonitorStep
    <2>1. ASSUME NEW kind \in HealthErrorKind PROVE ~Record(kind)
      BY DEF Record
    <2>2. QED
      BY <2>1 DEF Next, vars
  <1>2. QED
    BY <1>1, Invariance, PTL DEF Spec, NothingMissed
=============================================================================
