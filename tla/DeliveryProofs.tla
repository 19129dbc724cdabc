--------------------------- MODULE DeliveryProofs ---------------------------
(***************************************************************************)
(* The transport is a mailbox: it implements Delivery, for any number of   *)
(* samples and any sizes of history, batch and queue.  The numbers of the  *)
(* samples grow along the way back from a listener: its last call, the job *)
(* in hand, the queue, the batch and the reader.  The one place where they *)
(* may be equal is the sample that is being fanned out, and there the      *)
(* registrations that have had it are no longer in the snapshot.           *)
(***************************************************************************)
EXTENDS TransportProofs

Increasing(s) == \A i, k \in 1..Len(s) : i < k => s[i].id < s[k].id

(* What has not been fanned out yet is in the order of arrival.            *)
Upstream ==
  /\ Increasing(reader) /\ Increasing(batch)
  /\ \A i \in 1..Len(reader) : reader[i].id <= arrived
  /\ \A i \in 1..Len(batch) :
       batch[i].id <= arrived /\ \A k \in 1..Len(reader) : batch[i].id < reader[k].id

(* Whatever may still be submitted for r is beyond sample n.               *)
Beyond(r, n) ==
  /\ n <= arrived
  /\ \A i \in 1..Len(reader) : n < reader[i].id
  /\ \A i \in 1..Len(batch) :
       \/ n < batch[i].id
       \/ i = 1 /\ poller = "fanout" /\ n = batch[1].id /\ r \notin snap

CallsInOrder == \A r \in Regs : Beyond(r, last[r])

QueueInOrder ==
  /\ \A i \in 1..Len(queue) :
       Beyond(queue[i].reg, queue[i].id) /\ last[queue[i].reg] < queue[i].id
  /\ \A i, k \in 1..Len(queue) :
       i < k /\ queue[i].reg = queue[k].reg => queue[i].id < queue[k].id

JobInOrder ==
  dispatcher = "begin" =>
    /\ Beyond(job.reg, job.id) /\ last[job.reg] < job.id
    /\ \A i \in 1..Len(queue) : queue[i].reg = job.reg => job.id < queue[i].id

Ordered == Upstream /\ CallsInOrder /\ QueueInOrder /\ JobInOrder
-----------------------------------------------------------------------------
(* What each step of the poller does to the samples, element by element.   *)
LEMMA DeliverSamples ==
  ASSUME Base, NEW c \in Contents, Deliver(c)
  PROVE  \E d \in {0, 1} :
           /\ d <= Len(reader)
           /\ Len(reader') = Len(reader) - d + 1
           /\ \A i \in 1..(Len(reader) - d) : reader'[i] = reader[i + d]
           /\ reader'[Len(reader) - d + 1].id = arrived + 1
  <1> DEFINE kept == IF Len(reader) = Depth THEN Tail(reader) ELSE reader
             sample == [id |-> arrived + 1, kind |-> c.kind, to |-> c.to]
             d == IF Len(reader) = Depth THEN 1 ELSE 0
  <1>1. Depth \in Nat \ {0} /\ MaxSamples \in Nat
    BY ConfigAssumption, BoundsAssumption
  <1>2. reader \in Seq(Sample) /\ Len(reader) \in Nat
    BY LenProperties DEF Base, TypeOK, PollerTypes
  <1>3. reader' = Append(kept, sample) /\ sample \in Sample
    BY <1>1, ContentsAssumption DEF Deliver, Base, TypeOK, PollerTypes, Sample
  <1>4. /\ kept \in Seq(Sample) /\ Len(kept) = Len(reader) - d /\ d <= Len(reader)
        /\ \A i \in 1..Len(kept) : kept[i] = reader[i + d]
    <2>1. CASE Len(reader) = Depth
      <3>1. reader # <<>>
        BY <1>1, <2>1, EmptySeq
      <3>2. QED
        BY <1>1, <1>2, <2>1, <3>1, HeadTailProperties
    <2>2. CASE Len(reader) # Depth
      BY <1>2, <2>2
    <2>3. QED
      BY <2>1, <2>2
  <1>5. sample.id = arrived + 1
    OBVIOUS
  <1>6. d \in {0, 1}
    OBVIOUS
  <1> HIDE DEF kept, sample, d
  <1>7. /\ Len(reader') = Len(kept) + 1
        /\ \A i \in 1..Len(kept) : reader'[i] = kept[i]
        /\ reader'[Len(kept) + 1] = sample
    BY <1>3, <1>4, AppendProperties
  <1>8. QED
    BY <1>2, <1>4, <1>5, <1>6, <1>7

LEMMA TakeSamples ==
  ASSUME Base, Take
  PROVE  \E n \in 0..Len(reader) :
           /\ Len(batch') = n /\ \A i \in 1..n : batch'[i] = reader[i]
           /\ Len(reader') = Len(reader) - n
           /\ \A i \in 1..(Len(reader) - n) : reader'[i] = reader[i + n]
  <1> DEFINE n == Least(MaxTake, Len(reader))
  <1>1. reader \in Seq(Sample) /\ Len(reader) \in Nat /\ MaxTake \in Nat \ {0}
    BY ConfigAssumption, LenProperties DEF Base, TypeOK, PollerTypes
  <1>2. n \in 0..Len(reader)
    BY <1>1 DEF Least
  <1>3. batch' = SubSeq(reader, 1, n) /\ reader' = SubSeq(reader, n + 1, Len(reader))
    BY DEF Take
  <1>4. \A i \in 1..Len(reader) : reader[i] \in Sample
    BY <1>1, ElementOfSeq
  <1> HIDE DEF n
  <1>5. /\ Len(SubSeq(reader, 1, n)) = IF 1 <= n THEN n - 1 + 1 ELSE 0
        /\ \A i \in 1..(n - 1 + 1) : SubSeq(reader, 1, n)[i] = reader[1 + i - 1]
    <2>1. \A i \in 1..n : reader[i] \in Sample
      BY <1>1, <1>2, <1>4
    <2>2. n \in Int /\ 1 \in Int
      BY <1>1, <1>2
    <2>3. QED
      BY <2>1, <2>2, SubSeqProperties
  <1>6. /\ Len(SubSeq(reader, n + 1, Len(reader)))
             = IF n + 1 <= Len(reader) THEN Len(reader) - (n + 1) + 1 ELSE 0
        /\ \A i \in 1..(Len(reader) - (n + 1) + 1) :
             SubSeq(reader, n + 1, Len(reader))[i] = reader[n + 1 + i - 1]
    <2>1. \A i \in (n + 1)..Len(reader) : reader[i] \in Sample
      BY <1>1, <1>2, <1>4
    <2>2. n + 1 \in Int /\ Len(reader) \in Int
      BY <1>1, <1>2
    <2>3. QED
      BY <2>1, <2>2, SubSeqProperties
  <1>7. Len(batch') = n /\ \A i \in 1..n : batch'[i] = reader[i]
    BY <1>1, <1>2, <1>3, <1>5
  <1>8. /\ Len(reader') = Len(reader) - n
        /\ \A i \in 1..(Len(reader) - n) : reader'[i] = reader[i + n]
    BY <1>1, <1>2, <1>3, <1>6
  <1>9. QED
    BY <1>2, <1>7, <1>8

LEMMA GoOnSamples ==
  ASSUME Base, batch # <<>>, NEW rs, GoOn(rs)
  PROVE  /\ rs # {} => batch' = batch /\ snap' = rs /\ poller' = "fanout"
         /\ rs = {} => /\ Len(batch') = Len(batch) - 1
                       /\ \A i \in 1..(Len(batch) - 1) : batch'[i] = batch[i + 1]
  <1>1. batch \in Seq(Sample)
    BY DEF Base, TypeOK, PollerTypes
  <1>2. QED
    BY <1>1, HeadTailProperties DEF GoOn

LEMMA Lengths ==
  ASSUME TypeOK
  PROVE  /\ Len(reader) \in Nat /\ Len(batch) \in Nat /\ Len(queue) \in Nat /\ arrived \in Nat
         /\ \A i \in 1..Len(reader) : reader[i].id \in Nat \ {0}
         /\ \A i \in 1..Len(batch) : batch[i].id \in Nat \ {0}
         /\ \A i \in 1..Len(queue) : queue[i].id \in Nat \ {0} /\ queue[i].reg \in Regs
         /\ \A r \in Regs : last[r] \in Nat
         /\ job # NoJob => job.id \in Nat \ {0} /\ job.reg \in Regs
  <1>1. MaxSamples \in Nat
    BY BoundsAssumption
  <1>2. reader \in Seq(Sample) /\ batch \in Seq(Sample) /\ queue \in Seq(Jobs)
    BY DEF TypeOK, PollerTypes, DispatcherTypes
  <1>3. Len(reader) \in Nat /\ Len(batch) \in Nat /\ Len(queue) \in Nat
    BY <1>2, LenProperties
  <1>4. /\ \A i \in 1..Len(reader) : reader[i] \in Sample
        /\ \A i \in 1..Len(batch) : batch[i] \in Sample
        /\ \A i \in 1..Len(queue) : queue[i] \in Jobs
    BY <1>2, ElementOfSeq
  <1>5. \A s \in Sample : s.id \in Nat \ {0}
    BY <1>1 DEF Sample
  <1>6. \A j \in Jobs : j.id \in Nat \ {0} /\ j.reg \in Regs
    BY <1>1 DEF Jobs
  <1>7. arrived \in Nat /\ \A r \in Regs : last[r] \in Nat
    BY <1>1 DEF TypeOK, PollerTypes, RecordTypes
  <1>8. job # NoJob => job \in Jobs
    BY DEF TypeOK, DispatcherTypes
  <1>9. QED
    BY <1>3, <1>4, <1>5, <1>6, <1>7, <1>8

(* The ways the samples move: one arrives, some are taken, the poller is   *)
(* through with one, the snapshot of one gets made or smaller, or the      *)
(* poller dies with its batch.                                             *)
Arrives ==
  /\ \E d \in {0, 1} :
       /\ d <= Len(reader)
       /\ Len(reader') = Len(reader) - d + 1
       /\ \A i \in 1..(Len(reader) - d) : reader'[i] = reader[i + d]
       /\ reader'[Len(reader) - d + 1].id = arrived + 1
  /\ arrived' = arrived + 1
  /\ UNCHANGED <<poller, batch, snap>>

Taken ==
  /\ Len(batch) = 0
  /\ \E n \in 0..Len(reader) :
       /\ Len(batch') = n /\ \A i \in 1..n : batch'[i] = reader[i]
       /\ Len(reader') = Len(reader) - n
       /\ \A i \in 1..(Len(reader) - n) : reader'[i] = reader[i + n]
  /\ UNCHANGED arrived

Through ==
  /\ Len(batch) > 0
  /\ Len(batch') = Len(batch) - 1
  /\ \A i \in 1..(Len(batch) - 1) : batch'[i] = batch[i + 1]
  /\ UNCHANGED <<reader, arrived>>

FansOut ==
  /\ poller' = "fanout" /\ (poller = "fanout" => snap' \subseteq snap)
  /\ UNCHANGED <<reader, arrived, batch>>

Rests ==
  /\ UNCHANGED <<reader, arrived, batch, snap>>
  /\ poller' = poller \/ Len(batch) = 0

Perishes == Len(batch') = 0 /\ UNCHANGED <<reader, arrived>>

LEMMA SamplesMove ==
  ASSUME Base, [Next]_vars
  PROVE  Arrives \/ Taken \/ Through \/ FansOut \/ Rests \/ Perishes
  <1> DEFINE Goal == Arrives \/ Taken \/ Through \/ FansOut \/ Rests \/ Perishes
  <1>1. TypeOK /\ Control /\ Len(batch) \in Nat
    BY Lengths DEF Base
  <1>2. batch # <<>> => Len(batch) > 0
    BY EmptySeq DEF Base, TypeOK, PollerTypes
  <1>3. batch = <<>> => Len(batch) = 0
    BY EmptySeq
  <1>4. ASSUME NEW c \in Contents, Deliver(c) PROVE Goal
    BY <1>4, DeliverSamples DEF Deliver, Arrives, pollerVars
  <1>5. CASE Take
    BY <1>1, <1>3, <1>5, TakeSamples DEF Take, Taken, Control
  <1>6. ASSUME NEW rs, batch # <<>>, GoOn(rs), poller = "fanout" => rs \subseteq snap,
               UNCHANGED <<reader, arrived>>
        PROVE  Goal
    BY <1>2, <1>6, GoOnSamples DEF Through, FansOut
  <1>7. CASE SkipSample \/ RejectSample
    BY <1>1, <1>6, <1>7 DEF SkipSample, RejectSample, Control
  <1>8. CASE RouteSample
    BY <1>1, <1>6, <1>8 DEF RouteSample, Control
  <1>9. ASSUME NEW r \in Regs, Submit(r) PROVE Goal
    <2>1. batch # <<>> /\ UNCHANGED <<reader, arrived>>
      BY <1>1, <1>9 DEF Submit, Control
    <2>2. CASE GoOn(snap \ {r})
      BY <1>6, <2>1, <2>2
    <2>3. CASE PollerUnwinds(r)
      BY <2>1, <2>3, EmptySeq DEF PollerUnwinds, Perishes
    <2>4. QED
      BY <1>9, <2>2, <2>3, SubmitCases
  <1>10. CASE PollWait \/ TakeFails
    BY <1>1, <1>3, <1>10 DEF PollWait, TakeFails, Rests, Control
  <1>11. CASE UNCHANGED <<reader, arrived, poller, batch, snap>>
    BY <1>11 DEF Rests
  <1>12. QED
    BY PollerFrame, <1>4, <1>5, <1>7, <1>8, <1>9, <1>10, <1>11 DEF Polling

(* However they move, they stay in order.                                  *)
LEMMA UpstreamStep ==
  ASSUME Base, Upstream, [Next]_vars
  PROVE  Upstream'
  <1>1. TypeOK /\ TypeOK'
    BY BaseStep DEF Base
  <1>2. /\ Len(reader) \in Nat /\ Len(batch) \in Nat /\ arrived \in Nat
        /\ \A i \in 1..Len(reader) : reader[i].id \in Nat
        /\ \A i \in 1..Len(batch) : batch[i].id \in Nat
    BY <1>1, Lengths
  <1> USE <1>2 DEF Upstream, Increasing
  <1>3. CASE Arrives
    <2>1. PICK d \in {0, 1} :
             /\ d <= Len(reader)
             /\ Len(reader') = Len(reader) - d + 1
             /\ \A i \in 1..(Len(reader) - d) : reader'[i] = reader[i + d]
             /\ reader'[Len(reader) - d + 1].id = arrived + 1
      BY <1>3 DEF Arrives
    <2>2. arrived' = arrived + 1 /\ batch' = batch
      BY <1>3 DEF Arrives
    <2>3. ASSUME NEW i \in 1..Len(reader')
          PROVE  \/ i = Len(reader) - d + 1 /\ reader'[i].id = arrived + 1
                 \/ /\ i \in 1..(Len(reader) - d) /\ i + d \in 1..Len(reader)
                    /\ reader'[i] = reader[i + d]
      BY SMTT(30), <2>1
    <2>4. ASSUME NEW i \in 1..Len(reader'), NEW k \in 1..Len(reader'), i < k
          PROVE  reader'[i].id < reader'[k].id
      <3>1. i \in 1..(Len(reader) - d) /\ i + d \in 1..Len(reader) /\ reader'[i] = reader[i + d]
        BY SMTT(30), <2>1, <2>4
      <3>2. CASE k = Len(reader) - d + 1
        BY SMTT(30), <2>1, <3>1, <3>2
      <3>3. CASE k # Len(reader) - d + 1
        <4>1. k \in 1..(Len(reader) - d) /\ k + d \in 1..Len(reader) /\ i + d < k + d
          BY <2>1, <2>4, <3>3
        <4>2. QED
          BY <2>1, <3>1, <4>1
      <3>4. QED
        BY <3>2, <3>3
    <2>5. ASSUME NEW i \in 1..Len(reader') PROVE reader'[i].id <= arrived'
      <3>1. CASE i = Len(reader) - d + 1
        BY <2>1, <2>2, <3>1
      <3>2. CASE i # Len(reader) - d + 1
        <4>1. i \in 1..(Len(reader) - d) /\ i + d \in 1..Len(reader)
          BY <2>1, <3>2
        <4>2. QED
          BY SMTT(30), <2>1, <2>2, <4>1
      <3>3. QED
        BY <3>1, <3>2
    <2>6. \A i \in 1..Len(batch') :
            batch'[i].id <= arrived' /\ \A k \in 1..Len(reader') : batch'[i].id < reader'[k].id
      BY SMTT(30), <2>1, <2>2, <2>3
    <2>7. QED
      BY <2>2, <2>4, <2>5, <2>6
  <1>4. CASE Taken
    <2>1. PICK n \in 0..Len(reader) :
             /\ Len(batch') = n /\ \A i \in 1..n : batch'[i] = reader[i]
             /\ Len(reader') = Len(reader) - n
             /\ \A i \in 1..(Len(reader) - n) : reader'[i] = reader[i + n]
      BY <1>4 DEF Taken
    <2>2. arrived' = arrived
      BY <1>4 DEF Taken
    <2>3. ASSUME NEW i \in 1..Len(reader')
          PROVE  i + n \in (n + 1)..Len(reader) /\ reader'[i] = reader[i + n]
      BY <2>1
    <2>4. ASSUME NEW i \in 1..Len(batch')
          PROVE  i \in 1..Len(reader) /\ i <= n /\ batch'[i] = reader[i]
      BY <2>1
    <2>5. Increasing(reader') /\ Increasing(batch')
      <3>1. ASSUME NEW i \in 1..Len(reader'), NEW k \in 1..Len(reader'), i < k
            PROVE  reader'[i].id < reader'[k].id
        <4>1. i + n \in 1..Len(reader) /\ k + n \in 1..Len(reader) /\ i + n < k + n
          BY <2>1, <3>1
        <4>2. QED
          BY <2>3, <4>1
      <3>2. ASSUME NEW i \in 1..Len(batch'), NEW k \in 1..Len(batch'), i < k
            PROVE  batch'[i].id < batch'[k].id
        BY <2>4, <3>2
      <3>3. QED
        BY <3>1, <3>2
    <2>6. ASSUME NEW i \in 1..Len(reader') PROVE reader'[i].id <= arrived'
      <3>1. i + n \in 1..Len(reader)
        BY <2>1
      <3>2. QED
        BY <2>2, <2>3, <3>1
    <2>7. ASSUME NEW i \in 1..Len(batch')
          PROVE  batch'[i].id <= arrived' /\ \A k \in 1..Len(reader') : batch'[i].id < reader'[k].id
      <3>1. ASSUME NEW k \in 1..Len(reader') PROVE batch'[i].id < reader'[k].id
        <4>1. k + n \in 1..Len(reader) /\ i < k + n
          BY <2>1, <2>4
        <4>2. QED
          BY <2>3, <2>4, <4>1
      <3>2. QED
        BY <2>2, <2>4, <3>1
    <2>8. QED
      BY <2>5, <2>6, <2>7
  <1>5. CASE Through
    <2>1. ASSUME NEW i \in 1..Len(batch')
          PROVE  i + 1 \in 1..Len(batch) /\ batch'[i] = batch[i + 1]
      BY <1>5 DEF Through
    <2>2. reader' = reader /\ arrived' = arrived /\ Len(batch') \in Nat
      BY <1>5 DEF Through
    <2>3. ASSUME NEW i \in 1..Len(batch'), NEW k \in 1..Len(batch'), i < k
          PROVE  batch'[i].id < batch'[k].id
      <3>1. i + 1 \in 1..Len(batch) /\ k + 1 \in 1..Len(batch) /\ i + 1 < k + 1
        BY <2>1, <2>3
      <3>2. QED
        BY <2>1, <3>1
    <2>4. QED
      BY <2>1, <2>2, <2>3
  <1>6. CASE FansOut \/ Rests \/ Perishes
    BY <1>6 DEF FansOut, Rests, Perishes
  <1>7. QED
    BY <1>3, <1>4, <1>5, <1>6, SamplesMove

(* What was beyond n for r stays beyond n.                                 *)
LEMMA BeyondStep ==
  ASSUME Base, Upstream, [Next]_vars, NEW r \in Regs, NEW n \in Nat, Beyond(r, n)
  PROVE  Beyond(r, n)'
  <1>1. TypeOK
    BY DEF Base
  <1>2. /\ Len(reader) \in Nat /\ Len(batch) \in Nat /\ arrived \in Nat
        /\ \A i \in 1..Len(reader) : reader[i].id \in Nat
        /\ \A i \in 1..Len(batch) : batch[i].id \in Nat
    BY <1>1, Lengths
  <1> USE <1>2 DEF Upstream, Increasing, Beyond
  <1>3. CASE Arrives
    <2>1. PICK d \in {0, 1} :
             /\ d <= Len(reader)
             /\ Len(reader') = Len(reader) - d + 1
             /\ \A i \in 1..(Len(reader) - d) : reader'[i] = reader[i + d]
             /\ reader'[Len(reader) - d + 1].id = arrived + 1
      BY <1>3 DEF Arrives
    <2>2. ASSUME NEW i \in 1..Len(reader') PROVE n < reader'[i].id
      <3>1. CASE i = Len(reader) - d + 1
        BY <2>1, <3>1
      <3>2. CASE i # Len(reader) - d + 1
        <4>1. i \in 1..(Len(reader) - d) /\ i + d \in 1..Len(reader)
          BY <2>1, <3>2
        <4>2. QED
          BY <2>1, <4>1
      <3>3. QED
        BY <3>1, <3>2
    <2>3. QED
      BY <1>3, <2>2 DEF Arrives
  <1>4. CASE Taken
    <2>1. PICK t \in 0..Len(reader) :
             /\ Len(batch') = t /\ \A i \in 1..t : batch'[i] = reader[i]
             /\ Len(reader') = Len(reader) - t
             /\ \A i \in 1..(Len(reader) - t) : reader'[i] = reader[i + t]
      BY <1>4 DEF Taken
    <2>2. ASSUME NEW i \in 1..Len(reader') PROVE n < reader'[i].id
      <3>1. i + t \in 1..Len(reader) /\ reader'[i] = reader[i + t]
        BY <2>1
      <3>2. QED
        BY <3>1
    <2>3. ASSUME NEW i \in 1..Len(batch') PROVE n < batch'[i].id
      <3>1. i \in 1..Len(reader) /\ batch'[i] = reader[i]
        BY <2>1
      <3>2. QED
        BY <3>1
    <2>4. n <= arrived'
      BY <1>4 DEF Taken
    <2>5. QED
      BY <2>2, <2>3, <2>4
  <1>5. CASE Through
    <2>1. ASSUME NEW i \in 1..Len(batch') PROVE n < batch'[i].id
      <3>1. i + 1 \in 1..Len(batch) /\ i + 1 # 1 /\ batch'[i] = batch[i + 1]
        BY <1>5 DEF Through
      <3>2. QED
        BY <3>1
    <2>2. QED
      BY <1>5, <2>1 DEF Through
  <1>6. CASE FansOut \/ Rests \/ Perishes
    BY <1>6 DEF FansOut, Rests, Perishes
  <1>7. QED
    BY <1>3, <1>4, <1>5, <1>6, SamplesMove
-----------------------------------------------------------------------------
(* Listeners are called by BeginJob alone.                                 *)
LEMMA LastFrame == [Next]_vars => BeginJob \/ last' = last
  BY RecordFrame DEF RefuseJob, RouteSample, Panic, Submit, Join, LetGo, historyVars

(* Hence each listener is called in the order of arrival.                  *)
LEMMA CallsStep ==
  ASSUME Base, Ordered, [Next]_vars
  PROVE  CallsInOrder'
  <1>1. TypeOK /\ Control
    BY DEF Base
  <1>2. ASSUME NEW r \in Regs, NEW m \in Nat, last'[r] = m, Beyond(r, m)
        PROVE  Beyond(r, last[r])'
    <2>1. Beyond(r, m)'
      BY <1>2, BeyondStep DEF Ordered
    <2>2. QED
      BY <1>2, <2>1 DEF Beyond
  <1>3. ASSUME NEW r \in Regs PROVE Beyond(r, last[r])'
    <2>1. last[r] \in Nat /\ Beyond(r, last[r])
      BY <1>1, Lengths DEF Ordered, CallsInOrder
    <2>2. CASE last'[r] = last[r]
      BY <1>2, <2>1, <2>2
    <2>3. CASE BeginJob /\ r = job.reg
      <3>1. last' = [last EXCEPT ![job.reg] = job.id] /\ dispatcher = "begin" /\ job # NoJob
        BY <1>1, <2>3 DEF BeginJob, Control
      <3>2. job.id \in Nat /\ last'[r] = job.id /\ Beyond(r, job.id)
        BY <1>1, <2>3, <3>1, Lengths DEF Ordered, JobInOrder, TypeOK, RecordTypes
      <3>3. QED
        BY <1>2, <3>2
    <2>4. CASE BeginJob /\ r # job.reg
      BY <1>1, <2>2, <2>4 DEF BeginJob, TypeOK, RecordTypes
    <2>5. CASE last' = last
      BY <2>2, <2>5
    <2>6. QED
      BY <2>3, <2>4, <2>5, LastFrame
  <1>4. QED
    BY <1>3 DEF CallsInOrder

(* A job in the queue stays behind what is to come and beyond what was.    *)
LEMMA QueuedStays ==
  ASSUME Base, Ordered, [Next]_vars, NEW i \in 1..Len(queue), NEW r \in Regs, NEW m \in Nat,
         r = queue[i].reg, m = queue[i].id
  PROVE  Beyond(r, m)' /\ last'[r] < m
  <1>1. TypeOK /\ Control
    BY DEF Base
  <1>2. Beyond(r, m) /\ last[r] < m
    BY DEF Ordered, QueueInOrder
  <1>3. Beyond(r, m)'
    BY <1>2, BeyondStep DEF Ordered
  <1>4. last'[r] < m
    <2>1. CASE BeginJob /\ r = job.reg
      <3>1. dispatcher = "begin" /\ last'[r] = job.id
        BY <1>1, <2>1 DEF BeginJob, TypeOK, RecordTypes
      <3>2. QED
        BY <2>1, <3>1 DEF Ordered, JobInOrder
    <2>2. CASE BeginJob /\ r # job.reg
      BY <1>1, <1>2, <2>2 DEF BeginJob, TypeOK, RecordTypes
    <2>3. CASE last' = last
      BY <1>2, <2>3
    <2>4. QED
      BY <2>1, <2>2, <2>3, LastFrame
  <1>5. QED
    BY <1>3, <1>4

(* A job that is submitted comes after all that its registration was       *)
(* called or is queued with, and before what is to come.                   *)
LEMMA SubmittedFits ==
  ASSUME Base, Ordered, NEW r \in Regs, Submit(r), GoOn(snap \ {r}), NEW m \in Nat,
         m = Head(batch).id
  PROVE  /\ Beyond(r, m)'
         /\ last' = last /\ last[r] < m
         /\ \A i \in 1..Len(queue) : queue[i].reg = r => queue[i].id < m
         /\ dispatcher = "begin" /\ job.reg = r => job.id < m
  <1>1. TypeOK /\ Control
    BY DEF Base
  <1>2. batch # <<>> /\ r \in snap /\ GoOn(snap \ {r}) /\ poller = "fanout"
          /\ UNCHANGED <<reader, arrived, last>>
    BY <1>1 DEF Submit, Control
  <1>3. Len(batch) \in Nat \ {0} /\ m = batch[1].id /\ 1 \in 1..Len(batch)
    BY <1>1, <1>2, EmptySeq DEF TypeOK, PollerTypes
  <1>4. /\ Len(reader) \in Nat /\ arrived \in Nat
        /\ \A i \in 1..Len(reader) : reader[i].id \in Nat
        /\ \A i \in 1..Len(batch) : batch[i].id \in Nat
        /\ \A i \in 1..Len(queue) : queue[i].id \in Nat
        /\ last[r] \in Nat /\ (job # NoJob => job.id \in Nat)
    BY <1>1, Lengths
  <1>5. ASSUME NEW n, Beyond(r, n) PROVE n < m
    BY <1>2, <1>3, <1>5 DEF Beyond
  <1>6. Beyond(r, m)'
    <2>1. m <= arrived' /\ \A i \in 1..Len(reader') : m < reader'[i].id
      BY <1>2, <1>3 DEF Ordered, Upstream
    <2>2. \A i \in 2..Len(batch) : m < batch[i].id
      BY <1>3 DEF Ordered, Upstream, Increasing
    <2>3. CASE snap \ {r} = {}
      <3>1. /\ Len(batch') = Len(batch) - 1
            /\ \A i \in 1..(Len(batch) - 1) : batch'[i] = batch[i + 1]
        BY <1>2, <2>3, GoOnSamples
      <3>2. ASSUME NEW i \in 1..Len(batch') PROVE m < batch'[i].id
        <4>1. i + 1 \in 2..Len(batch) /\ batch'[i] = batch[i + 1]
          BY <1>3, <3>1
        <4>2. QED
          BY <2>2, <4>1
      <3>3. QED
        BY <2>1, <3>2 DEF Beyond
    <2>4. CASE snap \ {r} # {}
      <3>1. batch' = batch /\ snap' = snap \ {r} /\ poller' = "fanout"
        BY <1>2, <2>4, GoOnSamples
      <3>2. QED
        BY <1>3, <2>1, <2>2, <3>1 DEF Beyond
    <2>5. QED
      BY <2>3, <2>4
  <1>7. last[r] < m
    BY <1>5 DEF Ordered, CallsInOrder
  <1>8. \A i \in 1..Len(queue) : queue[i].reg = r => queue[i].id < m
    BY <1>5 DEF Ordered, QueueInOrder
  <1>9. dispatcher = "begin" /\ job.reg = r => job.id < m
    BY <1>5 DEF Ordered, JobInOrder
  <1>10. QED
    BY <1>2, <1>6, <1>7, <1>8, <1>9

(* The ways the queue changes.                                             *)
Queued ==
  \E r \in Regs :
    /\ Submit(r) /\ GoOn(snap \ {r})
    /\ Len(queue') = Len(queue) + 1
    /\ \A i \in 1..Len(queue) : queue'[i] = queue[i]
    /\ queue'[Len(queue) + 1] = [reg |-> r, id |-> Head(batch).id]

Received ==
  /\ Recv
  /\ Len(queue) > 0 /\ job' = queue[1]
  /\ Len(queue') = Len(queue) - 1
  /\ \A i \in 1..(Len(queue) - 1) : queue'[i] = queue[i + 1]

Abandoned == Len(queue') = 0 /\ dispatcher' # "begin"

LEMMA QueueMoves ==
  ASSUME Base, [Next]_vars
  PROVE  Queued \/ Received \/ Abandoned \/ queue' = queue
  <1>1. queue \in Seq(Jobs) /\ TypeOK /\ Control
    BY DEF Base, TypeOK, DispatcherTypes
  <1>2. ASSUME NEW r \in Regs, Submit(r) PROVE Queued \/ queue' = queue
    <2>1. [reg |-> r, id |-> Head(batch).id] \in Jobs
      <3>1. Head(batch) \in Sample
        BY <1>1, <1>2, HeadTailProperties DEF TypeOK, Control, Submit, PollerTypes
      <3>2. QED
        BY <3>1 DEF Sample, Jobs
    <2>2. CASE /\ queue' = Append(queue, [reg |-> r, id |-> Head(batch).id])
               /\ GoOn(snap \ {r})
      <3>1. /\ Len(queue') = Len(queue) + 1
            /\ \A i \in 1..Len(queue) : queue'[i] = queue[i]
            /\ queue'[Len(queue) + 1] = [reg |-> r, id |-> Head(batch).id]
        BY <1>1, <2>1, <2>2, AppendProperties
      <3>2. QED
        BY <1>2, <2>2, <3>1 DEF Queued
    <2>3. QED
      BY <1>2, <2>2, SubmitCases
  <1>3. CASE Recv
    <2>1. queue # <<>> /\ queue' = Tail(queue) /\ job' = Head(queue)
      BY <1>3 DEF Recv
    <2>2. Len(queue) \in Nat \ {0}
      BY <1>1, <2>1, EmptySeq
    <2>3. QED
      BY <1>1, <1>3, <2>1, <2>2, HeadTailProperties DEF Received
  <1>4. CASE RecvFails \/ BeginJob \/ RefuseJob \/ Watch \/ Callback
    BY <1>4 DEF RecvFails, BeginJob, RefuseJob, Watch, Callback, Poll, Await, Return,
       Panic, Cancel
  <1>5. CASE Join \/ LetGo
    BY <1>5, EmptySeq DEF Join, LetGo, Unwind, Abandoned
  <1>6. QED
    BY <1>2, <1>3, <1>4, <1>5, DispatcherFrame DEF Dispatching

LEMMA QueueStep ==
  ASSUME Base, Ordered, [Next]_vars
  PROVE  QueueInOrder'
  <1> DEFINE Behind(k) == Beyond(queue[k].reg, queue[k].id) /\ last[queue[k].reg] < queue[k].id
             Apart(i, k) == queue[i].reg = queue[k].reg => queue[i].id < queue[k].id
  <1>1. TypeOK
    BY DEF Base
  <1>2. /\ Len(queue) \in Nat
        /\ \A i \in 1..Len(queue) : queue[i].id \in Nat /\ queue[i].reg \in Regs
        /\ \A i, k \in 1..Len(queue) : i < k => Apart(i, k)
    BY <1>1, Lengths DEF Ordered, QueueInOrder
  <1>3. ASSUME NEW i \in 1..Len(queue), NEW k \in 1..Len(queue'), queue'[k] = queue[i]
        PROVE  Behind(k)'
    <2>1. PICK r \in Regs, m \in Nat : r = queue[i].reg /\ m = queue[i].id
      BY <1>2
    <2>2. Beyond(r, m)' /\ last'[r] < m
      BY <2>1, QueuedStays
    <2>3. QED
      BY <1>3, <2>1, <2>2 DEF Beyond
  <1>4. CASE queue' = queue
    <2>1. \A k \in 1..Len(queue') : Behind(k)'
      BY <1>3, <1>4
    <2>2. \A i, k \in 1..Len(queue') : i < k => Apart(i, k)'
      BY <1>2, <1>4
    <2>3. QED
      BY <2>1, <2>2 DEF QueueInOrder
  <1>5. CASE Queued
    <2>1. PICK r \in Regs :
             /\ Submit(r) /\ GoOn(snap \ {r})
             /\ Len(queue') = Len(queue) + 1
             /\ \A i \in 1..Len(queue) : queue'[i] = queue[i]
             /\ queue'[Len(queue) + 1] = [reg |-> r, id |-> Head(batch).id]
      BY <1>5 DEF Queued
    <2>2. PICK m \in Nat : m = Head(batch).id
      <3>1. Head(batch) \in Sample /\ MaxSamples \in Nat
        BY <2>1, HeadTailProperties, BoundsAssumption
        DEF Base, TypeOK, Control, Submit, PollerTypes
      <3>2. QED
        BY <3>1 DEF Sample
    <2>3. /\ Beyond(r, m)' /\ last' = last /\ last[r] < m
          /\ \A i \in 1..Len(queue) : queue[i].reg = r => queue[i].id < m
      BY <2>1, <2>2, SubmittedFits
    <2>4. queue'[Len(queue) + 1].reg = r /\ queue'[Len(queue) + 1].id = m
      BY <2>1, <2>2
    <2>5. ASSUME NEW k \in 1..Len(queue') PROVE Behind(k)'
      <3>1. CASE k = Len(queue) + 1
        BY <2>3, <2>4, <3>1 DEF Beyond
      <3>2. CASE k # Len(queue) + 1
        <4>1. k \in 1..Len(queue) /\ queue'[k] = queue[k]
          BY <1>2, <2>1, <3>2
        <4>2. QED
          BY <1>3, <4>1
      <3>3. QED
        BY <3>1, <3>2
    <2>6. ASSUME NEW i \in 1..Len(queue'), NEW k \in 1..Len(queue'), i < k PROVE Apart(i, k)'
      <3>1. i \in 1..Len(queue) /\ queue'[i] = queue[i]
        BY <1>2, <2>1, <2>6
      <3>2. CASE k = Len(queue) + 1
        BY <2>3, <2>4, <3>1, <3>2
      <3>3. CASE k # Len(queue) + 1
        <4>1. k \in 1..Len(queue) /\ queue'[k] = queue[k]
          BY <1>2, <2>1, <3>3
        <4>2. QED
          BY <1>2, <2>6, <3>1, <4>1
      <3>4. QED
        BY <3>2, <3>3
    <2>7. QED
      BY <2>5, <2>6 DEF QueueInOrder
  <1>6. CASE Received
    <2>1. ASSUME NEW k \in 1..Len(queue')
          PROVE  k + 1 \in 1..Len(queue) /\ queue'[k] = queue[k + 1]
      BY <1>2, <1>6 DEF Received
    <2>2. ASSUME NEW k \in 1..Len(queue') PROVE Behind(k)'
      BY <1>3, <2>1
    <2>3. ASSUME NEW i \in 1..Len(queue'), NEW k \in 1..Len(queue'), i < k PROVE Apart(i, k)'
      <3>1. Apart(i + 1, k + 1)
        <4>1. i + 1 \in 1..Len(queue) /\ k + 1 \in 1..Len(queue) /\ i + 1 < k + 1
          BY <2>1, <2>3
        <4>2. QED
          BY <1>2, <4>1
      <3>2. QED
        BY <2>1, <3>1
    <2>4. QED
      BY <2>2, <2>3 DEF QueueInOrder
  <1>7. CASE Abandoned
    BY <1>7 DEF Abandoned, QueueInOrder
  <1>8. QED
    BY <1>4, <1>5, <1>6, <1>7, QueueMoves

LEMMA JobStep ==
  ASSUME Base, Ordered, [Next]_vars
  PROVE  JobInOrder'
  <1>1. TypeOK /\ Control
    BY DEF Base
  <1>2. /\ Len(queue) \in Nat
        /\ \A i \in 1..Len(queue) : queue[i].id \in Nat /\ queue[i].reg \in Regs
    BY <1>1, Lengths
  <1>3. CASE Recv
    <2>1. Received
      <3>1. queue' # queue
        <4>1. queue \in Seq(Jobs) /\ queue # <<>> /\ queue' = Tail(queue)
          BY <1>1, <1>3 DEF Recv, TypeOK, DispatcherTypes
        <4>2. Len(queue') = Len(queue) - 1
          BY <4>1, HeadTailProperties
        <4>3. QED
          BY <1>2, <4>2
      <3>2. ASSUME Queued PROVE FALSE
        BY <1>1, <1>3, <3>2 DEF Queued, Submit, Recv, dispatcherVars
      <3>3. QED
        BY <1>3, <3>1, <3>2, QueueMoves DEF Abandoned, Recv
    <2>2. 1 \in 1..Len(queue) /\ job' = queue[1]
      BY <1>2, <2>1 DEF Received
    <2>3. PICK r \in Regs, m \in Nat : r = queue[1].reg /\ m = queue[1].id
      BY <1>2, <2>2
    <2>4. Beyond(r, m)' /\ last'[r] < m
      BY <2>2, <2>3, QueuedStays
    <2>5. ASSUME NEW i \in 1..Len(queue'), queue'[i].reg = r PROVE m < queue'[i].id
      <3>1. i + 1 \in 1..Len(queue) /\ 1 < i + 1 /\ queue'[i] = queue[i + 1]
        BY <1>2, <2>1 DEF Received
      <3>2. QED
        BY <2>2, <2>3, <2>5, <3>1 DEF Ordered, QueueInOrder
    <2>6. QED
      BY <2>2, <2>3, <2>4, <2>5 DEF JobInOrder, Beyond
  <1>4. CASE dispatcher = "begin" /\ dispatcher' = "begin"
    <2>1. job' = job /\ last' = last
      <3>1. job' = job
        BY <1>4, DispatcherFrame
        DEF Dispatching, Recv, RecvFails, BeginJob, RefuseJob, Watch, Join, LetGo, Callback,
            Poll, Await, Return, Panic, Cancel, Submit, dispatcherVars
      <3>2. last' = last
        BY <1>4, LastFrame DEF BeginJob
      <3>3. QED
        BY <3>1, <3>2
    <2>2. job # NoJob
      BY <1>1, <1>4 DEF Control
    <2>3. PICK r \in Regs, m \in Nat : r = job.reg /\ m = job.id
      BY <1>1, <2>2, Lengths
    <2>4. Beyond(r, m) /\ last[r] < m /\ \A i \in 1..Len(queue) : queue[i].reg = r => m < queue[i].id
      BY <1>4, <2>3 DEF Ordered, JobInOrder
    <2>5. Beyond(r, m)'
      BY <2>4, BeyondStep DEF Ordered
    <2>6. ASSUME NEW i \in 1..Len(queue'), queue'[i].reg = r PROVE m < queue'[i].id
      <3>1. CASE queue' = queue
        BY <2>4, <2>6, <3>1
      <3>2. CASE Received
        BY <1>4, <3>2 DEF Received, Recv
      <3>3. CASE Queued
        <4>1. PICK s \in Regs :
                 /\ Submit(s) /\ GoOn(snap \ {s})
                 /\ Len(queue') = Len(queue) + 1
                 /\ \A k \in 1..Len(queue) : queue'[k] = queue[k]
                 /\ queue'[Len(queue) + 1] = [reg |-> s, id |-> Head(batch).id]
          BY <3>3 DEF Queued
        <4>2. PICK n \in Nat : n = Head(batch).id
          <5>1. Head(batch) \in Sample /\ MaxSamples \in Nat
            BY <1>1, <4>1, HeadTailProperties, BoundsAssumption
            DEF TypeOK, Control, Submit, PollerTypes
          <5>2. QED
            BY <5>1 DEF Sample
        <4>3. job.reg = s => job.id < n
          BY <1>4, <4>1, <4>2, SubmittedFits
        <4>4. CASE i = Len(queue) + 1
          BY <2>3, <2>6, <4>1, <4>2, <4>3, <4>4
        <4>5. CASE i # Len(queue) + 1
          <5>1. i \in 1..Len(queue) /\ queue'[i] = queue[i]
            BY <1>2, <4>1, <4>5
          <5>2. QED
            BY <2>4, <2>6, <5>1
        <4>6. QED
          BY <4>4, <4>5
      <3>4. QED
        BY <1>4, <3>1, <3>2, <3>3, QueueMoves DEF Abandoned
    <2>7. QED
      BY <2>1, <2>3, <2>4, <2>5, <2>6 DEF JobInOrder, Beyond
  <1>5. CASE dispatcher' # "begin"
    BY <1>5 DEF JobInOrder
  <1>6. dispatcher' = "begin" => Recv \/ dispatcher = "begin"
    BY DispatcherFrame
    DEF Dispatching, RecvFails, BeginJob, RefuseJob, Watch, Join, LetGo, Unwind, Callback,
        Poll, Await, Return, Panic, Cancel, Submit, dispatcherVars
  <1>7. QED
    BY <1>3, <1>4, <1>5, <1>6

LEMMA OrderedInit == Init => Ordered
  <1> SUFFICES ASSUME Init PROVE Ordered
    OBVIOUS
  <1>1. reader = <<>> /\ batch = <<>> /\ queue = <<>> /\ arrived = 0 /\ dispatcher = "recv"
          /\ last = [r \in Regs |-> 0]
    BY DEF Init
  <1>2. Len(reader) = 0 /\ Len(batch) = 0 /\ Len(queue) = 0
    BY <1>1, EmptySeq
  <1>3. QED
    BY <1>1, <1>2 DEF Ordered, Upstream, Increasing, CallsInOrder, Beyond, QueueInOrder, JobInOrder

LEMMA OrderedStep == Base /\ Ordered /\ [Next]_vars => Ordered'
  BY UpstreamStep, CallsStep, QueueStep, JobStep DEF Ordered

(* Samples, jobs and calls are in order throughout.                        *)
THEOREM AlwaysOrdered == Spec => [](IInv /\ Ordered)
  <1>1. Init => IInv /\ Ordered
    BY InitInv, OrderedInit
  <1>2. (IInv /\ Ordered) /\ [Next]_vars => (IInv /\ Ordered)'
    BY InvStep, OrderedStep DEF IInv
  <1>3. QED
    BY <1>1, <1>2, PTL DEF Spec
-----------------------------------------------------------------------------
(* The mailbox seen in a state of the transport.                           *)
current == IF Live THEN job.reg ELSE NoReg
phase == [r \in Regs |-> R!Phase(r)]

(* Who opens and closes registrations.                                     *)
LEMMA PhaseFrame ==
  ASSUME IInv, [Next]_vars
  PROVE  \/ \E c \in Callers, k \in Keys : Register(c, k)
         \/ \E t \in R!Threads : Deactivation(t)
         \/ phase' = phase
  <1>1. ASSUME UNCHANGED <<key, closed>> PROVE phase' = phase
    BY <1>1 DEF phase, R!Phase
  <1>2. ASSUME NEW c \in Callers, NEW k \in Keys, Unregister(c, k) PROVE UNCHANGED <<key, closed>>
    BY <1>2 DEF Unregister, R!Unregister
  <1>3. ASSUME NEW t \in R!Threads, SpuriousWake(t) PROVE UNCHANGED <<key, closed>>
    BY <1>3 DEF SpuriousWake, R!SpuriousWake
  <1>4. SendFails \/ RuntimeShutdown => UNCHANGED <<key, closed>>
    BY DEF SendFails, RuntimeShutdown, registryVars
  <1>5. (\E c \in Contents : Deliver(c)) => UNCHANGED <<key, closed>>
    BY DEF Deliver, registryVars
  <1>6. Polling => UNCHANGED <<key, closed>>
    BY DEF Polling, PollWait, Take, TakeFails, SkipSample, RejectSample, RouteSample, Submit,
       registryVars
  <1>7. Dispatching => UNCHANGED <<key, closed>>
    BY DEF Dispatching, Recv, RecvFails, BeginJob, R!Begin, RefuseJob, Watch, Join, LetGo,
       registryVars
  <1>8. Callback => UNCHANGED <<key, closed>>
    BY DEF Callback, Poll, Await, Return, Panic, Cancel, R!Release, registryVars
  <1>9. Dropping => UNCHANGED <<key, closed>>
    BY DEF Dropping, Teardown, DropStop, JoinPoller, R!TakeAll, DrainNext, R!DrainNext,
       DrainDone, R!DrainDone, JoinDispatcher, DeleteEntities, DeleteParticipant, Delete,
       Dropped, vars, registryVars
  <1>10. QED
    BY <1>1, <1>2, <1>3, <1>4, <1>5, <1>6, <1>7, <1>8, <1>9 DEF Next, Calls, vars, registryVars

(* Who enters and leaves listeners.                                        *)
LEMMA CurrentFrame ==
  ASSUME IInv, [Next]_vars
  PROVE  BeginJob \/ Return \/ Panic \/ Cancel \/ UNCHANGED <<current, last>>
  <1>1. TypeOK /\ Control
    BY DEF IInv, Base
  <1>2. BeginJob \/ Return \/ Panic \/ Cancel \/ last' = last
    BY LastFrame
  <1>3. CASE UNCHANGED <<job, task>>
    BY <1>2, <1>3 DEF current, Live
  <1>4. CASE Recv \/ RefuseJob \/ LetGo
    BY <1>1, <1>2, <1>4 DEF Recv, RefuseJob, LetGo, current, Live, Control, taskVars
  <1>5. CASE Join
    BY <1>1, <1>2, <1>5 DEF Join, Finished, current, Live
  <1>6. CASE Poll \/ Await
    BY <1>2, <1>6 DEF Poll, Await, current, Live, dispatcherVars
  <1>7. RecvFails \/ Watch => UNCHANGED <<job, task>>
    BY DEF RecvFails, Watch, taskVars
  <1>8. (\E r \in Regs : Submit(r)) => UNCHANGED <<job, task>>
    BY DEF Submit, dispatcherVars, taskVars
  <1>9. QED
    BY <1>2, <1>3, <1>4, <1>5, <1>6, <1>7, <1>8, DispatcherFrame DEF Dispatching, Callback

LEMMA MailboxInit == Init => Mailbox!Init
  <1> SUFFICES ASSUME Init PROVE Mailbox!Init
    OBVIOUS
  <1>1. key = [r \in Regs |-> NoKey] /\ task = "none" /\ last = [r \in Regs |-> 0]
    BY DEF Init, R!Init
  <1>2. QED
    BY <1>1 DEF Mailbox!Init, R!Phase, Live

(* Every step of the transport is one of the mailbox or invisible to it.   *)
LEMMA MailboxStep ==
  ASSUME IInv, Ordered, [Next]_vars
  PROVE  Mailbox!Next \/ UNCHANGED <<phase, current, last>>
  <1>1. TypeOK /\ Control /\ RP!IInv /\ InFlightExact
    BY DEF IInv, Base
  <1>2. ASSUME NEW c \in Callers, NEW k \in Keys, Register(c, k)
        PROVE  Mailbox!Next
    <2>1. R!Register(c, k) /\ UNCHANGED <<job, task, last>>
      BY <1>2 DEF Register, dispatcherVars, taskVars, historyVars
    <2>2. PICK r \in Regs : key[r] = NoKey /\ key' = [key EXCEPT ![r] = k]
      BY <2>1 DEF R!Register
    <2>3. closed' = closed /\ r \notin closed /\ k # NoKey
      BY <1>1, <2>1, <2>2, RegistryAssumption DEF R!Register, RP!IInv, RP!UnusedIsBlank
    <2>4. \A s \in Regs : key'[s] = IF s = r THEN k ELSE key[s]
      BY <1>1, <2>2 DEF TypeOK, R!TypeOK
    <2>5. phase' = [phase EXCEPT ![r] = "open"] /\ phase[r] = "unused"
      <3>1. R!Phase(r) = "unused" /\ R!Phase(r)' = "open"
        BY <2>2, <2>3, <2>4 DEF R!Phase
      <3>2. \A s \in Regs : s # r => R!Phase(s)' = R!Phase(s)
        BY <2>3, <2>4 DEF R!Phase
      <3>3. QED
        BY <3>1, <3>2 DEF phase
    <2>6. current' = current
      BY <2>1 DEF current, Live
    <2>7. Mailbox!Open(r)
      BY <2>1, <2>5, <2>6 DEF Mailbox!Open, phase, current
    <2>8. QED
      BY <2>7 DEF Mailbox!Next
  <1>3. ASSUME NEW t \in R!Threads, Deactivation(t)
        PROVE  Mailbox!Next \/ UNCHANGED <<phase, current, last>>
    <2>1. /\ key' = key /\ R!ReturnOrWait(t) /\ pc[t] \in R!Closing
          /\ UNCHANGED <<job, task, last>>
      BY <1>3 DEF Deactivation, R!Deactivate, R!Recheck, R!Closing, dispatcherVars, taskVars,
         historyVars
    <2>2. current' = current
      BY <2>1 DEF current, Live
    <2>3. target[t] \in Regs /\ key[target[t]] # NoKey /\ target[t] \notin closed
      BY <1>1, <2>1
      DEF RP!IInv, RP!OneCloser, RP!TargetKnown, R!Closing, RP!Closing, R!Threads, RP!Threads
    <2>4. CASE inFlight[target[t]] = 0
      <3>1. closed' = closed \cup {target[t]}
        BY <2>1, <2>4 DEF R!ReturnOrWait
      <3>2. current # target[t]
        BY <1>1, <2>3, <2>4, RegistryAssumption DEF InFlightExact, current
      <3>3. phase' = [phase EXCEPT ![target[t]] = "closed"] /\ phase[target[t]] = "open"
        BY <2>1, <2>3, <3>1 DEF phase, R!Phase
      <3>4. Mailbox!Close(target[t])
        BY <2>1, <2>2, <3>2, <3>3 DEF Mailbox!Close, phase, current
      <3>5. QED
        BY <2>3, <3>4 DEF Mailbox!Next
    <2>5. CASE inFlight[target[t]] # 0
      <3>1. closed' = closed
        BY <2>1, <2>5 DEF R!ReturnOrWait
      <3>2. phase' = phase
        BY <2>1, <3>1 DEF phase, R!Phase
      <3>3. QED
        BY <2>1, <2>2, <3>2
    <2>6. QED
      BY <2>4, <2>5
  <1>4. ASSUME phase' = phase, BeginJob PROVE Mailbox!Next
    <2>1. dispatcher = "begin" /\ job # NoJob /\ task = "none" /\ R!Begin(job.reg)
      BY <1>1, <1>4 DEF BeginJob, Control
    <2>2. job.reg \in Regs /\ job.id \in 1..MaxSamples
      BY <1>1, <2>1 DEF TypeOK, DispatcherTypes, Jobs
    <2>3. phase[job.reg] = "open"
      BY <1>1, <2>1, <2>2
      DEF R!Begin, RP!IInv, RP!UnusedIsBlank, RP!ClosedIsSilent, phase, R!Phase
    <2>4. current = NoReg /\ current' = job.reg
      BY <1>4, <2>1 DEF BeginJob, current, Live
    <2>5. job.id > last[job.reg]
      BY <1>1, <2>1, <2>2, Lengths DEF Ordered, JobInOrder
    <2>6. last' = [last EXCEPT ![job.reg] = job.id]
      BY <1>4 DEF BeginJob
    <2>7. Mailbox!Enter(job.reg, job.id)
      BY <1>4, <2>3, <2>4, <2>5, <2>6 DEF Mailbox!Enter, phase, current
    <2>8. QED
      BY <2>2, <2>7 DEF Mailbox!Next
  <1>5. ASSUME phase' = phase, Return \/ Panic \/ Cancel PROVE Mailbox!Next
    <2>1. Live /\ ~Live' /\ last' = last /\ job # NoJob
      BY <1>1, <1>5 DEF Return, Panic, Cancel, Live, Control, historyVars
    <2>2. current # NoReg /\ current' = NoReg
      BY <1>1, <2>1, RegistryAssumption DEF current, TypeOK, DispatcherTypes, Jobs
    <2>3. Mailbox!Leave
      BY <1>5, <2>1, <2>2 DEF Mailbox!Leave, phase, current
    <2>4. QED
      BY <2>3 DEF Mailbox!Next
  <1>6. QED
    BY <1>2, <1>3, <1>4, <1>5, PhaseFrame, CurrentFrame

(* Poller, queue, dispatcher and callback tasks together keep the promise  *)
(* of Delivery: one callback at a time, each listener called in the order  *)
(* of arrival, at most once per message, and only between register and the *)
(* return of unregister or of the drop.                                    *)
THEOREM MailboxKept == Spec => MailboxSpec
  <1>1. Init => Mailbox!Init
    BY MailboxInit
  <1>2. (IInv /\ Ordered) /\ [Next]_vars => [Mailbox!Next]_(Mailbox!vars)
    BY MailboxStep DEF Mailbox!vars, phase, current
  <1>3. QED
    BY <1>1, <1>2, AlwaysOrdered, PTL DEF Spec, MailboxSpec, Mailbox!Spec
=============================================================================
