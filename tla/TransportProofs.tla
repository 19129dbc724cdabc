-------------------------- MODULE TransportProofs ---------------------------
(***************************************************************************)
(* The safety of one transport, for any sets of registrations, keys and    *)
(* callers, any queue, history and batch sizes and any number of samples.  *)
(* The registry's own invariant is taken over from RegistryProofs: a step  *)
(* of the transport is a step of the registry or leaves it alone.  At the  *)
(* end, why a drop gets on: what it waits for has a step to make, and the  *)
(* steps that the workers have left become fewer.                          *)
(***************************************************************************)
EXTENDS Transport, SequenceTheorems, FiniteSetTheorems, TLAPS

RP == INSTANCE RegistryProofs

(* How the program counters of the three threads and the callback task     *)
(* hang together with the data each of them holds.                         *)
Control ==
  /\ (poller = "fanout") <=> (snap # {})
  /\ (poller \in {"batch", "fanout"}) <=> (batch # <<>>)
  /\ (dispatcher \in {"begin", "watch", "join", "letgo"}) <=> (job # NoJob)
  /\ (dispatcher \in {"watch", "join"}) <=> (task # "none")
  /\ dispatcher \in Over => queue = <<>>
  /\ dispatcher = "exited" => poller \in Over
  /\ poller = "exited" => stop
  /\ stop <=> (dropPc # "alive")
  /\ IsFiniteSet(entries) /\ IsFiniteSet(snap)

(* How far the drop is, and where its thread is in the registry's code.    *)
DropOrder ==
  /\ dropPc \in {"alive", "joinPoller"} <=> pc[Owner] = "idle"
  /\ dropPc = "drain" <=> pc[Owner] \in R!Closing \cup {"draining"}
  /\ stop => \A c \in Callers : pc[c] = "idle"
  /\ dropPc \notin {"alive", "joinPoller"} => poller \in Over /\ entries = {}
  /\ dropPc \in {"deleteEntities", "deleteParticipant", "dropped"} =>
       dispatcher \in Over

(* Only a drop aborts a task, and a task is cancelled only by an abort or   *)
(* by the end of its runtime.                                              *)
Aborts ==
  /\ aborted => stop
  /\ task = "cancelled" => stop \/ ~runtimeUp

Base == RP!IInv /\ TypeOK /\ Control

-----------------------------------------------------------------------------
(* The registry's definitions are the same seen from here and from its     *)
(* proofs.                                                                 *)
LEMMA SameRegistry ==
  /\ R!Init <=> RP!Init
  /\ R!Next <=> RP!Next
  /\ R!TypeOK <=> RP!TypeOK
  BY DEF R!Init, RP!Init, R!Next, RP!Next, R!TypeOK, RP!TypeOK, R!Closing, RP!Closing,
    R!Threads, RP!Threads, R!registryVars, RP!registryVars,
    R!Register, RP!Register, R!Unregister, RP!Unregister, R!Deactivate, RP!Deactivate,
    R!Recheck, RP!Recheck, R!SpuriousWake, RP!SpuriousWake, R!ReturnOrWait,
    RP!ReturnOrWait, R!Begin, RP!Begin, R!Release, RP!Release, R!Notified, RP!Notified,
    R!TakeAll, RP!TakeAll, R!Borrowed, RP!Borrowed, R!DrainNext, RP!DrainNext,
    R!DrainDone, RP!DrainDone, R!Dropped, RP!Dropped

(* Every step of the transport is one of the registry or leaves it alone.  *)
LEMMA RegistryStep == Base /\ [Next]_vars => [R!Next]_registryVars
  <1> SUFFICES ASSUME Base, [Next]_vars PROVE [R!Next]_registryVars
    OBVIOUS
  <1>1. ASSUME NEW c \in Callers, NEW k \in Keys, Register(c, k) \/ Unregister(c, k)
        PROVE  R!Next
    BY <1>1 DEF Register, Unregister, R!Next
  <1>2. ASSUME NEW t \in R!Threads, Deactivation(t) \/ SpuriousWake(t) PROVE R!Next
    BY <1>2 DEF Deactivation, SpuriousWake, R!Next
  <1>3. job # NoJob => job.reg \in Regs
    BY DEF Base, TypeOK, DispatcherTypes, Jobs
  <1>4. CASE BeginJob
    BY <1>3, <1>4 DEF BeginJob, R!Next, Base, Control
  <1>5. CASE Return \/ Panic \/ Cancel
    <2>1. R!Release(job.reg) /\ job # NoJob
      BY <1>5 DEF Return, Panic, Cancel, Base, Control
    <2>2. QED
      BY <1>3, <2>1 DEF R!Next
  <1>6. CASE JoinPoller \/ DrainNext \/ DrainDone
    BY <1>6 DEF JoinPoller, DrainNext, DrainDone, R!Next
  <1>7. ASSUME NEW c \in Contents, Deliver(c) PROVE UNCHANGED registryVars
    BY <1>7 DEF Deliver
  <1>8. ASSUME NEW r \in Regs, Submit(r) PROVE UNCHANGED registryVars
    BY <1>8 DEF Submit
  <1>9. CASE SendFails \/ RuntimeShutdown
    BY <1>9 DEF SendFails, RuntimeShutdown
  <1>10. CASE PollWait \/ Take \/ TakeFails \/ SkipSample \/ RejectSample \/ RouteSample
    BY <1>10 DEF PollWait, Take, TakeFails, SkipSample, RejectSample, RouteSample
  <1>11. CASE Recv \/ RecvFails \/ RefuseJob \/ Watch \/ Join \/ LetGo
    BY <1>11 DEF Recv, RecvFails, RefuseJob, Watch, Join, LetGo
  <1>12. CASE Poll \/ Await
    BY <1>12 DEF Poll, Await
  <1>13. CASE DropStop \/ JoinDispatcher \/ DeleteEntities \/ DeleteParticipant
    BY <1>13 DEF DropStop, JoinDispatcher, DeleteEntities, DeleteParticipant, Delete
  <1>14. CASE Dropped \/ UNCHANGED vars
    BY <1>14 DEF Dropped, vars
  <1>15. CASE Calls
    BY <1>1, <1>2, <1>9, <1>15 DEF Calls
  <1>16. CASE Polling
    BY <1>8, <1>10, <1>16 DEF Polling
  <1>17. CASE Dispatching \/ Callback
    BY <1>4, <1>5, <1>11, <1>12, <1>17 DEF Dispatching, Callback
  <1>18. CASE Dropping
    BY <1>6, <1>13, <1>14, <1>18 DEF Dropping, Teardown
  <1>19. QED
    BY <1>7, <1>14, <1>15, <1>16, <1>17, <1>18 DEF Next

(* Hence the registry's inductive invariant is kept.                       *)
LEMMA RegistryInvStep == Base /\ [Next]_vars => RP!IInv'
  <1> SUFFICES ASSUME Base, [Next]_vars PROVE RP!IInv'
    OBVIOUS
  <1>1. [RP!Next]_(RP!registryVars)
    BY RegistryStep, SameRegistry DEF RP!registryVars, registryVars
  <1>2. NoReg \notin Regs /\ NoKey \notin Keys /\ Owner \notin Callers
          /\ MaxInFlight \in Nat \ {0}
    BY RegistryAssumption
  <1>3. RP!IInv
    BY DEF Base
  <1>4. QED
    BY <1>1, <1>2, <1>3, RP!InvStep
-----------------------------------------------------------------------------
(* What the poller does to the sequences it works on.                      *)
LEMMA DeliverTypes ==
  ASSUME TypeOK, NEW c \in Contents, Deliver(c)
  PROVE  reader' \in Seq(Sample) /\ Len(reader') <= Depth /\ arrived' \in 0..MaxSamples
  <1> DEFINE kept == IF Len(reader) = Depth THEN Tail(reader) ELSE reader
             sample == [id |-> arrived + 1, kind |-> c.kind, to |-> c.to]
  <1>1. Depth \in Nat \ {0} /\ MaxSamples \in Nat
    BY ConfigAssumption, BoundsAssumption
  <1>2. arrived' = arrived + 1 /\ arrived + 1 \in 1..MaxSamples /\ reader' = Append(kept, sample)
    BY <1>1 DEF Deliver, TypeOK, PollerTypes
  <1>3. sample \in Sample
    BY <1>2, ContentsAssumption DEF Sample
  <1>4. kept \in Seq(Sample) /\ Len(kept) < Depth
    <2>1. CASE Len(reader) = Depth
      <3>1. reader \in Seq(Sample) /\ reader # <<>>
        BY <1>1, <2>1, EmptySeq DEF TypeOK, PollerTypes
      <3>2. QED
        BY <1>1, <2>1, <3>1, HeadTailProperties
    <2>2. CASE Len(reader) # Depth
      BY <1>1, <2>2, LenProperties DEF TypeOK, PollerTypes
    <2>3. QED
      BY <2>1, <2>2
  <1> HIDE DEF kept, sample
  <1>5. QED
    BY <1>1, <1>2, <1>3, <1>4, AppendProperties, LenProperties

LEMMA TakeTypes ==
  ASSUME TypeOK, Take
  PROVE  /\ reader' \in Seq(Sample) /\ Len(reader') <= Depth
         /\ batch' \in Seq(Sample) /\ Len(batch') <= MaxTake
         /\ (batch' # <<>>) <=> (poller' = "batch")
  <1> DEFINE n == Least(MaxTake, Len(reader))
  <1>1. Depth \in Nat \ {0} /\ MaxTake \in Nat \ {0}
    BY ConfigAssumption
  <1>2. Len(reader) \in Nat /\ reader \in Seq(Sample) /\ Len(reader) <= Depth
    BY LenProperties DEF TypeOK, PollerTypes
  <1>3. n \in Nat /\ n <= MaxTake /\ n <= Len(reader)
    BY <1>1, <1>2 DEF Least
  <1>4. /\ batch' = SubSeq(reader, 1, n)
        /\ reader' = SubSeq(reader, n + 1, Len(reader))
        /\ poller' = IF n = 0 THEN "wait" ELSE "batch"
    BY DEF Take
  <1> HIDE DEF n
  <1>5. \A i \in 1..Len(reader) : reader[i] \in Sample
    BY <1>2, ElementOfSeq
  <1>6. batch' \in Seq(Sample) /\ Len(batch') = n
    <2>1. \A i \in 1..n : reader[i] \in Sample
      BY <1>2, <1>3, <1>5
    <2>2. QED
      BY <1>3, <1>4, <2>1, SubSeqProperties
  <1>7. reader' \in Seq(Sample) /\ Len(reader') = Len(reader) - n
    <2>1. n + 1 \in Int /\ Len(reader) \in Int /\ \A i \in n + 1 .. Len(reader) : reader[i] \in Sample
      BY <1>2, <1>3, <1>5
    <2>2. /\ SubSeq(reader, n + 1, Len(reader)) \in Seq(Sample)
          /\ Len(SubSeq(reader, n + 1, Len(reader)))
               = IF n + 1 <= Len(reader) THEN Len(reader) - (n + 1) + 1 ELSE 0
      BY <2>1, SubSeqProperties
    <2>3. QED
      BY <1>2, <1>3, <1>4, <2>2
  <1>8. QED
    BY <1>1, <1>2, <1>3, <1>4, <1>6, <1>7, EmptySeq

(* Going on with fewer registrations, or with one sample less.             *)
LEMMA GoOnTypes ==
  ASSUME TypeOK, batch # <<>>, NEW rs \in SUBSET Regs, GoOn(rs)
  PROVE  /\ batch' \in Seq(Sample) /\ Len(batch') <= MaxTake
         /\ snap' \subseteq Regs
         /\ poller' \in {"wait", "batch", "fanout"}
         /\ (poller' = "fanout") <=> (snap' # {})
         /\ (poller' \in {"batch", "fanout"}) <=> (batch' # <<>>)
  <1>1. MaxTake \in Nat \ {0}
    BY ConfigAssumption
  <1>2. batch \in Seq(Sample) /\ Len(batch) <= MaxTake /\ Len(batch) \in Nat \ {0}
    BY EmptySeq DEF TypeOK, PollerTypes
  <1>3. Tail(batch) \in Seq(Sample) /\ Len(Tail(batch)) = Len(batch) - 1
    BY <1>2, HeadTailProperties
  <1>4. Tail(batch) # <<>> <=> Len(batch) # 1
    <2>1. Tail(batch) # <<>> => Len(Tail(batch)) # 0
      BY <1>3, EmptySeq
    <2>2. Tail(batch) = <<>> => Len(Tail(batch)) = 0
      BY EmptySeq
    <2>3. QED
      BY <1>2, <1>3, <2>1, <2>2
  <1>5. CASE rs = {}
    BY <1>1, <1>2, <1>3, <1>4, <1>5 DEF GoOn
  <1>6. CASE rs # {}
    BY <1>1, <1>2, <1>6 DEF GoOn
  <1>7. QED
    BY <1>5, <1>6

(* A submitted job is in the queue, or it is dropped and counted; then the *)
(* poller goes on, or it dies of the drop.                                 *)
LEMMA SubmitCases ==
  ASSUME NEW r \in Regs, Submit(r)
  PROVE  \/ /\ Accepting /\ queue' = Append(queue, [reg |-> r, id |-> Head(batch).id])
            /\ GoOn(snap \ {r}) /\ UNCHANGED <<health, tally>>
         \/ queue' = queue /\ Record("drops") /\ GoOn(snap \ {r}) /\ UNCHANGED tally
         \/ queue' = queue /\ Record("drops") /\ PollerUnwinds(r)
  BY DEF Submit

LEMMA SubmitTypes ==
  ASSUME TypeOK, Control, NEW r \in Regs, Submit(r)
  PROVE  queue' \in Seq(Jobs) /\ Len(queue') <= Capacity
  <1>1. Capacity \in Nat \ {0} /\ MaxSamples \in Nat
    BY ConfigAssumption, BoundsAssumption
  <1>2. Head(batch) \in Sample
    BY HeadTailProperties DEF TypeOK, Control, Submit, PollerTypes
  <1>3. [reg |-> r, id |-> Head(batch).id] \in Jobs
    BY <1>2 DEF Sample, Jobs
  <1>4. queue \in Seq(Jobs) /\ Len(queue) \in Nat /\ Len(queue) <= Capacity
    BY LenProperties DEF TypeOK, DispatcherTypes
  <1>5. CASE Len(queue) < Capacity /\ queue' = Append(queue, [reg |-> r, id |-> Head(batch).id])
    BY <1>1, <1>3, <1>4, <1>5, AppendProperties
  <1>6. CASE queue' = queue
    BY <1>4, <1>6
  <1>7. QED
    BY <1>5, <1>6, SubmitCases DEF Accepting

LEMMA RecvTypes ==
  ASSUME TypeOK, Recv
  PROVE  queue' \in Seq(Jobs) /\ Len(queue') <= Capacity /\ job' \in Jobs /\ job' # NoJob
  <1>1. Capacity \in Nat \ {0}
    BY ConfigAssumption
  <1>2. queue \in Seq(Jobs) /\ queue # <<>> /\ Len(queue) \in Nat /\ Len(queue) <= Capacity
    BY LenProperties DEF TypeOK, DispatcherTypes, Recv
  <1>3. Tail(queue) \in Seq(Jobs) /\ Len(Tail(queue)) = Len(queue) - 1 /\ Head(queue) \in Jobs
    BY <1>2, HeadTailProperties
  <1>4. QED
    BY <1>1, <1>2, <1>3, NoJobAssumption DEF Recv

(* The registry's steps keep its list finite.                              *)
LEMMA EntriesFinite ==
  ASSUME IsFiniteSet(entries), [R!Next]_registryVars
  PROVE  IsFiniteSet(entries')
  <1>1. ASSUME NEW c \in Callers, NEW k \in Keys, R!Register(c, k)
        PROVE  IsFiniteSet(entries')
    BY <1>1, FS_AddElement DEF R!Register
  <1>2. ASSUME NEW c \in Callers, NEW k \in Keys, R!Unregister(c, k)
        PROVE  IsFiniteSet(entries')
    BY <1>2, FS_RemoveElement DEF R!Unregister
  <1>3. CASE R!TakeAll
    BY <1>3, FS_EmptySet DEF R!TakeAll
  <1>4. ASSUME NEW t \in R!Threads, R!Deactivate(t) \/ R!Recheck(t) \/ R!SpuriousWake(t)
        PROVE  entries' = entries
    BY <1>4 DEF R!Deactivate, R!Recheck, R!SpuriousWake
  <1>5. ASSUME NEW r \in Regs, R!Begin(r) \/ R!Release(r) PROVE entries' = entries
    BY <1>5 DEF R!Begin, R!Release
  <1>6. ASSUME R!DrainNext \/ R!DrainDone \/ R!Dropped \/ UNCHANGED registryVars
        PROVE  entries' = entries
    BY <1>6 DEF R!DrainNext, R!DrainDone, R!Dropped, R!registryVars, registryVars
  <1>7. QED
    BY <1>1, <1>2, <1>3, <1>4, <1>5, <1>6 DEF R!Next

-----------------------------------------------------------------------------
(* Who changes what: the steps that touch the poller's side, the           *)
(* dispatcher's side, the drop's flags and the records.                    *)
LEMMA PollerFrame ==
  [Next]_vars =>
    \/ (\E c \in Contents : Deliver(c)) \/ Polling
    \/ UNCHANGED <<reader, arrived, poller, batch, snap>>
  <1> USE DEF pollerVars
  <1>1. Calls => UNCHANGED <<reader, arrived, poller, batch, snap>>
    BY DEF Calls, Register, Unregister, Deactivation, SpuriousWake, SendFails, RuntimeShutdown
  <1>2. Dispatching => UNCHANGED <<reader, arrived, poller, batch, snap>>
    BY DEF Dispatching, Recv, RecvFails, BeginJob, RefuseJob, Watch, Join, LetGo
  <1>3. Callback => UNCHANGED <<reader, arrived, poller, batch, snap>>
    BY DEF Callback, Poll, Await, Return, Panic, Cancel
  <1>4. Dropping => UNCHANGED <<reader, arrived, poller, batch, snap>>
    BY DEF Dropping, Teardown, DropStop, JoinPoller, DrainNext, DrainDone, JoinDispatcher,
       DeleteEntities, DeleteParticipant, Delete, Dropped, vars
  <1>5. QED
    BY <1>1, <1>2, <1>3, <1>4 DEF Next, vars

LEMMA DispatcherFrame ==
  [Next]_vars =>
    \/ (\E r \in Regs : Submit(r)) \/ Dispatching \/ Callback
    \/ UNCHANGED <<queue, dispatcher, job, task, aborted>>
  <1> USE DEF dispatcherVars, taskVars
  <1>1. Calls => UNCHANGED <<queue, dispatcher, job, task, aborted>>
    BY DEF Calls, Register, Unregister, Deactivation, SpuriousWake, SendFails, RuntimeShutdown
  <1>2. (\E c \in Contents : Deliver(c)) => UNCHANGED <<queue, dispatcher, job, task, aborted>>
    BY DEF Deliver
  <1>3. Polling => \/ \E r \in Regs : Submit(r)
                   \/ UNCHANGED <<queue, dispatcher, job, task, aborted>>
    BY DEF Polling, PollWait, Take, TakeFails, SkipSample, RejectSample, RouteSample
  <1>4. Dropping => UNCHANGED <<queue, dispatcher, job, task, aborted>>
    BY DEF Dropping, Teardown, DropStop, JoinPoller, DrainNext, DrainDone, JoinDispatcher,
       DeleteEntities, DeleteParticipant, Delete, Dropped, vars
  <1>5. QED
    BY <1>1, <1>2, <1>3, <1>4 DEF Next, vars

LEMMA DropFrame ==
  [Next]_vars => RuntimeShutdown \/ Dropping \/ UNCHANGED <<stop, runtimeUp, dropPc>>
  <1>1. Calls => RuntimeShutdown \/ UNCHANGED <<stop, runtimeUp, dropPc>>
    BY DEF Calls, Register, Unregister, Deactivation, SpuriousWake, SendFails
  <1>2. (\E c \in Contents : Deliver(c)) => UNCHANGED <<stop, runtimeUp, dropPc>>
    BY DEF Deliver
  <1>3. Polling => UNCHANGED <<stop, runtimeUp, dropPc>>
    BY DEF Polling, PollWait, Take, TakeFails, SkipSample, RejectSample, RouteSample, Submit
  <1>4. Dispatching => UNCHANGED <<stop, runtimeUp, dropPc>>
    BY DEF Dispatching, Recv, RecvFails, BeginJob, RefuseJob, Watch, Join, LetGo
  <1>5. Callback => UNCHANGED <<stop, runtimeUp, dropPc>>
    BY DEF Callback, Poll, Await, Return, Panic, Cancel
  <1>6. QED
    BY <1>1, <1>2, <1>3, <1>4, <1>5 DEF Next, vars

LEMMA RecordFrame ==
  [Next]_vars =>
    \/ \E k \in Counters : Record(k) /\ UNCHANGED historyVars
    \/ BeginJob \/ RefuseJob \/ RouteSample \/ Panic
    \/ (\E r \in Regs : Submit(r)) \/ Join \/ LetGo
    \/ UNCHANGED <<health, last, tally>>
  <1> DEFINE Same == UNCHANGED <<health, last, tally>>
             Noted == \E k \in Counters : Record(k) /\ UNCHANGED historyVars
  <1>a. {"dds", "malformed", "workers", "teardown"} \subseteq Counters
    BY DEF Counters
  <1>1. Calls => Noted \/ Same
    BY <1>a DEF Calls, Register, Unregister, Deactivation, SpuriousWake, SendFails,
       RuntimeShutdown, historyVars
  <1>2. (\E c \in Contents : Deliver(c)) => Same
    BY DEF Deliver, historyVars
  <1>3. Polling => RouteSample \/ (\E r \in Regs : Submit(r)) \/ Noted \/ Same
    BY <1>a DEF Polling, PollWait, Take, TakeFails, SkipSample, RejectSample, historyVars
  <1>4. Dispatching => BeginJob \/ RefuseJob \/ Join \/ LetGo \/ Same
    BY DEF Dispatching, Recv, RecvFails, Watch, historyVars
  <1>5. Callback => Panic \/ Same
    BY DEF Callback, Poll, Await, Return, Cancel, historyVars
  <1>6. Dropping => Noted \/ Same
    BY <1>a DEF Dropping, Teardown, DropStop, JoinPoller, DrainNext, DrainDone, JoinDispatcher,
       JoinWorker, DeleteEntities, DeleteParticipant, Delete, Dropped, vars, historyVars
  <1>7. QED
    BY <1>1, <1>2, <1>3, <1>4, <1>5, <1>6 DEF Next, vars, historyVars
-----------------------------------------------------------------------------
(* The registrations a sample is handed to are finitely many.              *)
LEMMA MatchingFinite ==
  ASSUME Base, NEW ks
  PROVE  /\ R!Matching(ks) \in SUBSET Regs /\ IsFiniteSet(R!Matching(ks))
         /\ Cardinality(R!Matching(ks)) \in Nat
  <1>1. R!Matching(ks) \subseteq entries /\ entries \subseteq Regs /\ IsFiniteSet(entries)
    BY DEF R!Matching, Base, Control, TypeOK, R!TypeOK
  <1>2. QED
    BY <1>1, FS_Subset, FS_CardinalityType

(* Every step of the poller goes on with a finite set of registrations, or *)
(* leaves the batch alone.                                                 *)
LEMMA PollerStep ==
  ASSUME Base, [Next]_vars
  PROVE  /\ PollerTypes'
         /\ ((poller = "fanout") <=> (snap # {}))'
         /\ ((poller \in {"batch", "fanout"}) <=> (batch # <<>>))'
         /\ IsFiniteSet(snap')
  <1> DEFINE Goal == /\ PollerTypes'
                     /\ ((poller = "fanout") <=> (snap # {}))'
                     /\ ((poller \in {"batch", "fanout"}) <=> (batch # <<>>))'
                     /\ IsFiniteSet(snap')
  <1>a. TypeOK /\ Control /\ PollerTypes
    BY DEF Base, TypeOK
  <1>1. ASSUME NEW c \in Contents, Deliver(c) PROVE Goal
    <2>1. reader' \in Seq(Sample) /\ Len(reader') <= Depth /\ arrived' \in 0..MaxSamples
      BY <1>1, <1>a, DeliverTypes
    <2>2. UNCHANGED <<poller, batch, snap>>
      BY <1>1 DEF Deliver, pollerVars
    <2>3. QED
      BY <1>a, <2>1, <2>2 DEF PollerTypes, Control
  <1>2. ASSUME PollWait \/ TakeFails PROVE Goal
    BY <1>a, <1>2 DEF PollWait, TakeFails, PollerTypes, Control, Over
  <1>3. ASSUME Take PROVE Goal
    <2>1. /\ reader' \in Seq(Sample) /\ Len(reader') <= Depth
          /\ batch' \in Seq(Sample) /\ Len(batch') <= MaxTake
          /\ (batch' # <<>>) <=> (poller' = "batch")
      BY <1>3, <1>a, TakeTypes
    <2>2. poller = "take" /\ poller' \in {"wait", "batch"} /\ UNCHANGED <<arrived, snap>>
      BY <1>3 DEF Take
    <2>3. QED
      BY <1>a, <2>1, <2>2 DEF PollerTypes, Control
  <1>4. ASSUME NEW rs \in SUBSET Regs, IsFiniteSet(rs), GoOn(rs),
               poller \in {"batch", "fanout"}, UNCHANGED <<reader, arrived>>
        PROVE  Goal
    <2>1. batch # <<>> /\ IsFiniteSet(snap')
      BY <1>a, <1>4 DEF Control, GoOn
    <2>2. /\ batch' \in Seq(Sample) /\ Len(batch') <= MaxTake
          /\ snap' \subseteq Regs
          /\ poller' \in {"wait", "batch", "fanout"}
          /\ (poller' = "fanout") <=> (snap' # {})
          /\ (poller' \in {"batch", "fanout"}) <=> (batch' # <<>>)
      BY <1>a, <1>4, <2>1, GoOnTypes
    <2>3. QED
      BY <1>a, <1>4, <2>1, <2>2 DEF PollerTypes
  <1>5. ASSUME SkipSample \/ RejectSample PROVE Goal
    <2>1. GoOn({}) /\ poller = "batch" /\ UNCHANGED <<reader, arrived>>
      BY <1>5 DEF SkipSample, RejectSample
    <2>2. QED
      BY <1>4, <2>1, FS_EmptySet
  <1>6. ASSUME RouteSample PROVE Goal
    <2>1. GoOn(R!Matching(Head(batch).to)) /\ poller = "batch" /\ UNCHANGED <<reader, arrived>>
      BY <1>6 DEF RouteSample
    <2>2. R!Matching(Head(batch).to) \in SUBSET Regs /\ IsFiniteSet(R!Matching(Head(batch).to))
      BY MatchingFinite
    <2>3. QED
      BY <1>4, <2>1, <2>2
  <1>7. ASSUME NEW r \in Regs, Submit(r) PROVE Goal
    <2>1. poller = "fanout" /\ UNCHANGED <<reader, arrived>>
      BY <1>7 DEF Submit
    <2>2. snap \ {r} \in SUBSET Regs /\ IsFiniteSet(snap \ {r})
      BY <1>a, FS_RemoveElement DEF PollerTypes, Control
    <2>3. CASE GoOn(snap \ {r})
      BY <1>4, <2>1, <2>2, <2>3
    <2>4. CASE PollerUnwinds(r)
      <3>1. <<>> \in Seq(Sample) /\ Len(<<>>) = 0 /\ MaxTake \in Nat
        BY EmptySeq, ConfigAssumption
      <3>2. QED
        BY <1>a, <2>1, <2>4, <3>1, FS_EmptySet DEF PollerUnwinds, PollerTypes, Over
    <2>5. QED
      BY <1>7, <2>3, <2>4, SubmitCases
  <1>8. ASSUME UNCHANGED <<reader, arrived, poller, batch, snap>> PROVE Goal
    BY <1>a, <1>8 DEF PollerTypes, Control
  <1>9. QED
    BY <1>1, <1>2, <1>3, <1>5, <1>6, <1>7, <1>8, PollerFrame DEF Polling

LEMMA DispatcherStep ==
  ASSUME Base, [Next]_vars
  PROVE  /\ DispatcherTypes'
         /\ ((dispatcher \in {"begin", "watch", "join", "letgo"}) <=> (job # NoJob))'
         /\ ((dispatcher \in {"watch", "join"}) <=> (task # "none"))'
  <1> DEFINE Goal == /\ DispatcherTypes'
                     /\ ((dispatcher \in {"begin", "watch", "join", "letgo"}) <=> (job # NoJob))'
                     /\ ((dispatcher \in {"watch", "join"}) <=> (task # "none"))'
  <1>a. TypeOK /\ Control /\ DispatcherTypes
    BY DEF Base, TypeOK
  <1>b. ASSUME NEW n, Unwind(n), task' = "none", aborted' \in BOOLEAN PROVE Goal
    <2>1. queue' \in Seq(Jobs) /\ Len(queue') <= Capacity
      <3>1. CASE queue' = queue
        BY <1>a, <3>1 DEF DispatcherTypes
      <3>2. CASE queue' = <<>>
        BY <3>2, EmptySeq, ConfigAssumption
      <3>3. QED
        BY <1>b, <3>1, <3>2 DEF Unwind
    <2>2. job' = NoJob /\ dispatcher' \in {"recv", "panicked"}
      BY <1>b DEF Unwind
    <2>3. QED
      BY <1>b, <2>1, <2>2 DEF DispatcherTypes, Over
  <1> USE DEF Control, dispatcherVars, taskVars
  <1>1. ASSUME NEW r \in Regs, Submit(r) PROVE Goal
    <2>1. queue' \in Seq(Jobs) /\ Len(queue') <= Capacity
      BY <1>1, <1>a, SubmitTypes
    <2>2. UNCHANGED <<dispatcher, job, task, aborted>>
      BY <1>1 DEF Submit
    <2>3. QED
      BY <1>a, <2>1, <2>2 DEF DispatcherTypes
  <1>2. ASSUME Recv PROVE Goal
    <2>1. queue' \in Seq(Jobs) /\ Len(queue') <= Capacity /\ job' \in Jobs /\ job' # NoJob
      BY <1>2, <1>a, RecvTypes
    <2>2. dispatcher = "recv" /\ dispatcher' = "begin" /\ UNCHANGED <<task, aborted>>
      BY <1>2 DEF Recv
    <2>3. QED
      BY <1>a, <2>1, <2>2 DEF DispatcherTypes
  <1>3. ASSUME RecvFails PROVE Goal
    BY <1>a, <1>3 DEF RecvFails, DispatcherTypes, Over
  <1>4. ASSUME BeginJob PROVE Goal
    BY <1>a, <1>4 DEF BeginJob, DispatcherTypes
  <1>5. ASSUME RefuseJob PROVE Goal
    BY <1>a, <1>5 DEF RefuseJob, DispatcherTypes
  <1>6. ASSUME Watch PROVE Goal
    BY <1>a, <1>6 DEF Watch, Finished, DispatcherTypes
  <1>7. ASSUME Join PROVE Goal
    <2>1. task' = "none" /\ aborted' = FALSE /\ dispatcher = "join"
      BY <1>7 DEF Join
    <2>2. CASE dispatcher' = "letgo" /\ UNCHANGED <<queue, job>>
      BY <1>a, <2>1, <2>2 DEF DispatcherTypes
    <2>3. QED
      BY <1>b, <1>7, <2>1, <2>2 DEF Join
  <1>8. ASSUME Callback PROVE Goal
    BY <1>a, <1>8 DEF Callback, Poll, Await, Return, Panic, Cancel, DispatcherTypes
  <1>9. ASSUME UNCHANGED <<queue, dispatcher, job, task, aborted>> PROVE Goal
    BY <1>a, <1>9 DEF DispatcherTypes
  <1>10. ASSUME LetGo PROVE Goal
    <2>1. dispatcher = "letgo" /\ task = "none" /\ UNCHANGED <<task, aborted>>
      BY <1>a, <1>10 DEF LetGo
    <2>2. CASE dispatcher' = "recv" /\ job' = NoJob /\ queue' = queue
      BY <1>a, <2>1, <2>2 DEF DispatcherTypes
    <2>3. QED
      BY <1>a, <1>b, <1>10, <2>1, <2>2 DEF LetGo, DispatcherTypes
  <1>11. QED
    BY <1>1, <1>2, <1>3, <1>4, <1>5, <1>6, <1>7, <1>8, <1>9, <1>10, DispatcherFrame
    DEF Dispatching

LEMMA RecordStep == Base /\ [Next]_vars => RecordTypes'
  <1> SUFFICES ASSUME Base, [Next]_vars PROVE RecordTypes'
    OBVIOUS
  <1>a. TypeOK /\ Control /\ RecordTypes /\ DispatcherTypes
    BY DEF Base, TypeOK
  <1>b. ASSUME NEW n \in Nat, Unwind(n), UNCHANGED last PROVE RecordTypes'
    <2>1. Len(queue) \in Nat
      BY <1>a, LenProperties DEF DispatcherTypes
    <2>2. health' \in [Counters -> Nat]
      BY <1>a, <1>b DEF Unwind, Record, RecordTypes, Counters
    <2>3. tally' \in [Tallied -> Nat]
      BY <1>a, <1>b, <2>1 DEF Unwind, Count, RecordTypes, Tallied
    <2>4. QED
      BY <1>a, <1>b, <2>2, <2>3 DEF RecordTypes
  <1>1. ASSUME NEW k \in Counters, Record(k), UNCHANGED historyVars
        PROVE  RecordTypes'
    BY <1>a, <1>1 DEF Record, RecordTypes, Counters, historyVars
  <1>2. ASSUME BeginJob \/ RefuseJob PROVE RecordTypes'
    <2>1. job.reg \in Regs /\ job.id \in 0..MaxSamples
      BY <1>a, <1>2, BoundsAssumption
      DEF BeginJob, RefuseJob, Control, DispatcherTypes, Jobs
    <2>2. QED
      BY <1>a, <1>2, <2>1 DEF BeginJob, RefuseJob, RecordTypes, Count, Tallied
  <1>3. ASSUME RouteSample PROVE RecordTypes'
    <2>1. Cardinality(R!Matching(Head(batch).to)) \in Nat
      BY MatchingFinite
    <2>2. /\ Count("matched", Cardinality(R!Matching(Head(batch).to)))
          /\ UNCHANGED <<health, last>>
      BY <1>3 DEF RouteSample
    <2>3. QED
      BY <1>a, <2>1, <2>2 DEF RecordTypes, Count, Tallied
  <1>4. ASSUME Panic PROVE RecordTypes'
    <2>1. Count("panicked", 1) /\ UNCHANGED <<health, last>>
      BY <1>4 DEF Panic
    <2>2. QED
      BY <1>a, <2>1 DEF RecordTypes, Count, Tallied
  <1>5. ASSUME UNCHANGED <<health, last, tally>> PROVE RecordTypes'
    BY <1>a, <1>5 DEF RecordTypes
  <1>6. ASSUME NEW r \in Regs, Submit(r) PROVE RecordTypes'
    <2>1. IsFiniteSet(snap \ {r}) /\ last' = last
      BY <1>a, <1>6, FS_RemoveElement DEF Control, Submit
    <2>2. Cardinality(snap \ {r}) \in Nat
      BY <2>1, FS_CardinalityType
    <2>3. health' \in [Counters -> Nat]
      <3>1. health' = health \/ Record("drops")
        BY <1>6, SubmitCases
      <3>2. QED
        BY <1>a, <3>1 DEF Record, RecordTypes, Counters
    <2>4. tally' = tally \/ Count("lost", Cardinality(snap \ {r}))
      BY <1>6, SubmitCases DEF PollerUnwinds
    <2>5. tally' \in [Tallied -> Nat]
      BY <1>a, <2>2, <2>4 DEF Count, RecordTypes, Tallied
    <2>6. QED
      BY <1>a, <2>1, <2>3, <2>5 DEF RecordTypes
  <1>7. ASSUME Join PROVE RecordTypes'
    <2>1. CASE UNCHANGED <<health, last, tally>>
      BY <1>5, <2>1
    <2>2. CASE Record("panics") /\ UNCHANGED <<last, tally>>
      BY <1>a, <2>2 DEF Record, RecordTypes, Counters
    <2>3. CASE Unwind(0) /\ UNCHANGED last
      BY <1>b, <2>3
    <2>4. QED
      BY <1>7, <2>1, <2>2, <2>3 DEF Join
  <1>8. ASSUME LetGo PROVE RecordTypes'
    <2>1. CASE UNCHANGED <<health, last, tally>>
      BY <1>5, <2>1
    <2>2. CASE Unwind(1) /\ UNCHANGED last
      BY <1>b, <2>2
    <2>3. QED
      BY <1>8, <2>1, <2>2 DEF LetGo
  <1>9. QED
    BY <1>1, <1>2, <1>3, <1>4, <1>5, <1>6, <1>7, <1>8, RecordFrame

LEMMA DropTypesStep == Base /\ [Next]_vars => DropTypes' /\ (stop <=> (dropPc # "alive"))'
  <1> SUFFICES ASSUME Base, [Next]_vars
               PROVE  DropTypes' /\ (stop <=> (dropPc # "alive"))'
    OBVIOUS
  <1>a. DropTypes /\ (stop <=> (dropPc # "alive"))
    BY DEF Base, TypeOK, Control
  <1>1. CASE RuntimeShutdown
    BY <1>a, <1>1 DEF RuntimeShutdown, DropTypes
  <1>2. CASE DropStop \/ JoinPoller \/ DrainNext \/ DrainDone \/ JoinDispatcher
    <2>1. stop' = TRUE /\ runtimeUp' = runtimeUp
      BY <1>a, <1>2 DEF DropStop, JoinPoller, DrainNext, DrainDone, JoinDispatcher, DropTypes
    <2>2. dropPc' \in {"joinPoller", "drain", "joinDispatcher", "deleteEntities"}
      BY <1>2 DEF DropStop, JoinPoller, DrainNext, DrainDone, JoinDispatcher
    <2>3. QED
      BY <1>a, <2>1, <2>2 DEF DropTypes
  <1>3. CASE DeleteEntities \/ DeleteParticipant \/ Dropped
    BY <1>a, <1>3 DEF DeleteEntities, DeleteParticipant, Delete, Dropped, DropTypes, vars
  <1>4. CASE UNCHANGED <<stop, runtimeUp, dropPc>>
    BY <1>a, <1>4 DEF DropTypes
  <1>5. QED
    BY <1>1, <1>2, <1>3, <1>4, DropFrame DEF Dropping, Teardown

(* The stop flag stays set and the runtime stays down.                     *)
LEMMA OneWay == [Next]_vars => (stop => stop') /\ (~runtimeUp => ~runtimeUp')
  <1>1. Dropping => (stop => stop') /\ runtimeUp' = runtimeUp
    BY DEF Dropping, Teardown, DropStop, JoinPoller, DrainNext, DrainDone, JoinDispatcher,
       DeleteEntities, DeleteParticipant, Delete, Dropped, vars
  <1>2. RuntimeShutdown => stop' = stop /\ ~runtimeUp'
    BY DEF RuntimeShutdown
  <1>3. QED
    BY <1>1, <1>2, DropFrame

(* The dispatcher exits after the poller; no job outlives it.              *)
LEMMA ExitStep ==
  ASSUME Base, [Next]_vars
  PROVE  /\ (dispatcher \in Over => queue = <<>>)'
         /\ (dispatcher = "exited" => poller \in Over)'
         /\ (poller = "exited" => stop)'
  <1> DEFINE Goal == /\ (dispatcher \in Over => queue = <<>>)'
                     /\ (dispatcher = "exited" => poller \in Over)'
                     /\ (poller = "exited" => stop)'
  <1>a. /\ dispatcher \in Over => queue = <<>>
        /\ dispatcher = "exited" => poller \in Over
        /\ poller = "exited" => stop
        /\ (dispatcher \in {"watch", "join"}) <=> (task # "none")
    BY DEF Base, Control
  <1>1. stop => stop'
    BY OneWay
  <1> USE DEF Over
  <1>2. ASSUME Polling PROVE Goal
    <2>1. dispatcher' = dispatcher
      BY <1>2 DEF Polling, PollWait, Take, TakeFails, SkipSample, RejectSample, RouteSample,
         Submit, dispatcherVars
    <2>2. poller \notin Over
      BY <1>2 DEF Polling, PollWait, Take, TakeFails, SkipSample, RejectSample, RouteSample,
         Submit
    <2>3. poller' = "exited" => stop'
      BY <1>1, <1>2 DEF Polling, PollWait, Take, TakeFails, SkipSample, RejectSample,
         RouteSample, Submit, GoOn, PollerUnwinds
    <2>4. dispatcher = "panicked" => queue' = queue
      BY <1>2 DEF Polling, PollWait, Take, TakeFails, SkipSample, RejectSample, RouteSample,
         Submit, Accepting
    <2>5. QED
      BY <1>a, <2>1, <2>2, <2>3, <2>4
  <1>3. ASSUME NEW c \in Contents, Deliver(c) PROVE Goal
    BY <1>a, <1>3 DEF Deliver, pollerVars, dispatcherVars
  <1>4. ASSUME UNCHANGED <<reader, arrived, poller, batch, snap>> PROVE Goal
    <2>1. CASE UNCHANGED <<queue, dispatcher, job, task, aborted>>
      BY <1>a, <1>1, <1>4, <2>1
    <2>2. CASE Callback
      BY <1>a, <1>1, <1>4, <2>2
      DEF Callback, Poll, Await, Return, Panic, Cancel, dispatcherVars
    <2>3. CASE Dispatching
      BY <1>a, <1>1, <1>4, <2>3
      DEF Dispatching, Recv, RecvFails, BeginJob, RefuseJob, Watch, Join, LetGo, Unwind
    <2>4. ASSUME NEW r \in Regs, Submit(r) PROVE Goal
      BY <1>2, <2>4 DEF Polling
    <2>5. QED
      BY <2>1, <2>2, <2>3, <2>4, DispatcherFrame
  <1>5. QED
    BY <1>2, <1>3, <1>4, PollerFrame

(* Every step keeps the registry's invariant, the types and the control.   *)
LEMMA BaseStep == Base /\ [Next]_vars => Base'
  <1> SUFFICES ASSUME Base, [Next]_vars PROVE Base'
    OBVIOUS
  <1>1. RP!IInv'
    BY RegistryInvStep
  <1>2. R!TypeOK'
    BY <1>1 DEF RP!IInv, RP!TypeOK, R!TypeOK, RP!Closing, R!Closing, RP!Threads, R!Threads
  <1>3. TypeOK'
    BY <1>2, PollerStep, DispatcherStep, RecordStep, DropTypesStep DEF TypeOK
  <1>4. IsFiniteSet(entries')
    BY RegistryStep, EntriesFinite DEF Base, Control
  <1>5. Control'
    BY <1>4, PollerStep, DispatcherStep, DropTypesStep, ExitStep DEF Control
  <1>6. QED
    BY <1>1, <1>3, <1>5 DEF Base

LEMMA BaseInit == Init => Base
  <1> SUFFICES ASSUME Init PROVE Base
    OBVIOUS
  <1>1. NoReg \notin Regs /\ NoKey \notin Keys /\ Owner \notin Callers
          /\ MaxInFlight \in Nat \ {0}
    BY RegistryAssumption
  <1>2. RP!IInv
    BY <1>1, SameRegistry, RP!InitInv DEF Init
  <1>3. R!TypeOK
    BY <1>2, SameRegistry DEF RP!IInv
  <1>4. PollerTypes /\ DispatcherTypes
    <2>1. <<>> \in Seq(Sample) /\ <<>> \in Seq(Jobs) /\ Len(<<>>) = 0
      BY EmptySeq
    <2>2. {Depth, MaxTake, Capacity} \subseteq Nat /\ MaxSamples \in Nat
      BY ConfigAssumption, BoundsAssumption
    <2>3. PollerTypes
      BY <2>1, <2>2 DEF Init, PollerTypes
    <2>4. DispatcherTypes
      <3>1. queue = <<>> /\ dispatcher = "recv" /\ job = NoJob /\ task = "none" /\ aborted = FALSE
        BY DEF Init
      <3>2. queue \in Seq(Jobs) /\ Len(queue) <= Capacity
        BY <2>1, <2>2, <3>1
      <3>3. QED
        BY <3>1, <3>2 DEF DispatcherTypes
    <2>5. QED
      BY <2>3, <2>4
  <1>5. DropTypes /\ RecordTypes
    <2>1. 0 \in 0..MaxSamples
      BY BoundsAssumption
    <2>2. QED
      BY <2>1 DEF Init, DropTypes, RecordTypes
  <1>6. Control
    BY FS_EmptySet DEF Init, Control, R!Init
  <1>7. QED
    BY <1>2, <1>3, <1>4, <1>5, <1>6 DEF Base, TypeOK
-----------------------------------------------------------------------------
(* A step that is neither a begin nor a release leaves the counters alone. *)
LEMMA FlightFrame ==
  Control /\ [Next]_vars =>
    \/ BeginJob \/ Return \/ Panic \/ Cancel
    \/ inFlight' = inFlight /\ (Live => Live' /\ job' = job) /\ (Live' => Live)
  <1> DEFINE Same == inFlight' = inFlight /\ (Live => Live' /\ job' = job) /\ (Live' => Live)
  <1> USE DEF Live, registryVars, dispatcherVars, taskVars
  <1>1. Calls => Same
    BY DEF Calls, Register, Unregister, Deactivation, SpuriousWake, SendFails,
       RuntimeShutdown, R!Register, R!Unregister, R!Deactivate, R!Recheck, R!SpuriousWake
  <1>2. (\E c \in Contents : Deliver(c)) => Same
    BY DEF Deliver
  <1>3. Polling => Same
    BY DEF Polling, PollWait, Take, TakeFails, SkipSample, RejectSample, RouteSample, Submit
  <1>4. Poll \/ Await => Same
    BY DEF Poll, Await
  <1>5. Dropping => Same
    BY DEF Dropping, Teardown, DropStop, JoinPoller, DrainNext, DrainDone, JoinDispatcher,
       DeleteEntities, DeleteParticipant, Delete, Dropped, vars, R!TakeAll, R!DrainNext,
       R!DrainDone
  <1>6. Watch \/ Join => Same
    BY DEF Watch, Join, Finished
  <1>7. Control /\ (Recv \/ RecvFails \/ RefuseJob \/ LetGo) => Same
    BY DEF Control, Recv, RecvFails, RefuseJob, LetGo
  <1>8. UNCHANGED vars => Same
    BY DEF vars
  <1> HIDE DEF Same
  <1>9. Control /\ [Next]_vars => BeginJob \/ Return \/ Panic \/ Cancel \/ Same
    BY <1>1, <1>2, <1>3, <1>4, <1>5, <1>6, <1>7, <1>8 DEF Next, Dispatching, Callback
  <1>10. QED
    BY <1>9 DEF Same

(* A begin makes the counter one, the end of the task makes it zero again. *)
LEMMA FlightStep == Base /\ InFlightExact /\ [Next]_vars => InFlightExact'
  <1> SUFFICES ASSUME Base, InFlightExact, [Next]_vars PROVE InFlightExact'
    OBVIOUS
  <1>a. Control /\ inFlight \in [Regs -> 0..MaxInFlight] /\ job \in Jobs \cup {NoJob}
    BY DEF Base, TypeOK, DispatcherTypes, R!TypeOK
  <1>1. CASE BeginJob
    <2>1. ~Live /\ Live' /\ job' = job /\ job.reg \in Regs
      BY <1>a, <1>1 DEF BeginJob, Control, Live, Jobs
    <2>2. inFlight' = [inFlight EXCEPT ![job.reg] = @ + 1]
      BY <1>1 DEF BeginJob, R!Begin
    <2>3. QED
      BY <1>a, <2>1, <2>2 DEF InFlightExact
  <1>2. CASE Return \/ Panic \/ Cancel
    <2>1. Live /\ ~Live' /\ job' = job /\ job.reg \in Regs
      BY <1>a, <1>2 DEF Return, Panic, Cancel, Control, Live, Jobs, dispatcherVars
    <2>2. inFlight' = [inFlight EXCEPT ![job.reg] = @ - 1]
      BY <1>2 DEF Return, Panic, Cancel, R!Release
    <2>3. QED
      BY <1>a, <2>1, <2>2 DEF InFlightExact
  <1>3. CASE inFlight' = inFlight /\ (Live => Live' /\ job' = job) /\ (Live' => Live)
    BY <1>3 DEF InFlightExact
  <1>4. QED
    BY <1>a, <1>1, <1>2, <1>3, FlightFrame

(* What the registry's steps do to the thread that drops the transport.    *)
LEMMA OwnerFrame ==
  ASSUME Base, [Next]_vars
  PROVE  \/ JoinPoller \/ DrainNext \/ DrainDone
         \/ pc'[Owner] = pc[Owner]
         \/ pc[Owner] \in R!Closing /\ pc'[Owner] \in R!Closing \cup {"draining"}
  <1> DEFINE Stays == pc'[Owner] = pc[Owner]
             Moves == pc[Owner] \in R!Closing /\ pc'[Owner] \in R!Closing \cup {"draining"}
  <1>a. pc \in [R!Threads -> R!Closing \cup {"idle", "draining", "drained"}] /\ Owner \notin Callers
    BY RegistryAssumption DEF Base, TypeOK, R!TypeOK
  <1> USE <1>a DEF R!Threads, R!Closing, registryVars
  <1>1. ASSUME NEW c \in Callers, NEW k \in Keys, Register(c, k) \/ Unregister(c, k)
        PROVE  Stays
    BY <1>1 DEF Register, Unregister, R!Register, R!Unregister
  <1>2. ASSUME NEW t \in R!Threads, Deactivation(t) \/ SpuriousWake(t) PROVE Stays \/ Moves
    BY <1>2 DEF Deactivation, SpuriousWake, R!Deactivate, R!Recheck, R!ReturnOrWait,
       R!SpuriousWake
  <1>3. ASSUME Return \/ Panic \/ Cancel PROVE Stays \/ Moves
    BY <1>3 DEF Return, Panic, Cancel, R!Release, R!Notified
  <1>4. BeginJob => Stays
    BY DEF BeginJob, R!Begin
  <1>5. SendFails \/ RuntimeShutdown \/ (\E c \in Contents : Deliver(c)) \/ Polling => Stays
    BY DEF SendFails, RuntimeShutdown, Deliver, Polling, PollWait, Take, TakeFails, SkipSample,
       RejectSample, RouteSample, Submit
  <1>6. Recv \/ RecvFails \/ RefuseJob \/ Watch \/ Join \/ LetGo \/ Poll \/ Await => Stays
    BY DEF Recv, RecvFails, RefuseJob, Watch, Join, LetGo, Poll, Await
  <1>7. DropStop \/ JoinDispatcher \/ DeleteEntities \/ DeleteParticipant => Stays
    BY DEF DropStop, JoinDispatcher, DeleteEntities, DeleteParticipant, Delete
  <1>8. UNCHANGED vars => Stays
    BY DEF vars
  <1> HIDE DEF Stays, Moves
  <1>9. JoinPoller \/ DrainNext \/ DrainDone \/ Stays \/ Moves
    BY <1>1, <1>2, <1>3, <1>4, <1>5, <1>6, <1>7, <1>8
    DEF Next, Calls, Dispatching, Callback, Dropping, Teardown, Dropped
  <1>10. QED
    BY <1>9 DEF Stays, Moves

(* Once the stop flag is set no caller is or comes to be in the registry,  *)
(* and the list only shrinks.                                              *)
LEMMA CallersGone ==
  ASSUME Base, DropOrder, [Next]_vars, stop
  PROVE  (\A c \in Callers : pc'[c] = "idle") /\ entries' \subseteq entries
  <1> DEFINE Goal == (\A c \in Callers : pc'[c] = "idle") /\ entries' \subseteq entries
             Same == UNCHANGED <<pc, entries>>
  <1>a. /\ pc \in [R!Threads -> R!Closing \cup {"idle", "draining", "drained"}]
        /\ Owner \notin Callers /\ dropPc # "alive" /\ \A c \in Callers : pc[c] = "idle"
    BY RegistryAssumption DEF Base, TypeOK, R!TypeOK, Control, DropOrder
  <1> USE <1>a DEF R!Threads, R!Closing, registryVars
  <1>1. ASSUME NEW t \in R!Threads, Deactivation(t) \/ SpuriousWake(t) PROVE Goal
    BY <1>1 DEF Deactivation, SpuriousWake, R!Deactivate, R!Recheck, R!ReturnOrWait,
       R!SpuriousWake
  <1>2. ASSUME Return \/ Panic \/ Cancel PROVE Goal
    BY <1>2 DEF Return, Panic, Cancel, R!Release, R!Notified
  <1>3. ASSUME JoinPoller \/ DrainNext \/ DrainDone PROVE Goal
    BY <1>3 DEF JoinPoller, DrainNext, DrainDone, R!TakeAll, R!DrainNext, R!DrainDone
  <1>4. ASSUME NEW c \in Callers, NEW k \in Keys PROVE ~Register(c, k) /\ ~Unregister(c, k)
    BY DEF Register, Unregister
  <1>5. BeginJob => Same
    BY DEF BeginJob, R!Begin
  <1>6. SendFails \/ RuntimeShutdown \/ (\E c \in Contents : Deliver(c)) \/ Polling => Same
    BY DEF SendFails, RuntimeShutdown, Deliver, Polling, PollWait, Take, TakeFails, SkipSample,
       RejectSample, RouteSample, Submit
  <1>7. Recv \/ RecvFails \/ RefuseJob \/ Watch \/ Join \/ LetGo \/ Poll \/ Await => Same
    BY DEF Recv, RecvFails, RefuseJob, Watch, Join, LetGo, Poll, Await
  <1>8. DropStop \/ JoinDispatcher \/ DeleteEntities \/ DeleteParticipant => Same
    BY DEF DropStop, JoinDispatcher, DeleteEntities, DeleteParticipant, Delete
  <1>9. UNCHANGED vars => Same
    BY DEF vars
  <1> HIDE DEF Goal, Same
  <1>10. Goal \/ Same
    BY <1>1, <1>2, <1>3, <1>4, <1>5, <1>6, <1>7, <1>8, <1>9
    DEF Next, Calls, Dispatching, Callback, Dropping, Teardown, Dropped
  <1>11. QED
    BY <1>a, <1>10 DEF Goal, Same

(* A worker that has ended stays so.                                       *)
LEMMA OverStays ==
  ASSUME Base, [Next]_vars
  PROVE  /\ poller \in Over => poller' = poller
         /\ dispatcher \in Over => dispatcher' = dispatcher
  <1>1. Control
    BY DEF Base
  <1>2. poller \in Over => poller' = poller
    BY PollerFrame
    DEF Polling, Deliver, PollWait, Take, TakeFails, SkipSample, RejectSample, RouteSample, Submit,
        pollerVars, Over
  <1>3. dispatcher \in Over => dispatcher' = dispatcher
    BY <1>1, DispatcherFrame
    DEF Submit, Dispatching, Callback, Recv, RecvFails, BeginJob, RefuseJob, Watch, Join, LetGo,
        Poll, Await, Return, Panic, Cancel, dispatcherVars, Over
  <1>4. QED
    BY <1>2, <1>3

(* Every step keeps the drop, the registry's code of its thread and the    *)
(* workers in step.                                                        *)
LEMMA DropOrderStep == Base /\ DropOrder /\ [Next]_vars => DropOrder'
  <1> SUFFICES ASSUME Base, DropOrder, [Next]_vars PROVE DropOrder'
    OBVIOUS
  <1>a. /\ pc \in [R!Threads -> R!Closing \cup {"idle", "draining", "drained"}]
        /\ Control /\ DropTypes /\ Owner \in R!Threads
    BY DEF Base, TypeOK, R!TypeOK, R!Threads
  <1>b. /\ poller \in Over => poller' = poller
        /\ dispatcher \in Over => dispatcher' = dispatcher
        /\ stop => (\A c \in Callers : pc'[c] = "idle") /\ entries' \subseteq entries
    BY OverStays, CallersGone
  <1>1. CASE DropStop
    BY <1>a, <1>b, <1>1 DEF DropStop, DropOrder, R!Borrowed, registryVars, pollerVars
  <1>2. CASE JoinPoller
    BY <1>a, <1>b, <1>2 DEF JoinPoller, JoinWorker, R!TakeAll, DropOrder, Control
  <1>3. CASE DrainNext
    BY <1>a, <1>b, <1>3 DEF DrainNext, R!DrainNext, DropOrder, Control, R!Closing
  <1>4. CASE DrainDone
    BY <1>a, <1>b, <1>4 DEF DrainDone, R!DrainDone, DropOrder, Control, R!Closing
  <1>5. CASE JoinDispatcher
    BY <1>a, <1>b, <1>5 DEF JoinDispatcher, JoinWorker, DropOrder, Control, registryVars
  <1>6. CASE DeleteEntities \/ DeleteParticipant
    BY <1>a, <1>b, <1>6
    DEF DeleteEntities, DeleteParticipant, Delete, DropOrder, Control, registryVars
  <1>7. CASE UNCHANGED <<dropPc, stop>>
    <2>1. CASE JoinPoller \/ DrainNext \/ DrainDone
      BY <1>2, <1>3, <1>4, <2>1
    <2>2. CASE pc'[Owner] = pc[Owner]
      BY <1>a, <1>b, <1>7, <2>2 DEF DropOrder, Control
    <2>3. CASE pc[Owner] \in R!Closing /\ pc'[Owner] \in R!Closing \cup {"draining"}
      BY <1>a, <1>b, <1>7, <2>3 DEF DropOrder, Control, R!Closing
    <2>4. QED
      BY <2>1, <2>2, <2>3, OwnerFrame
  <1>8. QED
    BY <1>1, <1>2, <1>3, <1>4, <1>5, <1>6, <1>7, DropFrame
    DEF Dropping, Teardown, Dropped, RuntimeShutdown, vars

(* With both workers gone and the registry drained, nothing is left.       *)
LEMMA TeardownFollows == Base /\ DropOrder /\ InFlightExact => TeardownIsLast
  <1> SUFFICES ASSUME Base, DropOrder, InFlightExact,
                      dropPc \in {"deleteEntities", "deleteParticipant", "dropped"}
               PROVE  /\ poller \in Over /\ dispatcher \in Over
                      /\ queue = <<>> /\ batch = <<>>
                      /\ ~Live
                      /\ entries = {} /\ \A r \in Regs : ~active[r] /\ inFlight[r] = 0
    BY DEF TeardownIsLast
  <1>1. poller \in Over /\ dispatcher \in Over /\ entries = {} /\ stop
    BY DEF DropOrder, Base, Control
  <1>2. queue = <<>> /\ batch = <<>> /\ ~Live
    BY <1>1 DEF Base, Control, Live, Over
  <1>3. pc \in [R!Threads -> R!Closing \cup {"idle", "draining", "drained"}]
    BY DEF Base, TypeOK, R!TypeOK
  <1>4. pc[Owner] = "drained" /\ \A t \in R!Threads : pc[t] # "removed"
    BY <1>1, <1>3 DEF DropOrder, R!Threads, R!Closing
  <1>5. /\ \A r \in Regs : active[r] =>
             r \in entries \cup todo \/ \E t \in R!Threads : pc[t] = "removed" /\ target[t] = r
        /\ pc[Owner] = "drained" => todo = {}
    BY DEF Base, RP!IInv, RP!ActiveIsHeld, RP!Threads, R!Threads
  <1>6. \A r \in Regs : ~active[r] /\ inFlight[r] = 0
    BY <1>1, <1>2, <1>4, <1>5 DEF InFlightExact
  <1>7. QED
    BY <1>1, <1>2, <1>6
-----------------------------------------------------------------------------
LEMMA AbortsStep == Base /\ Aborts /\ [Next]_vars => Aborts'
  <1> SUFFICES ASSUME Base, Aborts, [Next]_vars PROVE Aborts'
    OBVIOUS
  <1>1. (stop => stop') /\ (~runtimeUp => ~runtimeUp')
    BY OneWay
  <1>2. CASE Dispatching
    <2>1. CASE BeginJob \/ Join
      BY <2>1 DEF BeginJob, Join, Aborts
    <2>2. CASE Watch
      <3>1. stop' = stop /\ runtimeUp' = runtimeUp /\ task' = task
        BY <2>2 DEF Watch
      <3>2. aborted' => stop
        BY <2>2 DEF Watch
      <3>3. QED
        BY <3>1, <3>2 DEF Aborts
    <2>3. CASE Recv \/ RefuseJob \/ RecvFails \/ LetGo
      BY <2>3 DEF Recv, RecvFails, RefuseJob, LetGo, Aborts, taskVars
    <2>4. QED
      BY <1>2, <2>1, <2>2, <2>3 DEF Dispatching
  <1>3. CASE Callback
    BY <1>1, <1>3 DEF Callback, Poll, Await, Return, Panic, Cancel, Aborts
  <1>4. CASE UNCHANGED <<task, aborted>>
    BY <1>1, <1>4 DEF Aborts
  <1>5. QED
    BY <1>2, <1>3, <1>4, DispatcherFrame DEF Submit, taskVars

(* The panics of the callbacks and of destructors, and how many of them    *)
(* the health counters have or the dispatcher took with it.                *)
Fatal == IF dispatcher = "panicked" THEN 1 ELSE 0
ToJoin == IF task = "panicked" THEN 1 ELSE 0

PanicsAgree == tally["panicked"] + tally["unwound"] = health["panics"] + Fatal + ToJoin
PanicsNoted == tally["unwound"] <= health["panics"] + Fatal

(* Steps that leave panics and their counters alone.                       *)
PanicsSame ==
  /\ health'["panics"] = health["panics"]
  /\ tally'["panicked"] = tally["panicked"] /\ tally'["unwound"] = tally["unwound"]
  /\ Fatal' = Fatal /\ ToJoin' = ToJoin

LEMMA PanicsFrame ==
  ASSUME Base, [Next]_vars PROVE Join \/ LetGo \/ Panic \/ PanicsSame
  <1>a. RecordTypes /\ Control
    BY DEF Base, TypeOK
  <1> USE <1>a DEF PanicsSame, Fatal, ToJoin, Over, Record, Count, RecordTypes, Counters, Tallied,
                  dispatcherVars, taskVars, historyVars
  <1>1. Calls => PanicsSame
    BY DEF Calls, Register, Unregister, Deactivation, SpuriousWake, SendFails, RuntimeShutdown
  <1>2. (\E c \in Contents : Deliver(c)) => PanicsSame
    BY DEF Deliver
  <1>3. PollWait \/ Take \/ TakeFails \/ SkipSample \/ RejectSample \/ RouteSample => PanicsSame
    BY DEF PollWait, Take, TakeFails, SkipSample, RejectSample, RouteSample
  <1>4. ASSUME NEW r \in Regs, Submit(r) PROVE PanicsSame
    <2>1. health'["panics"] = health["panics"]
      BY <1>4, SubmitCases
    <2>2. tally'["panicked"] = tally["panicked"] /\ tally'["unwound"] = tally["unwound"]
      BY <1>4, SubmitCases DEF PollerUnwinds
    <2>3. UNCHANGED <<dispatcher, task>>
      BY <1>4 DEF Submit
    <2>4. QED
      BY <2>1, <2>2, <2>3
  <1>5. Recv \/ RecvFails \/ RefuseJob \/ Watch => PanicsSame
    BY DEF Recv, RecvFails, RefuseJob, Watch, Finished
  <1>6. ASSUME BeginJob PROVE PanicsSame
    <2>1. health' = health /\ Count("begun", 1) /\ {dispatcher, dispatcher'} = {"begin", "watch"}
      BY <1>6 DEF BeginJob
    <2>2. task = "none" /\ task' = "pending"
      BY <1>6 DEF BeginJob, Control
    <2>3. QED
      BY <2>1, <2>2
  <1>7. Poll \/ Await \/ Return \/ Cancel => PanicsSame
    BY DEF Poll, Await, Return, Cancel
  <1>8. Dropping => PanicsSame
    BY DEF Dropping, Teardown, DropStop, JoinPoller, DrainNext, DrainDone, JoinDispatcher,
       JoinWorker, DeleteEntities, DeleteParticipant, Delete, Dropped, vars
  <1>9. UNCHANGED vars => PanicsSame
    BY DEF vars
  <1> HIDE DEF PanicsSame
  <1>10. QED
    BY <1>1, <1>2, <1>3, <1>4, <1>5, <1>6, <1>7, <1>8, <1>9
    DEF Next, Polling, Dispatching, Callback

(* A job that panics outside its task is counted, or is the dispatcher's   *)
(* last.                                                                   *)
LEMMA UnwindCounts ==
  ASSUME Base, NEW n \in Nat, Unwind(n), dispatcher \in {"join", "letgo"}
  PROVE  /\ health'["panics"] + Fatal' = health["panics"] + Fatal + 1
         /\ tally'["panicked"] = tally["panicked"]
         /\ tally'["unwound"] = tally["unwound"] + n
  <1>1. RecordTypes /\ health["panics"] \in Nat /\ Fatal = 0
    BY DEF Base, TypeOK, RecordTypes, Counters, Fatal
  <1>2. tally'["panicked"] = tally["panicked"] /\ tally'["unwound"] = tally["unwound"] + n
    BY <1>1 DEF Unwind, Count, RecordTypes, Tallied
  <1>3. CASE dispatcher' = "recv"
    <2>1. health'["panics"] = health["panics"] + 1
      BY <1>1, <1>3 DEF Unwind, Record, RecordTypes, Counters
    <2>2. QED
      BY <1>1, <1>2, <1>3, <2>1 DEF Fatal
  <1>4. CASE dispatcher' = "panicked"
    <2>1. health' = health
      BY <1>4 DEF Unwind
    <2>2. QED
      BY <1>1, <1>2, <1>4, <2>1 DEF Fatal
  <1>5. QED
    BY <1>3, <1>4 DEF Unwind

(* A panic is counted when its task is joined or its job unwinds, and      *)
(* nothing else is.                                                        *)
LEMMA PanicsStep == Base /\ Aborts /\ PanicsCounted /\ [Next]_vars => PanicsCounted'
  <1> SUFFICES ASSUME Base, Aborts, PanicsCounted, [Next]_vars
               PROVE  (runtimeUp' /\ ~stop' => PanicsAgree') /\ PanicsNoted'
    BY DEF PanicsCounted, PanicsAgree, PanicsNoted, Fatal, ToJoin
  <1> DEFINE Goal == (runtimeUp' /\ ~stop' => PanicsAgree') /\ PanicsNoted'
  <1>a. RecordTypes /\ Control /\ (runtimeUp' /\ ~stop' => runtimeUp /\ ~stop)
    BY OneWay DEF Base, TypeOK
  <1>b. (runtimeUp /\ ~stop => PanicsAgree) /\ PanicsNoted
    BY DEF PanicsCounted, PanicsAgree, PanicsNoted, Fatal, ToJoin
  <1>c. /\ health["panics"] \in Nat /\ tally["panicked"] \in Nat /\ tally["unwound"] \in Nat
        /\ Fatal \in {0, 1} /\ ToJoin \in {0, 1}
    BY <1>a DEF RecordTypes, Counters, Tallied, Fatal, ToJoin
  <1>1. CASE PanicsSame
    BY <1>a, <1>b, <1>1 DEF PanicsSame, PanicsAgree, PanicsNoted
  <1>2. CASE Panic
    <2>1. ToJoin = 0 /\ ToJoin' = 1 /\ Fatal' = Fatal /\ health' = health
      BY <1>2 DEF Panic, ToJoin, Fatal, dispatcherVars
    <2>2. tally'["panicked"] = tally["panicked"] + 1 /\ tally'["unwound"] = tally["unwound"]
      BY <1>a, <1>2 DEF Panic, Count, RecordTypes, Tallied
    <2>3. QED
      BY <1>a, <1>b, <1>c, <2>1, <2>2 DEF PanicsAgree, PanicsNoted
  <1>3. CASE LetGo
    <2>1. ToJoin = 0 /\ ToJoin' = 0
      BY <1>a, <1>3 DEF LetGo, Control, ToJoin, taskVars
    <2>2. CASE Unwind(1)
      <3>1. dispatcher = "letgo"
        BY <1>3 DEF LetGo
      <3>2. /\ health'["panics"] + Fatal' = health["panics"] + Fatal + 1
            /\ tally'["panicked"] = tally["panicked"]
            /\ tally'["unwound"] = tally["unwound"] + 1
        BY <2>2, <3>1, UnwindCounts
      <3>3. QED
        BY <1>a, <1>b, <1>c, <2>1, <3>2 DEF PanicsAgree, PanicsNoted
    <2>3. CASE dispatcher' = "recv" /\ UNCHANGED <<health, tally>>
      <3>1. Fatal' = 0 /\ Fatal = 0
        BY <1>3, <2>3 DEF LetGo, Fatal
      <3>2. QED
        BY <1>a, <1>b, <2>1, <2>3, <3>1 DEF PanicsAgree, PanicsNoted
    <2>4. QED
      BY <1>3, <2>2, <2>3 DEF LetGo
  <1>4. CASE Join
    <2>1. /\ task' = "none" /\ dispatcher = "join" /\ task \in {"done", "panicked", "cancelled"}
          /\ stop' = stop /\ runtimeUp' = runtimeUp
      BY <1>4 DEF Join, Finished
    <2>2. ToJoin' = 0 /\ (runtimeUp /\ ~stop => task # "cancelled")
      BY <2>1 DEF ToJoin, Aborts
    <2>3. CASE task = "panicked" /\ Unwind(0)
      <3>1. /\ health'["panics"] + Fatal' = health["panics"] + Fatal + 1
            /\ tally'["panicked"] = tally["panicked"]
            /\ tally'["unwound"] = tally["unwound"]
        BY <1>c, <2>1, <2>3, UnwindCounts
      <3>2. ToJoin = 1
        BY <2>3 DEF ToJoin
      <3>3. health'["panics"] + Fatal' \in Nat
        BY <1>c, <3>1
      <3>4. QED
        BY <1>a, <1>b, <1>c, <2>1, <2>2, <3>1, <3>2 DEF PanicsAgree, PanicsNoted
    <2>4. CASE dispatcher' = "letgo" /\ tally' = tally
               /\ IF task # "done" /\ ~stop THEN Record("panics") ELSE UNCHANGED health
      <3>1. Fatal = 0 /\ Fatal' = 0
        BY <2>1, <2>4 DEF Fatal
      <3>2. health'["panics"] = health["panics"] + IF task # "done" /\ ~stop THEN 1 ELSE 0
        BY <1>a, <1>c, <2>4 DEF Record, RecordTypes, Counters
      <3>3. runtimeUp /\ ~stop => ToJoin = IF task # "done" /\ ~stop THEN 1 ELSE 0
        BY <2>1, <2>2 DEF ToJoin
      <3>4. PanicsNoted'
        BY <1>b, <1>c, <2>4, <3>1, <3>2 DEF PanicsNoted
      <3>5. QED
        BY <1>a, <1>b, <1>c, <2>2, <2>4, <3>1, <3>2, <3>3, <3>4 DEF PanicsAgree
    <2>5. QED
      BY <1>4, <2>3, <2>4 DEF Join
  <1>5. QED
    BY <1>1, <1>2, <1>3, <1>4, PanicsFrame
-----------------------------------------------------------------------------
Begun == IF dispatcher = "begin" THEN 1 ELSE 0

(* The matches still on their way, and those that came to an end, but for  *)
(* the jobs that were lost.                                                *)
Underway == Cardinality(snap) + Len(queue) + Begun
Settled == tally["begun"] + tally["refused"] + health["drops"]

JobsAgree == tally["matched"] = Underway + Settled + tally["lost"]
LostWithWorker == tally["lost"] > 0 => "panicked" \in {poller, dispatcher}

LEMMA JobsTypes ==
  ASSUME Base
  PROVE  /\ Cardinality(snap) \in Nat /\ Len(queue) \in Nat /\ Begun \in Nat
         /\ tally["begun"] \in Nat /\ tally["refused"] \in Nat /\ health["drops"] \in Nat
         /\ tally["matched"] \in Nat /\ tally["lost"] \in Nat
  <1>1. Cardinality(snap) \in Nat /\ Len(queue) \in Nat
    BY FS_CardinalityType, LenProperties DEF Base, Control, TypeOK, DispatcherTypes
  <1>2. RecordTypes /\ Begun \in Nat
    BY DEF Base, TypeOK, Begun
  <1>3. QED
    BY <1>1, <1>2 DEF RecordTypes, Counters, Tallied

LEMMA JobsMean == Base => (NoJobLost <=> JobsAgree /\ LostWithWorker)
  <1> SUFFICES ASSUME Base PROVE NoJobLost <=> JobsAgree /\ LostWithWorker
    OBVIOUS
  <1> DEFINE c == Cardinality(snap)
             q == Len(queue)
             b == tally["begun"]
             f == tally["refused"]
             l == tally["lost"]
             d == health["drops"]
  <1>1. c \in Nat /\ q \in Nat /\ Begun \in Nat /\ b \in Nat /\ f \in Nat /\ l \in Nat /\ d \in Nat
    BY JobsTypes
  <1> HIDE DEF c, q, b, f, l, d
  <1>2. c + q + Begun + b + f + l + d = (c + q + Begun) + (b + f + d) + l
    BY <1>1
  <1>3. QED
    BY <1>2 DEF NoJobLost, JobsAgree, LostWithWorker, Underway, Settled, Begun, c, q, b, f, l, d

(* A job is moved on, or it is counted as begun, refused, dropped or lost. *)
LEMMA JobsStep == Base /\ Base' /\ NoJobLost /\ [Next]_vars => NoJobLost'
  <1> SUFFICES ASSUME Base, Base', NoJobLost, [Next]_vars PROVE NoJobLost'
    OBVIOUS
  <1> DEFINE Same == /\ UNCHANGED <<snap, queue, Begun>>
                     /\ health'["drops"] = health["drops"]
                     /\ \A k \in {"matched", "begun", "refused", "lost"} : tally'[k] = tally[k]
             Kin == tally'["lost"] = tally["lost"] \/ "panicked" \in {poller', dispatcher'}
             Goal == JobsAgree' /\ Kin
  <1>a. Control /\ TypeOK /\ RecordTypes /\ IsFiniteSet(snap) /\ queue \in Seq(Jobs)
    BY DEF Base, TypeOK, Control, DispatcherTypes
  <1>b. tally["matched"] = Underway + Settled + tally["lost"] /\ LostWithWorker
    BY JobsMean DEF JobsAgree
  <1>c. /\ Cardinality(snap) \in Nat /\ Len(queue) \in Nat /\ Begun \in Nat
        /\ tally["begun"] \in Nat /\ tally["refused"] \in Nat /\ health["drops"] \in Nat
        /\ tally["matched"] \in Nat /\ tally["lost"] \in Nat
    BY JobsTypes
  <1>d. Underway \in Nat /\ Settled \in Nat
    <2>1. \A x, y, z \in Nat : x + y + z \in Nat
      OBVIOUS
    <2>2. QED
      BY <1>c, <2>1, Zenon DEF Underway, Settled
  <1>e. SUFFICES Goal
    <2>1. LostWithWorker'
      BY <1>b, OverStays DEF LostWithWorker, Over
    <2>2. (Base => (NoJobLost <=> JobsAgree /\ LostWithWorker))'
      BY JobsMean, PTL
    <2>3. QED
      BY <2>1, <2>2
  <1>f. ASSUME NEW m \in Nat, NEW g \in Int, NEW h \in Int, NEW l \in Int,
               tally'["matched"] = tally["matched"] + m, Underway' = Underway + g,
               Settled' = Settled + h, tally'["lost"] = tally["lost"] + l, m = g + h + l
        PROVE  JobsAgree'
    <2>1. tally["matched"] + m = (Underway + g) + (Settled + h) + (tally["lost"] + l)
      BY <1>b, <1>c, <1>d, <1>f
    <2>2. QED
      BY <1>f, <2>1 DEF JobsAgree
  <1>g. ASSUME NEW g \in Int, NEW h \in Int, tally' = tally, Underway' = Underway + g,
               Settled' = Settled + h, g + h = 0
        PROVE  JobsAgree'
    <2>1. tally'["matched"] = tally["matched"] + 0 /\ tally'["lost"] = tally["lost"] + 0
            /\ 0 = g + h + 0
      BY <1>c, <1>g
    <2>2. 0 \in Nat /\ 0 \in Int
      OBVIOUS
    <2>3. QED
      BY <1>f, <1>g, <2>1, <2>2, Zenon
  <1> HIDE DEF Begun
  <1>1. CASE RouteSample
    <2> DEFINE rs == R!Matching(Head(batch).to)
    <2>1. Cardinality(snap) = 0 /\ Cardinality(rs) \in Nat
      BY <1>a, <1>1, FS_EmptySet, MatchingFinite DEF RouteSample, Control
    <2>2. snap' = rs /\ Count("matched", Cardinality(rs)) /\ UNCHANGED <<queue, Begun, health>>
      BY <1>1 DEF RouteSample, GoOn, Begun, dispatcherVars
    <2>3. /\ tally'["matched"] = tally["matched"] + Cardinality(rs)
          /\ tally'["begun"] = tally["begun"] /\ tally'["refused"] = tally["refused"]
          /\ tally'["lost"] = tally["lost"] + 0
      BY <1>a, <1>c, <2>2 DEF Count, RecordTypes, Tallied
    <2> HIDE DEF rs
    <2>4. Underway' = Underway + Cardinality(rs)
      BY <1>c, <2>1, <2>2 DEF Underway
    <2>5. Settled' = Settled + 0
      BY <1>c, <2>2, <2>3 DEF Settled
    <2>6. JobsAgree'
      BY <1>f, <2>1, <2>3, <2>4, <2>5
    <2>7. QED
      BY <1>c, <2>3, <2>6
  <1>2. ASSUME NEW r \in Regs, Submit(r) PROVE Goal
    <2>0. r \in snap /\ Begun' = Begun
      BY <1>2 DEF Submit, Begun, dispatcherVars
    <2>1. Cardinality(snap \ {r}) = Cardinality(snap) - 1 /\ Cardinality(snap \ {r}) \in Nat
      BY <1>a, <2>0, FS_RemoveElement, FS_CardinalityType
    <2>2. CASE /\ queue' = Append(queue, [reg |-> r, id |-> Head(batch).id])
               /\ GoOn(snap \ {r}) /\ UNCHANGED <<health, tally>>
      <3>1. Head(batch) \in Sample
        BY <1>a, <1>2, HeadTailProperties DEF Control, TypeOK, PollerTypes, Submit
      <3>2. Len(queue') = Len(queue) + 1
        BY <1>a, <2>2, <3>1, AppendProperties DEF Sample, Jobs
      <3>3. Cardinality(snap') = Cardinality(snap) - 1
        BY <2>1, <2>2 DEF GoOn
      <3>4. Underway' = Underway + 0
        BY <1>c, <2>0, <3>2, <3>3 DEF Underway
      <3>5. Settled' = Settled + 0
        BY <1>d, <2>2 DEF Settled
      <3>6. JobsAgree'
        BY <1>g, <2>2, <3>4, <3>5
      <3>7. QED
        BY <2>2, <3>6
    <2>3. ASSUME Record("drops"), queue' = queue
          PROVE  health'["drops"] = health["drops"] + 1 /\ Len(queue') = Len(queue)
      BY <1>a, <2>3 DEF Record, RecordTypes, Counters
    <2>4. CASE queue' = queue /\ Record("drops") /\ GoOn(snap \ {r}) /\ UNCHANGED tally
      <3>1. Cardinality(snap') = Cardinality(snap) - 1
        BY <2>1, <2>4 DEF GoOn
      <3>2. Underway' = Underway + (-1)
        BY <1>c, <2>0, <2>3, <2>4, <3>1 DEF Underway
      <3>3. Settled' = Settled + 1
        BY SMTT(30), <1>c, <2>3, <2>4 DEF Settled
      <3>4. JobsAgree'
        BY <1>g, <2>4, <3>2, <3>3
      <3>5. QED
        BY <2>4, <3>4
    <2>5. CASE queue' = queue /\ Record("drops") /\ PollerUnwinds(r)
      <3>1. Cardinality(snap') = 0 /\ poller' = "panicked"
        BY <2>5, FS_EmptySet DEF PollerUnwinds
      <3>2. /\ tally'["lost"] = tally["lost"] + (Cardinality(snap) - 1)
            /\ tally'["matched"] = tally["matched"] + 0
            /\ tally'["begun"] = tally["begun"] /\ tally'["refused"] = tally["refused"]
        <4> DEFINE n == Cardinality(snap \ {r})
        <4>1. Count("lost", n) /\ n = Cardinality(snap) - 1
          BY <2>1, <2>5 DEF PollerUnwinds
        <4> HIDE DEF n
        <4>2. QED
          BY <1>a, <1>c, <4>1 DEF Count, RecordTypes, Tallied
      <3>3. Underway' = Underway + (-Cardinality(snap))
        BY <1>c, <2>0, <2>3, <2>5, <3>1 DEF Underway
      <3>4. Settled' = Settled + 1
        BY <1>c, <2>3, <2>5, <3>2 DEF Settled
      <3>5. JobsAgree'
        BY <1>c, <1>f, <3>2, <3>3, <3>4
      <3>6. QED
        BY <3>1, <3>5
    <2>6. QED
      BY <1>2, <2>2, <2>4, <2>5, SubmitCases
  <1>3. CASE Recv
    <2>1. queue' = Tail(queue) /\ queue # <<>> /\ UNCHANGED <<snap, health, tally>>
      BY <1>3 DEF Recv, pollerVars, historyVars
    <2>2. Len(queue') = Len(queue) - 1
      BY <1>a, <2>1, HeadTailProperties
    <2>3. Begun = 0 /\ Begun' = 1
      BY <1>3 DEF Recv, Begun
    <2>4. Underway' = Underway + 0
      BY <1>c, <2>1, <2>2, <2>3 DEF Underway
    <2>5. Settled' = Settled + 0
      BY <1>d, <2>1 DEF Settled
    <2>6. JobsAgree'
      BY <1>g, <2>1, <2>4, <2>5
    <2>7. QED
      BY <2>1, <2>6
  <1>4. CASE BeginJob \/ RefuseJob
    <2>1. Count("begun", 1) \/ Count("refused", 1)
      BY <1>4 DEF BeginJob, RefuseJob
    <2>2. UNCHANGED <<snap, queue, health>> /\ Begun = 1 /\ Begun' = 0
      BY <1>4 DEF BeginJob, RefuseJob, Begun, pollerVars
    <2>3. /\ tally'["matched"] = tally["matched"] + 0 /\ tally'["lost"] = tally["lost"] + 0
          /\ \/ tally'["begun"] = tally["begun"] + 1 /\ tally'["refused"] = tally["refused"]
             \/ tally'["begun"] = tally["begun"] /\ tally'["refused"] = tally["refused"] + 1
      BY <1>a, <1>c, <2>1 DEF Count, RecordTypes, Tallied
    <2>4. Underway' = Underway + (-1)
      BY <1>c, <2>2 DEF Underway
    <2>5. Settled' = Settled + 1
      BY SMTT(30), <1>c, <2>2, <2>3 DEF Settled
    <2>6. JobsAgree'
      BY <1>f, <2>3, <2>4, <2>5
    <2>7. QED
      BY <1>c, <2>3, <2>6
  <1>5. ASSUME Same PROVE Goal
    <2>1. Underway' = Underway + 0 /\ Settled' = Settled + 0
      BY <1>d, <1>5 DEF Underway, Settled
    <2>2. tally'["matched"] = tally["matched"] + 0 /\ tally'["lost"] = tally["lost"] + 0
      BY <1>c, <1>5
    <2>3. JobsAgree'
      BY <1>f, <2>1, <2>2
    <2>4. QED
      BY <1>5, <2>3
  <1>6. ASSUME NEW n \in Nat, Unwind(n), UNCHANGED snap, Begun = 0 PROVE Goal
    <2>0. Begun' = 0
      BY <1>6 DEF Unwind, Begun
    <2>1. CASE dispatcher' = "recv"
      <3>1. queue' = queue /\ Record("panics") /\ Count("unwound", n)
        BY <1>6, <2>1 DEF Unwind
      <3>2. Same
        BY <1>a, <1>6, <2>0, <3>1 DEF Record, Count, RecordTypes, Counters, Tallied
      <3>3. QED
        BY <1>5, <3>2
    <2>2. CASE dispatcher' = "panicked"
      <3>1. Len(queue') = 0 /\ health' = health
        BY <1>6, <2>2, EmptySeq DEF Unwind
      <3>2. /\ tally'["lost"] = tally["lost"] + Len(queue)
            /\ tally'["matched"] = tally["matched"] + 0
            /\ tally'["begun"] = tally["begun"] /\ tally'["refused"] = tally["refused"]
        BY <1>a, <1>c, <1>6, <2>2 DEF Unwind, RecordTypes, Tallied
      <3>3. Underway' = Underway + (-Len(queue))
        BY <1>c, <1>6, <2>0, <3>1 DEF Underway
      <3>4. Settled' = Settled + 0
        BY <1>c, <3>1, <3>2 DEF Settled
      <3>5. JobsAgree'
        BY <1>c, <1>f, <3>2, <3>3, <3>4
      <3>6. QED
        BY <2>2, <3>5
    <2>3. QED
      BY <1>6, <2>1, <2>2 DEF Unwind
  <1>7. ASSUME Join PROVE Goal
    <2>0. Begun = 0 /\ snap' = snap
      BY <1>7 DEF Join, Begun, pollerVars
    <2>1. CASE Unwind(0)
      BY <1>6, <2>0, <2>1
    <2>2. CASE ~Unwind(0)
      <3>1. Same
        BY <1>a, <1>7, <2>2 DEF Join, Begun, Record, pollerVars, RecordTypes, Counters
      <3>2. QED
        BY <1>5, <3>1
    <2>3. QED
      BY <2>1, <2>2
  <1>8. ASSUME LetGo PROVE Goal
    <2>0. Begun = 0 /\ snap' = snap
      BY <1>8 DEF LetGo, Begun, pollerVars
    <2>1. CASE Unwind(1)
      BY <1>6, <2>0, <2>1
    <2>2. CASE ~Unwind(1)
      <3>1. Same
        BY <1>8, <2>0, <2>2 DEF LetGo, Begun
      <3>2. QED
        BY <1>5, <3>1
    <2>3. QED
      BY <2>1, <2>2
  <1> USE DEF Record, Count, pollerVars, dispatcherVars, historyVars, Begun, RecordTypes, Counters,
              Tallied
  <1>9. Calls => Same
    BY <1>a DEF Calls, Register, Unregister, Deactivation, SpuriousWake, SendFails,
       RuntimeShutdown
  <1>10. (\E c \in Contents : Deliver(c)) => Same
    BY DEF Deliver
  <1>11. PollWait \/ Take \/ TakeFails => Same
    BY <1>a DEF PollWait, Take, TakeFails
  <1>12. SkipSample \/ RejectSample => Same
    BY <1>a DEF SkipSample, RejectSample, GoOn, Control
  <1>13. RecvFails \/ Watch => Same
    BY <1>a DEF RecvFails, Watch
  <1>14. Callback => Same
    BY <1>a DEF Callback, Poll, Await, Return, Panic, Cancel
  <1>15. Dropping => Same
    BY <1>a DEF Dropping, Teardown, DropStop, JoinPoller, DrainNext, DrainDone, JoinDispatcher,
       JoinWorker, DeleteEntities, DeleteParticipant, Delete, Dropped, vars
  <1>16. UNCHANGED vars => Same
    BY DEF vars
  <1> HIDE DEF Same, Goal
  <1>17. QED
    BY <1>1, <1>2, <1>3, <1>4, <1>5, <1>7, <1>8, <1>9, <1>10, <1>11, <1>12, <1>13, <1>14, <1>15,
       <1>16
    DEF Next, Polling, Dispatching
-----------------------------------------------------------------------------
(* The inductive invariant of the transport.                               *)
IInv ==
  Base /\ DropOrder /\ Aborts /\ InFlightExact /\ PanicsCounted /\ NoJobLost

LEMMA InitInv == Init => IInv
  <1> SUFFICES ASSUME Init PROVE IInv
    OBVIOUS
  <1>1. Base
    BY BaseInit
  <1>2. /\ pc = [t \in R!Threads |-> "idle"] /\ entries = {}
        /\ inFlight = [r \in Regs |-> 0]
    BY DEF Init, R!Init
  <1>3. DropOrder
    BY <1>2 DEF Init, DropOrder, R!Threads, R!Closing
  <1>4. Aborts
    BY DEF Init, Aborts
  <1>5. InFlightExact
    BY <1>2 DEF Init, InFlightExact, Live
  <1>6. PanicsCounted
    BY DEF Init, PanicsCounted, Counters, Tallied
  <1>7. NoJobLost
    <2>1. /\ tally["matched"] = 0 /\ tally["begun"] = 0 /\ tally["refused"] = 0
          /\ tally["lost"] = 0 /\ health["drops"] = 0 /\ dispatcher = "recv" /\ snap = {} /\ queue = <<>>
      BY DEF Init, Counters, Tallied
    <2>2. Cardinality(snap) = 0 /\ Len(queue) = 0
      BY <2>1, FS_EmptySet, EmptySeq
    <2>3. QED
      BY <2>1, <2>2 DEF NoJobLost
  <1>8. QED
    BY <1>1, <1>3, <1>4, <1>5, <1>6, <1>7 DEF IInv

LEMMA InvStep == IInv /\ [Next]_vars => IInv'
  BY BaseStep, DropOrderStep, AbortsStep, FlightStep, PanicsStep, JobsStep DEF IInv

(* The invariant holds of every behaviour of the transport.                *)
THEOREM Invariance == Spec => []IInv
  BY InitInv, InvStep, PTL DEF Spec

(* Every variable keeps its type; above all the three queues stay within   *)
(* history_depth, max_samples_per_poll and dispatch_capacity.              *)
THEOREM TypesKept == Spec => []TypeOK
  <1>1. IInv => TypeOK
    BY DEF IInv, Base
  <1>2. QED
    BY <1>1, Invariance, PTL

(* run_callback and the InFlight guard: the in-flight counters and the one *)
(* running callback agree, however callbacks end.                          *)
THEOREM GuardsBalance == Spec => []InFlightExact
  <1>1. IInv => InFlightExact
    BY DEF IInv
  <1>2. QED
    BY <1>1, Invariance, PTL

(* matching, submit and the dispatcher: every match of a sample with a     *)
(* registration is accounted for.                                          *)
THEOREM JobsConserved == Spec => []NoJobLost
  <1>1. IInv => NoJobLost
    BY DEF IInv
  <1>2. QED
    BY <1>1, Invariance, PTL

(* run_callback and the dispatcher's catch_unwind: while nothing is shut   *)
(* down, callback_panics counts the callbacks that panicked and the jobs   *)
(* that unwound from a listener's destructor, but for the one panic that   *)
(* ended the dispatcher; those of destructors are counted to the end.      *)
THEOREM PanicCounter == Spec => []PanicsCounted
  <1>1. IInv => PanicsCounted
    BY DEF IInv
  <1>2. QED
    BY <1>1, Invariance, PTL

(* Drop: the DDS entities are deleted after all their users are gone.      *)
THEOREM TeardownOrder == Spec => []TeardownIsLast
  <1>1. IInv => TeardownIsLast
    BY TeardownFollows DEF IInv
  <1>2. QED
    BY <1>1, Invariance, PTL

(* The poller, the dispatcher, the callbacks and Drop use the registry as  *)
(* its own specification says, so that its theorems hold in the transport. *)
THEOREM RegistryKept == Spec => RegistrySpec
  <1>1. Init => R!Init
    BY DEF Init
  <1>2. IInv /\ [Next]_vars => [R!Next]_(R!registryVars)
    BY RegistryStep DEF IInv, R!registryVars, registryVars
  <1>3. QED
    BY <1>1, <1>2, Invariance, PTL DEF Spec, RegistrySpec, R!Spec
-----------------------------------------------------------------------------
(* How a drop comes to its end, as far as that is a matter of single       *)
(* steps: what it waits for has a step to make (DropGetsOn), and the steps *)
(* the workers have left become fewer (WindsDown).                         *)

(* The dispatcher waits for a task that is over or that it has aborted.    *)
Watched ==
  /\ dispatcher = "join" => Finished \/ aborted
  /\ aborted => dispatcher = "join"

LEMMA WatchedStep == Base /\ Watched /\ [Next]_vars => Watched'
  <1> SUFFICES ASSUME Base, Watched, [Next]_vars PROVE Watched'
    OBVIOUS
  <1>1. Control /\ task \in {"none", "pending", "polling", "done", "panicked", "cancelled"}
    BY DEF Base, TypeOK, DispatcherTypes
  <1>2. ASSUME NEW r \in Regs, Submit(r) PROVE Watched'
    BY <1>2 DEF Submit, Watched, Finished, dispatcherVars, taskVars
  <1>3. CASE Recv \/ RecvFails \/ RefuseJob
    BY <1>3 DEF Recv, RecvFails, RefuseJob, Watched, Finished, taskVars
  <1>4. CASE BeginJob
    BY <1>4 DEF BeginJob, Watched
  <1>5. CASE Watch
    BY <1>5 DEF Watch, Watched, Finished
  <1>6. CASE Callback
    BY <1>1, <1>6
    DEF Callback, Poll, Await, Return, Panic, Cancel, Watched, Finished, dispatcherVars
  <1>7. CASE UNCHANGED <<queue, dispatcher, job, task, aborted>>
    BY <1>7 DEF Watched, Finished
  <1>8. CASE Join
    BY <1>8 DEF Join, Unwind, Watched
  <1>9. CASE LetGo
    BY <1>9 DEF LetGo, Unwind, Watched, taskVars
  <1>10. QED
    BY <1>2, <1>3, <1>4, <1>5, <1>6, <1>7, <1>8, <1>9, DispatcherFrame DEF Dispatching

LEMMA GettingOn == IInv /\ Watched => DropGetsOn
  <1> SUFFICES ASSUME IInv, Watched PROVE DropGetsOn
    OBVIOUS
  <1>1. ASSUME pc[Owner] = "waiting" PROVE Live
    <2>1. Owner \in RP!Threads /\ pc[Owner] \in RP!Closing
      BY <1>1 DEF RP!Threads, RP!Closing
    <2>2. target[Owner] \in Regs /\ inFlight[target[Owner]] > 0
      BY <1>1, <2>1 DEF IInv, Base, RP!IInv, RP!OneCloser, RP!NoLostWakeup
    <2>3. QED
      BY <2>2 DEF IInv, InFlightExact
  <1>2. ASSUME Live PROVE task = "polling" \/ aborted \/ dispatcher = "watch"
    BY <1>2 DEF IInv, Base, Control, Watched, Live, Finished
  <1>3. QED
    BY <1>1, <1>2 DEF DropGetsOn

(* Arithmetic the solvers are not to rediscover.                           *)
LEMMA MoreSamples ==
  ASSUME NEW m \in Nat, NEW n \in Nat, m <= n, NEW s \in Nat, NEW t \in Nat, s <= t
  PROVE  m * s \in Nat /\ n * s \in Nat /\ m * s <= n * s /\ m * s <= m * t
  OBVIOUS

LEMMA OneSampleMore ==
  ASSUME NEW n \in Nat \ {0}, NEW s \in Nat
  PROVE  n * s = (n - 1) * s + s /\ (n - 1) * s \in Nat
  OBVIOUS

LEMMA Exchange ==
  ASSUME NEW m \in Nat, NEW n \in Nat, m + 9 <= n, NEW s \in Nat, NEW t \in Nat, s <= t + 8
  PROVE  m + s < n + t
  OBVIOUS

LEMMA WorkTypes ==
  ASSUME Base
  PROVE  /\ Cardinality(entries) \in Nat /\ Cardinality(snap) \in Nat
         /\ SampleWork \in Nat \ {0} /\ SampleWork = 1 + 9 * Cardinality(entries)
         /\ Len(batch) \in Nat /\ (poller \in {"batch", "fanout"} => Len(batch) # 0)
         /\ Len(queue) \in Nat
         /\ MaxTake \in Nat
  <1>1. Cardinality(entries) \in Nat /\ Cardinality(snap) \in Nat
    BY FS_CardinalityType DEF Base, Control
  <1>2. batch \in Seq(Sample) /\ queue \in Seq(Jobs)
    BY DEF Base, TypeOK, PollerTypes, DispatcherTypes
  <1>3. Len(batch) \in Nat /\ Len(queue) \in Nat
    BY <1>2, LenProperties
  <1>4. poller \in {"batch", "fanout"} => Len(batch) # 0
    BY <1>2, EmptySeq DEF Base, Control
  <1>5. QED
    BY <1>1, <1>3, <1>4, ConfigAssumption DEF SampleWork

(* The work of the poller is a number, and with fewer entries no more.     *)
LEMMA FewerEntries ==
  ASSUME Base, Base', UNCHANGED <<poller, batch, snap>>, entries' \subseteq entries
  PROVE  PollerWork' <= PollerWork
  <1>1. Cardinality(entries') <= Cardinality(entries) /\ Cardinality(entries') \in Nat
    BY FS_Subset, FS_CardinalityType DEF Base, Control
  <1>2. SampleWork' <= SampleWork /\ SampleWork' \in Nat /\ SampleWork \in Nat
    BY <1>1, WorkTypes DEF SampleWork
  <1>3. MaxTake * SampleWork' <= MaxTake * SampleWork
        /\ MaxTake * SampleWork' \in Nat /\ MaxTake * SampleWork \in Nat
    BY <1>2, WorkTypes, MoreSamples
  <1>4. Len(batch) * SampleWork' <= Len(batch) * SampleWork
        /\ Len(batch) * SampleWork' \in Nat /\ Len(batch) * SampleWork \in Nat
    BY SMTT(30), <1>2, WorkTypes, MoreSamples
  <1>5. poller = "fanout" =>
          /\ (Len(batch) - 1) * SampleWork' <= (Len(batch) - 1) * SampleWork
          /\ (Len(batch) - 1) * SampleWork' \in Nat /\ (Len(batch) - 1) * SampleWork \in Nat
    <2> SUFFICES ASSUME poller = "fanout"
                 PROVE  /\ (Len(batch) - 1) * SampleWork' <= (Len(batch) - 1) * SampleWork
                        /\ (Len(batch) - 1) * SampleWork' \in Nat
                        /\ (Len(batch) - 1) * SampleWork \in Nat
      OBVIOUS
    <2>1. Len(batch) - 1 \in Nat
      BY WorkTypes
    <2>2. QED
      BY <1>2, <2>1, MoreSamples
  <1>6. poller \in {"wait", "take", "batch", "fanout"} \cup Over
    BY DEF Base, TypeOK, PollerTypes
  <1>7. CASE poller \in {"wait"} \cup Over
    BY <1>7 DEF PollerWork, Over
  <1>8. CASE poller = "take"
    BY <1>3, <1>8 DEF PollerWork, Over
  <1>9. CASE poller = "batch"
    BY <1>4, <1>9 DEF PollerWork, Over
  <1>10. CASE poller = "fanout"
    BY SMTT(30), <1>5, <1>10, WorkTypes DEF PollerWork, Over
  <1>11. QED
    BY <1>6, <1>7, <1>8, <1>9, <1>10

(* Going on with the registrations rs leaves the later samples, and a job  *)
(* for each of rs.                                                         *)
LEMMA GoOnWork ==
  ASSUME Base, batch # <<>>, NEW rs, rs \subseteq Regs, IsFiniteSet(rs), GoOn(rs),
         UNCHANGED entries
  PROVE  PollerWork' = 1 + (Len(batch) - 1) * SampleWork + 9 * Cardinality(rs)
  <1>1. batch \in Seq(Sample) /\ Len(batch) \in Nat \ {0}
    BY WorkTypes, EmptySeq DEF Base, TypeOK, PollerTypes
  <1>2. SampleWork' = SampleWork /\ SampleWork \in Nat
    BY WorkTypes DEF SampleWork
  <1> HIDE DEF SampleWork
  <1>3. CASE rs # {}
    BY <1>2, <1>3 DEF GoOn, PollerWork, Over
  <1>4. CASE rs = {}
    <2>1. Cardinality(rs) = 0
      BY <1>4, FS_EmptySet
    <2>2. batch' = Tail(batch) /\ Len(Tail(batch)) = Len(batch) - 1
      BY <1>1, <1>4, HeadTailProperties DEF GoOn
    <2>3. CASE Len(batch) = 1
      <3>1. PollerWork' = 1
        BY <1>4, <2>3 DEF GoOn, PollerWork, Over
      <3>2. (Len(batch) - 1) * SampleWork = 0
        BY <1>2, <2>3
      <3>3. QED
        BY <2>1, <3>1, <3>2
    <2>4. CASE Len(batch) # 1
      BY <1>2, <1>4, <2>1, <2>2, <2>4 DEF GoOn, PollerWork, Over
    <2>5. QED
      BY <2>3, <2>4
  <1>5. QED
    BY <1>3, <1>4

(* Each step of the poller, after the stop flag is set, uses up some work: *)
(* what it makes for the dispatcher is less than what it had.              *)
LEMMA PollerWorkStep ==
  ASSUME Base, stop, Polling
  PROVE  /\ PollerWork' + 8 * Len(queue') < PollerWork + 8 * Len(queue)
         /\ UNCHANGED <<dispatcher, task, entries, stop>>
  <1> DEFINE Less == PollerWork' + 8 * Len(queue') < PollerWork + 8 * Len(queue)
             Same == UNCHANGED <<dispatcher, task, entries, stop>>
             later == (Len(batch) - 1) * SampleWork
             taken == MaxTake * SampleWork
  <1>a. /\ TypeOK /\ Control /\ Cardinality(entries) \in Nat /\ Cardinality(snap) \in Nat
        /\ SampleWork \in Nat \ {0} /\ SampleWork = 1 + 9 * Cardinality(entries)
        /\ Len(batch) \in Nat /\ (poller \in {"batch", "fanout"} => Len(batch) # 0)
        /\ Len(queue) \in Nat /\ MaxTake \in Nat \ {0}
    BY WorkTypes, ConfigAssumption DEF Base
  <1>b. poller \in {"batch", "fanout"} =>
          Len(batch) * SampleWork = later + SampleWork /\ later \in Nat
    BY <1>a, OneSampleMore
  <1>c. Same
    BY DEF Polling, PollWait, Take, TakeFails, SkipSample, RejectSample, RouteSample, Submit,
       dispatcherVars, taskVars, registryVars
  <1>d. SampleWork' = SampleWork
    BY <1>c DEF SampleWork
  <1>e. poller = "batch" => PollerWork = 1 + later + SampleWork
    BY <1>a, <1>b DEF PollerWork, Over
  <1>f. poller = "fanout" => PollerWork = 1 + later + 9 * Cardinality(snap)
    BY DEF PollerWork, Over
  <1>g. ASSUME NEW rs, rs \subseteq Regs, IsFiniteSet(rs), GoOn(rs), batch # <<>>
        PROVE  PollerWork' = 1 + later + 9 * Cardinality(rs)
    BY <1>c, <1>g, GoOnWork
  <1>1. ASSUME PollWait PROVE Less
    <2>1. poller = "wait" /\ poller' = "exited" /\ queue' = queue
      BY <1>1 DEF PollWait
    <2>2. PollerWork = 1 /\ PollerWork' = 0
      BY <2>1 DEF PollerWork, Over
    <2>3. QED
      BY <1>a, <2>1, <2>2
  <1> HIDE DEF later
  <1>2. ASSUME Take \/ TakeFails PROVE Less
    <2>1. poller = "take" /\ queue' = queue
      BY <1>2 DEF Take, TakeFails
    <2>2. PollerWork = 2 + taken /\ taken \in Nat
      BY <1>a, <2>1, MoreSamples DEF PollerWork, Over
    <2>3. CASE poller' = "wait"
      <3>1. PollerWork' = 1
        BY <2>3 DEF PollerWork, Over
      <3> HIDE DEF taken
      <3>2. QED
        BY <1>a, <2>1, <2>2, <3>1
    <2>4. CASE poller' # "wait"
      <3>1. Take
        BY <1>2, <2>4 DEF TakeFails
      <3>2. poller' = "batch" /\ batch' \in Seq(Sample) /\ Len(batch') <= MaxTake
        BY <1>a, <2>4, <3>1, TakeTypes DEF Take
      <3>3. Len(batch') \in Nat
        BY <3>2, LenProperties
      <3> DEFINE some == Len(batch') * SampleWork
      <3>4. some \in Nat /\ some <= taken
        BY <1>a, <3>2, <3>3, MoreSamples
      <3>5. PollerWork' = 1 + some
        BY <1>d, <3>2 DEF PollerWork, Over
      <3> HIDE DEF some, taken
      <3>6. QED
        BY <1>a, <2>1, <2>2, <3>4, <3>5
    <2>5. QED
      BY <2>3, <2>4
  <1>3. ASSUME NEW rs, rs \subseteq entries, GoOn(rs), poller = "batch", queue' = queue
        PROVE  Less
    <2>1. rs \subseteq Regs /\ IsFiniteSet(entries) /\ batch # <<>>
      BY <1>a, <1>3 DEF TypeOK, R!TypeOK, Control
    <2>2. IsFiniteSet(rs) /\ Cardinality(rs) <= Cardinality(entries) /\ Cardinality(rs) \in Nat
      BY <1>3, <2>1, FS_Subset, FS_CardinalityType
    <2>3. PollerWork' = 1 + later + 9 * Cardinality(rs)
      BY <1>g, <1>3, <2>1, <2>2
    <2>4. PollerWork = 1 + later + SampleWork /\ later \in Nat
      BY <1>b, <1>e, <1>3
    <2>5. PollerWork' < PollerWork /\ PollerWork \in Nat /\ PollerWork' \in Nat
      BY SMTT(30), <1>a, <2>2, <2>3, <2>4
    <2>6. QED
      BY <1>a, <1>3, <2>5
  <1>4. ASSUME SkipSample \/ RejectSample PROVE Less
    BY <1>3, <1>4 DEF SkipSample, RejectSample
  <1>5. ASSUME RouteSample PROVE Less
    <2>1. GoOn(R!Matching(Head(batch).to)) /\ poller = "batch" /\ queue' = queue
      BY <1>5 DEF RouteSample
    <2>2. R!Matching(Head(batch).to) \subseteq entries
      BY DEF R!Matching
    <2>3. QED
      BY <1>3, <2>1, <2>2
  <1>6. ASSUME NEW r \in Regs, Submit(r) PROVE Less
    <2>1. poller = "fanout" /\ r \in snap
      BY <1>6 DEF Submit
    <2>2. /\ snap \ {r} \subseteq Regs /\ IsFiniteSet(snap \ {r})
          /\ Cardinality(snap \ {r}) = Cardinality(snap) - 1 /\ Cardinality(snap) # 0
      <3>1. snap \subseteq Regs /\ IsFiniteSet(snap)
        BY <1>a DEF TypeOK, PollerTypes, Control
      <3>2. IsFiniteSet(snap \ {r}) /\ Cardinality(snap \ {r}) = Cardinality(snap) - 1
        BY <2>1, <3>1, FS_RemoveElement
      <3>3. Cardinality(snap \ {r}) \in Nat
        BY <3>2, FS_CardinalityType
      <3>4. QED
        BY <1>a, <3>1, <3>2, <3>3
    <2>3. PollerWork' = 1 + later + 9 * (Cardinality(snap) - 1) \/ PollerWork' = 0
      <3>1. CASE GoOn(snap \ {r})
        BY <1>a, <1>g, <2>1, <2>2, <3>1 DEF Control
      <3>2. CASE PollerUnwinds(r)
        BY <3>2 DEF PollerUnwinds, PollerWork, Over
      <3>3. QED
        BY <1>6, <3>1, <3>2, SubmitCases
    <2>4. PollerWork = 1 + later + 9 * Cardinality(snap) /\ later \in Nat
      BY <1>b, <1>f, <2>1
    <2>5. Len(queue') = Len(queue) \/ Len(queue') = Len(queue) + 1
      <3>1. queue \in Seq(Jobs) /\ Head(batch) \in Sample
        BY <1>a, <2>1, HeadTailProperties DEF TypeOK, PollerTypes, DispatcherTypes, Control
      <3>2. [reg |-> r, id |-> Head(batch).id] \in Jobs
        BY <3>1 DEF Sample, Jobs
      <3>3. queue' = queue \/ queue' = Append(queue, [reg |-> r, id |-> Head(batch).id])
        BY <1>6, SubmitCases
      <3>4. QED
        BY <3>1, <3>2, <3>3, AppendProperties
    <2>6. PollerWork' + 9 <= PollerWork /\ PollerWork \in Nat /\ PollerWork' \in Nat
      <3> DEFINE jobs == Cardinality(snap)
      <3>1. jobs \in Nat /\ jobs # 0
        BY <1>a, <2>2
      <3>2. PollerWork' = 1 + later + 9 * (jobs - 1) \/ PollerWork' = 0
        BY <2>3
      <3>3. PollerWork = 1 + later + 9 * jobs
        BY <2>4
      <3> HIDE DEF jobs, taken, Less, Same
      <3>4. QED
        BY <2>4, <3>1, <3>2, <3>3
    <2> DEFINE queued == 8 * Len(queue)
               queuedNext == 8 * Len(queue')
    <2>7. queued \in Nat /\ queuedNext \in Nat /\ queuedNext <= queued + 8
      BY <1>a, <2>5
    <2> HIDE DEF queued, queuedNext
    <2>8. PollerWork' + queuedNext < PollerWork + queued
      BY <2>6, <2>7, Exchange
    <2>9. QED
      BY <2>8 DEF queued, queuedNext
  <1>7. QED
    BY <1>c, <1>1, <1>2, <1>4, <1>5, <1>6 DEF Polling

(* So does each step of the dispatcher.                                    *)
LEMMA DispatcherWorkStep ==
  ASSUME Base, Dispatching
  PROVE  /\ DispatcherWork' + 8 * Len(queue') < DispatcherWork + 8 * Len(queue)
         /\ UNCHANGED <<poller, batch, snap, stop>>
  <1> DEFINE Less == DispatcherWork' + 8 * Len(queue') < DispatcherWork + 8 * Len(queue)
  <1>a. Len(queue) \in Nat
    BY WorkTypes
  <1>b. UNCHANGED <<poller, batch, snap, stop>>
    BY DEF Dispatching, Recv, RecvFails, BeginJob, RefuseJob, Watch, Join, LetGo, pollerVars
  <1>1. CASE Recv
    <2>1. queue \in Seq(Jobs) /\ queue # <<>>
      BY <1>1 DEF Recv, Base, TypeOK, DispatcherTypes
    <2>2. Len(queue') = Len(queue) - 1
      BY <1>1, <2>1, HeadTailProperties DEF Recv
    <2>3. DispatcherWork = 1 /\ DispatcherWork' = 8
      BY <1>1 DEF Recv, DispatcherWork, Over
    <2>4. Less
      BY <1>a, <2>2, <2>3
    <2>5. QED
      BY <1>b, <2>4
  <1>2. ASSUME queue' = queue \/ queue' = <<>>, NEW m \in Nat, NEW n \in Nat,
               DispatcherWork' = m, DispatcherWork = n, m < n
        PROVE  Less
    <2>1. Len(queue') \in Nat /\ Len(queue') <= Len(queue)
      BY <1>a, <1>2, EmptySeq
    <2>2. QED
      BY <1>a, <1>2, <2>1
  <1>3. CASE RecvFails
    <2>1. DispatcherWork' = 0 /\ DispatcherWork = 1 /\ queue' = queue
      BY <1>3 DEF RecvFails, DispatcherWork, Over
    <2>2. QED
      BY <1>2, <1>b, <2>1
  <1>4. CASE BeginJob \/ RefuseJob
    <2>1. DispatcherWork = 8 /\ DispatcherWork' \in {2, 7} /\ queue' = queue
      BY <1>4 DEF BeginJob, RefuseJob, DispatcherWork, Over
    <2>2. QED
      BY <1>2, <1>b, <2>1
  <1>5. CASE Watch
    <2>1. DispatcherWork = 7 /\ DispatcherWork' \in {3, 4, 5} /\ queue' = queue
      BY <1>5 DEF Watch, DispatcherWork, Finished, Over
    <2>2. QED
      BY <1>2, <1>b, <2>1
  <1>6. ASSUME NEW n \in Nat, Unwind(n)
        PROVE  DispatcherWork' \in {0, 1} /\ (queue' = queue \/ queue' = <<>>)
    BY <1>6 DEF Unwind, DispatcherWork, Over
  <1>7. CASE Join
    <2>1. DispatcherWork = 3
      BY <1>7 DEF Join, DispatcherWork, Over
    <2>2. CASE Unwind(0)
      <3>1. DispatcherWork' \in {0, 1} /\ (queue' = queue \/ queue' = <<>>)
        BY <1>6, <2>2
      <3>2. QED
        BY <1>2, <1>b, <2>1, <3>1
    <2>3. CASE ~Unwind(0)
      <3>1. DispatcherWork' = 2 /\ queue' = queue
        BY <1>7, <2>3 DEF Join, DispatcherWork, Over
      <3>2. QED
        BY <1>2, <1>b, <2>1, <3>1
    <2>4. QED
      BY <2>2, <2>3
  <1>8. CASE LetGo
    <2>1. DispatcherWork = 2
      BY <1>8 DEF LetGo, DispatcherWork, Over
    <2>2. DispatcherWork' \in {0, 1} /\ (queue' = queue \/ queue' = <<>>)
      BY <1>6, <1>8 DEF LetGo, DispatcherWork, Over
    <2>3. QED
      BY <1>2, <1>b, <2>1, <2>2
  <1>9. QED
    BY <1>1, <1>3, <1>4, <1>5, <1>7, <1>8 DEF Dispatching

(* A callback makes no work, and one that is aborted uses some up.         *)
LEMMA CallbackWork ==
  ASSUME Base, Watched, Callback
  PROVE  /\ DispatcherWork' <= DispatcherWork /\ (aborted => DispatcherWork' < DispatcherWork)
         /\ DispatcherWork' \in Nat /\ DispatcherWork \in Nat
         /\ UNCHANGED <<queue, poller, batch, snap, stop>>
  <1> DEFINE Same == UNCHANGED <<queue, poller, batch, snap, stop, dispatcher, aborted>>
  <1>1. Same
    BY DEF Callback, Poll, Await, Return, Panic, Cancel, dispatcherVars, pollerVars
  <1>2. CASE dispatcher # "join"
    BY <1>1, <1>2 DEF DispatcherWork, Watched, Base, TypeOK, DispatcherTypes, Over
  <1>3. CASE dispatcher = "join"
    <2>1. aborted /\ DispatcherWork = (IF task = "pending" THEN 4 ELSE 5)
      BY <1>3 DEF Watched, Finished, Callback, Poll, Await, Return, Panic, Cancel, DispatcherWork,
         Over
    <2>2. CASE Poll \/ Await
      BY <1>1, <1>3, <2>1, <2>2 DEF Poll, Await, DispatcherWork, Finished, Over
    <2>3. CASE Return \/ Panic \/ Cancel
      BY <1>1, <1>3, <2>1, <2>3 DEF Return, Panic, Cancel, DispatcherWork, Finished, Over
    <2>4. QED
      BY <1>1, <2>2, <2>3 DEF Callback
  <1>4. QED
    BY <1>2, <1>3

(* The steps of the workers and of the callback, and all others.           *)
LEMMA BackgroundFrame ==
  [Next]_vars => \/ Polling \/ Dispatching \/ Callback
                 \/ UNCHANGED <<poller, batch, snap, queue, dispatcher, job, task, aborted>>
  BY PollerFrame, DispatcherFrame DEF Deliver, Polling, pollerVars, dispatcherVars, taskVars

LEMMA DispatcherWorkType == Base => DispatcherWork \in Nat
  BY DEF Base, TypeOK, DispatcherTypes, DispatcherWork, Over

LEMMA PollerWorkType ==
  ASSUME Base PROVE PollerWork \in Nat
  <1>1. /\ Cardinality(snap) \in Nat /\ SampleWork \in Nat /\ Len(batch) \in Nat
        /\ MaxTake \in Nat /\ (poller = "fanout" => Len(batch) # 0)
    BY WorkTypes
  <1>2. poller \in {"wait", "take", "batch", "fanout"} \cup Over
    BY DEF Base, TypeOK, PollerTypes
  <1>3. MaxTake * SampleWork \in Nat /\ Len(batch) * SampleWork \in Nat
    BY <1>1
  <1>4. poller = "fanout" => (Len(batch) - 1) * SampleWork \in Nat
    BY <1>1, OneSampleMore
  <1>5. QED
    BY SMTT(30), <1>1, <1>2, <1>3, <1>4 DEF PollerWork, Over

WorkTyped == PollerWork \in Nat /\ DispatcherWork \in Nat /\ Len(queue) \in Nat

LEMMA WorkCounts == IInv => WorkTyped
  BY PollerWorkType, DispatcherWorkType, WorkTypes DEF WorkTyped, IInv

(* Every step after the stop flag is set.                                  *)
LEMMA WorkStep ==
  ASSUME Base, Base', DropOrder, Watched, WorkTyped, WorkTyped', stop, [Next]_vars
  PROVE  /\ WorkLeft' <= WorkLeft
         /\ Polling \/ Dispatching \/ (aborted /\ Callback) => WorkLeft' < WorkLeft
  <1>1. /\ PollerWork \in Nat /\ PollerWork' \in Nat
        /\ DispatcherWork \in Nat /\ DispatcherWork' \in Nat
        /\ Len(queue) \in Nat /\ Len(queue') \in Nat
    BY DEF WorkTyped
  <1>2. entries' \subseteq entries
    BY CallersGone
  <1>3. ASSUME UNCHANGED <<poller, batch, snap>> PROVE PollerWork' <= PollerWork
    BY <1>2, <1>3, FewerEntries
  <1>4. CASE Polling
    <2>1. PollerWork' + 8 * Len(queue') < PollerWork + 8 * Len(queue)
          /\ UNCHANGED <<dispatcher, task>>
      BY <1>4, PollerWorkStep
    <2>2. DispatcherWork' = DispatcherWork
      BY <2>1 DEF DispatcherWork, Finished
    <2>3. QED
      BY <1>1, <2>1, <2>2 DEF WorkLeft
  <1>5. CASE Dispatching
    <2>1. DispatcherWork' + 8 * Len(queue') < DispatcherWork + 8 * Len(queue)
          /\ UNCHANGED <<poller, batch, snap>>
      BY <1>5, DispatcherWorkStep
    <2>2. QED
      BY <1>1, <1>3, <2>1 DEF WorkLeft
  <1>6. CASE Callback /\ ~Polling /\ ~Dispatching
    <2>1. /\ DispatcherWork' <= DispatcherWork /\ (aborted => DispatcherWork' < DispatcherWork)
          /\ UNCHANGED <<queue, poller, batch, snap>>
      BY <1>6, CallbackWork
    <2>2. 8 * Len(queue') = 8 * Len(queue)
      BY <2>1
    <2>3. QED
      BY <1>1, <1>3, <1>6, <2>1, <2>2 DEF WorkLeft
  <1>7. CASE ~Polling /\ ~Dispatching /\ ~Callback
    <2>1. UNCHANGED <<poller, batch, snap, queue, dispatcher, task>>
      BY <1>7, BackgroundFrame
    <2>2. DispatcherWork' = DispatcherWork /\ 8 * Len(queue') = 8 * Len(queue)
      BY <2>1 DEF DispatcherWork, Finished
    <2>3. QED
      BY <1>1, <1>3, <1>7, <2>1, <2>2 DEF WorkLeft
  <1>8. QED
    BY <1>4, <1>5, <1>6, <1>7

(* The dispatcher's wait is part of what holds of every behaviour.         *)
LEMMA WatchedAlways == Spec => []Watched
  <1>1. Init => Watched
    BY DEF Init, Watched
  <1>2. IInv /\ Watched /\ [Next]_vars => Watched'
    BY WatchedStep DEF IInv
  <1>3. QED
    BY <1>1, <1>2, Invariance, PTL DEF Spec

(* deactivate_all, the joins of Drop and run_callback: none of them ever    *)
(* waits for something that has no step to make.                           *)
THEOREM DropProceeds == Spec => []DropGetsOn
  BY GettingOn, WatchedAlways, Invariance, PTL

(* Drop after stop.set(): whatever arrives, is called or is still queued,  *)
(* the work before the exit of the two threads has a bound and shrinks.    *)
THEOREM BackgroundWindsDown == Spec => WindsDown
  <1>1. IInv /\ IInv' /\ Watched /\ WorkTyped /\ WorkTyped' /\ [Next]_vars =>
          [stop => /\ WorkLeft' <= WorkLeft
                   /\ Polling \/ Dispatching \/ (aborted /\ Callback) => WorkLeft' < WorkLeft]_vars
    BY WorkStep DEF IInv
  <1>2. QED
    BY <1>1, WorkCounts, WatchedAlways, Invariance, PTL DEF Spec, WindsDown

=============================================================================
