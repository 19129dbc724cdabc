-------------------------- MODULE LifecycleProofs ---------------------------
(***************************************************************************)
(* Safety of construction, wait and drop, for any number of transports and *)
(* peers and without a bound on time.  How far a transport has got decides *)
(* what exists (Progress) and what has been counted (Counted); a wait that *)
(* has once seen too few readers keeps that in mind (Remembered), and with *)
(* sleeps that end by its deadline (Timed) it has ever fewer steps left.   *)
(***************************************************************************)
EXTENDS Lifecycle, FiniteSetTheorems, TLAPS

(* Stages at which the participant, the writer and the reader must exist.  *)
WithReader == {"dispatcher", "poller", "alive", "joinPoller", "joinDispatcher",
               "deleteEntities"}
WithWriter == WithReader \cup {"subscriber", "reader"}
WithParticipant == WithWriter \cup {"topic", "publisher", "writer"}

Progress ==
  \A i \in Transports :
    /\ entities[i] # {} => i \in participants
    /\ at[i] \in WithParticipant => i \in participants
    /\ at[i] \in WithWriter => "writer" \in entities[i]
    /\ at[i] \in WithReader => "reader" \in entities[i]
    /\ poller[i] = "running" => at[i] \in {"alive", "joinPoller"}
    /\ at[i] \in {"deleteEntities", "deleteParticipant", "dropped"} =>
         dispatcher[i] # "running"
    /\ waiter[i].pc \in Waiting => at[i] = "alive"

Died(worker, i) == IF worker[i] = "panicked" THEN 1 ELSE 0

(* A worker is counted when it has been joined.                            *)
Counted ==
  \A i \in Transports :
    /\ at[i] \in Building \cup {"none", "failed", "alive", "joinPoller"} => panics[i] = 0
    /\ at[i] = "joinDispatcher" => panics[i] = Died(poller, i)
    /\ at[i] \in {"deleteEntities", "deleteParticipant", "dropped"} =>
         panics[i] = Died(poller, i) + Died(dispatcher, i)
    /\ at[i] \notin {"deleteParticipant", "dropped"} => teardown[i] = 0
    /\ at[i] = "deleteParticipant" =>
         teardown[i] \in 0..1 /\ (teardown[i] = 0 => entities[i] = {})

Remembered ==
  \A i \in Transports :
    /\ IsFiniteSet(matched[i])
    /\ waiter[i].pc \in Waiting /\ ~Enough(i, matched[i]) => waiter[i].short
    /\ waiter[i].pc \in {"test", "sleep", "timeout"} => waiter[i].short

IInv == TypeOK /\ Progress /\ Counted /\ LeftoversReported /\ Remembered
-----------------------------------------------------------------------------
LEMMA BuildingStages ==
  Building = {"validate", "participant", "topic", "publisher", "writer", "subscriber",
              "reader", "dispatcher", "poller"}
  BY DEF Building, Following

LEMMA InitInv == Init => IInv
  <1> SUFFICES ASSUME Init PROVE IInv
    OBVIOUS
  <1>1. TypeOK
    BY DEF Init, TypeOK, Idle, Stages, ThreadStates
  <1>2. Progress
    BY DEF Init, Progress, Idle, Waiting, WithParticipant, WithWriter, WithReader
  <1>3. Counted /\ LeftoversReported
    BY DEF Init, Counted, LeftoversReported
  <1>4. Remembered
    BY FS_EmptySet DEF Init, Remembered, Idle, Waiting
  <1>5. QED
    BY <1>1, <1>2, <1>3, <1>4 DEF IInv

WaitRecord ==
  [pc : Waiting \cup {"idle", "ready", "timeout", "error"}, required : Nat,
   deadline : Nat, wake : Nat, short : BOOLEAN]

LEMMA Sleeper ==
  ASSUME NEW w \in WaitRecord, NEW to \in {"timeout", "sleep"}, NEW n \in Nat
  PROVE  [w EXCEPT !.pc = to, !.wake = n] \in WaitRecord
  <1> DEFINE x == [w EXCEPT !.pc = to]
  <1>1. x \in WaitRecord
    BY DEF WaitRecord, Waiting
  <1>2. [w EXCEPT !.pc = to, !.wake = n] = [x EXCEPT !.wake = n]
    OBVIOUS
  <1> HIDE DEF x
  <1>3. QED
    BY <1>1, <1>2 DEF WaitRecord

LEMMA WaitMoves ==
  ASSUME TypeOK, NEW i \in Transports, NEW w \in WaitRecord,
         waiter' = [waiter EXCEPT ![i] = w],
         UNCHANGED lifeVars, UNCHANGED clock,
         matched' \in [Transports -> SUBSET (Transports \cup Peers)]
  PROVE  TypeOK'
  BY DEF TypeOK, lifeVars, WaitRecord

LEMMA TypeStep == TypeOK /\ Counted /\ [Next]_vars => TypeOK'
  <1> SUFFICES ASSUME TypeOK, Counted, [Next]_vars PROVE TypeOK'
    OBVIOUS
  <1> USE DEF TypeOK, Stages, Go
  <1>1. ASSUME NEW i \in Transports, Construct(i) PROVE TypeOK'
    BY <1>1 DEF Construct, Building, Following, waitVars
  <1>2. ASSUME NEW i \in Transports, Build(i) PROVE TypeOK'
    BY <1>2 DEF Build, Building, Following, Entities, ThreadStates, waitVars
  <1>3. ASSUME NEW i \in Transports, Fail(i) PROVE TypeOK'
    BY <1>3 DEF Fail, Over, waitVars
  <1>4. ASSUME NEW i \in Transports, Workers(i) PROVE TypeOK'
    BY <1>4 DEF Workers, PollerExits, DispatcherExits, PollerPanics, DispatcherPanics,
                ThreadStates, waitVars
  <1>5. ASSUME NEW i \in Transports, NEW on \in {"application", "poller", "dispatcher"},
               Drop(i, on)
        PROVE  TypeOK'
    BY <1>5 DEF Drop, Dropping, waitVars
  <1>6. ASSUME NEW i \in Transports, JoinPoller(i) PROVE TypeOK'
    BY <1>6 DEF JoinPoller, Join, Dropping, Counted, waitVars
  <1>7. ASSUME NEW i \in Transports, JoinDispatcher(i) PROVE TypeOK'
    BY <1>7 DEF JoinDispatcher, Join, Dropping, Counted, Died, waitVars
  <1>8. ASSUME NEW i \in Transports, DeleteEntities(i) PROVE TypeOK'
    BY SMTT(30), <1>8 DEF DeleteEntities, TeardownFails, Dropping, Counted, waitVars
  <1>9. ASSUME NEW i \in Transports, DeleteParticipant(i) PROVE TypeOK'
    BY SMTT(30), <1>9 DEF DeleteParticipant, TeardownFails, Over, Counted, waitVars
  <1>10. ASSUME NEW i \in Transports, JoinSelf(i) PROVE TypeOK'
    BY <1>10 DEF JoinSelf, Over, ThreadStates, waitVars
  <1>11. ASSUME NEW i \in Transports, NEW j \in Transports \cup Peers,
                Match(i, j) \/ Unmatch(i, j)
         PROVE  TypeOK'
    <2>1. CASE Match(i, j)
      BY <1>11, <2>1 DEF Match, lifeVars, waitVars
    <2>2. CASE Unmatch(i, j)
      <3> DEFINE short == waiter[i].short \/ ~Enough(i, matched[i] \ {j})
      <3>1. short \in BOOLEAN
        OBVIOUS
      <3>2. waiter' = [waiter EXCEPT ![i] = [waiter[i] EXCEPT !.short = short]]
        BY <2>2 DEF Unmatch
      <3> HIDE DEF short
      <3>3. [waiter[i] EXCEPT !.short = short] \in WaitRecord
        BY SMTT(30), <3>1 DEF WaitRecord
      <3>4. matched' \in [Transports -> SUBSET (Transports \cup Peers)]
        BY <2>2 DEF Unmatch
      <3>5. QED
        BY <2>2, <3>2, <3>3, <3>4, WaitMoves DEF Unmatch
    <2>3. QED
      BY <1>11, <2>1, <2>2
  <1>12. ASSUME NEW i \in Transports, NEW n \in Required, NEW timeout \in Timeouts,
                WaitReady(i, n, timeout)
         PROVE  TypeOK'
    BY <1>12, BoundsAssumption DEF WaitReady, Waiting, lifeVars
  <1>13. ASSUME NEW i \in Transports, Wait(i) PROVE TypeOK'
    <2>1. UNCHANGED lifeVars /\ UNCHANGED matched /\ UNCHANGED clock
      BY <1>13 DEF Wait, ReadCount, TestDeadline, Wake
    <2>2. \E w \in WaitRecord : waiter' = [waiter EXCEPT ![i] = w]
      <3>0. waiter[i] \in WaitRecord
        BY DEF WaitRecord
      <3>1. CASE Wake(i)
        <4>1. [waiter[i] EXCEPT !.pc = "read"] \in WaitRecord
          BY <3>0 DEF WaitRecord, Waiting
        <4>2. QED
          BY <3>1, <4>1 DEF Wake
      <3>2. CASE ReadCount(i)
        <4>1. \A to \in {"ready", "test", "error"} :
                [waiter[i] EXCEPT !.pc = to] \in WaitRecord
          BY <3>0 DEF WaitRecord, Waiting
        <4>2. QED
          BY <3>2, <4>1 DEF ReadCount
      <3>3. CASE TestDeadline(i)
        <4> DEFINE to == IF clock >= waiter[i].deadline THEN "timeout" ELSE "sleep"
        <4>1. to \in {"timeout", "sleep"}
          OBVIOUS
        <4>2. waiter' = [waiter EXCEPT ![i] =
                           [waiter[i] EXCEPT !.pc = to, !.wake = clock + 1]]
          BY <3>3 DEF TestDeadline
        <4> HIDE DEF to
        <4>3. clock + 1 \in Nat
          OBVIOUS
        <4>4. [waiter[i] EXCEPT !.pc = to, !.wake = clock + 1] \in WaitRecord
          BY <3>0, <4>1, <4>3, Sleeper, Zenon
        <4>5. QED
          BY <4>2, <4>4
      <3>4. QED
        BY <1>13, <3>1, <3>2, <3>3 DEF Wait
    <2>3. QED
      BY <2>1, <2>2, WaitMoves
  <1>14. CASE Tick
    BY <1>14 DEF Tick, lifeVars
  <1>15. CASE Done \/ UNCHANGED vars
    BY <1>15 DEF Done, vars, lifeVars, waitVars
  <1>16. QED
    BY <1>1, <1>2, <1>3, <1>4, <1>5, <1>6, <1>7, <1>8, <1>9, <1>10, <1>11, <1>12,
       <1>13, <1>14, <1>15 DEF Next, Teardown

LEMMA ProgressStep == TypeOK /\ Progress /\ [Next]_vars => Progress'
  <1> SUFFICES ASSUME TypeOK, Progress, [Next]_vars PROVE Progress'
    OBVIOUS
  <1> USE DEF TypeOK, Progress, WithParticipant, WithWriter, WithReader, Go, Waiting
  <1>1. ASSUME NEW i \in Transports, Construct(i) PROVE Progress'
    BY <1>1 DEF Construct, waitVars
  <1>2. ASSUME NEW i \in Transports, Build(i) PROVE Progress'
    <2>1. /\ at[i] \in Building /\ at' = [at EXCEPT ![i] = Following[at[i]]]
          /\ participants \subseteq participants' /\ entities[i] \subseteq entities'[i]
      BY <1>2 DEF Build
    <2>2. at'[i] \in WithParticipant => i \in participants'
      <3>1. CASE at[i] = "participant"
        BY <1>2, <3>1 DEF Build
      <3>2. CASE at[i] # "participant"
        BY <2>1, <3>2, BuildingStages DEF Following
      <3>3. QED
        BY <3>1, <3>2
    <2>3. at'[i] \in WithWriter => "writer" \in entities'[i]
      <3>1. CASE at[i] = "writer"
        BY <1>2, <3>1 DEF Build, Entities
      <3>2. CASE at[i] # "writer"
        BY <2>1, <3>2, BuildingStages DEF Following
      <3>3. QED
        BY <3>1, <3>2
    <2>4. at'[i] \in WithReader => "reader" \in entities'[i]
      <3>1. CASE at[i] = "reader"
        BY <1>2, <3>1 DEF Build, Entities
      <3>2. CASE at[i] # "reader"
        BY <2>1, <3>2, BuildingStages DEF Following
      <3>3. QED
        BY <3>1, <3>2
    <2>5. entities'[i] # {} => i \in participants'
      <3>1. CASE at[i] \in WithParticipant
        BY <2>1, <3>1
      <3>2. CASE at[i] \in {"validate", "participant"}
        BY <1>2, <3>2 DEF Build, Entities
      <3>3. QED
        BY <2>1, <3>1, <3>2, BuildingStages
    <2>6. poller'[i] = "running" => at'[i] \in {"alive", "joinPoller"}
      <3>1. CASE at[i] = "poller"
        BY <1>2, <3>1 DEF Build, Following
      <3>2. CASE at[i] # "poller"
        BY <1>2, <3>2, BuildingStages DEF Build
      <3>3. QED
        BY <3>1, <3>2
    <2>7. /\ at'[i] \in {"alive"} \cup Building
          /\ waiter[i].pc \notin Waiting
      BY <2>1, BuildingStages DEF Following
    <2>8. ASSUME NEW k \in Transports \ {i}
          PROVE  /\ UNCHANGED <<at[k], entities[k], poller[k], dispatcher[k]>>
                 /\ k \in participants => k \in participants'
      BY <1>2 DEF Build
    <2>9. UNCHANGED waiter
      BY <1>2 DEF Build, waitVars
    <2>10. QED
      BY <2>2, <2>3, <2>4, <2>5, <2>6, <2>7, <2>8, <2>9, BuildingStages
  <1>3. ASSUME NEW i \in Transports, Fail(i) PROVE Progress'
    BY <1>3, BuildingStages DEF Fail, waitVars
  <1>4. ASSUME NEW i \in Transports, Workers(i) PROVE Progress'
    BY <1>4 DEF Workers, PollerExits, DispatcherExits, PollerPanics, DispatcherPanics,
                waitVars
  <1>5. ASSUME NEW i \in Transports, NEW on \in {"application", "poller", "dispatcher"},
               Drop(i, on)
        PROVE  Progress'
    BY <1>5 DEF Drop, waitVars
  <1>6. ASSUME NEW i \in Transports, JoinPoller(i) \/ JoinDispatcher(i) PROVE Progress'
    BY <1>6 DEF JoinPoller, JoinDispatcher, Join, waitVars
  <1>7. ASSUME NEW i \in Transports, DeleteEntities(i) PROVE Progress'
    BY <1>7 DEF DeleteEntities, waitVars
  <1>8. ASSUME NEW i \in Transports, DeleteParticipant(i) PROVE Progress'
    BY <1>8 DEF DeleteParticipant, waitVars
  <1>9. ASSUME NEW i \in Transports, JoinSelf(i) PROVE Progress'
    BY <1>9 DEF JoinSelf, waitVars
  <1>10. ASSUME NEW i \in Transports, NEW j \in Transports \cup Peers,
                Match(i, j) \/ Unmatch(i, j)
         PROVE  Progress'
    <2>1. \A k \in Transports : waiter'[k].pc = waiter[k].pc
      BY SMTT(30), <1>10 DEF Match, Unmatch, waitVars
    <2>2. UNCHANGED lifeVars
      BY <1>10 DEF Match, Unmatch
    <2>3. QED
      BY <2>1, <2>2 DEF lifeVars
  <1>11. ASSUME NEW i \in Transports, NEW n \in Required, NEW timeout \in Timeouts,
                WaitReady(i, n, timeout)
         PROVE  Progress'
    BY <1>11 DEF WaitReady, lifeVars
  <1>12. ASSUME NEW i \in Transports, Wait(i) PROVE Progress'
    <2>1. waiter[i].pc \in Waiting /\ \A k \in Transports \ {i} : waiter'[k] = waiter[k]
      BY <1>12 DEF Wait, ReadCount, TestDeadline, Wake
    <2>2. UNCHANGED lifeVars
      BY <1>12 DEF Wait, ReadCount, TestDeadline, Wake
    <2>3. QED
      BY <2>1, <2>2 DEF lifeVars
  <1>13. CASE Tick \/ Done \/ UNCHANGED vars
    BY <1>13 DEF Tick, Done, vars, lifeVars, waitVars
  <1> HIDE DEF TypeOK, Progress
  <1>14. ASSUME NEW i \in Transports, Teardown(i) PROVE Progress'
    BY <1>6, <1>7, <1>8, <1>14 DEF Teardown
  <1>15. QED
    BY <1>1, <1>2, <1>3, <1>4, <1>5, <1>9, <1>10, <1>11, <1>12, <1>13, <1>14 DEF Next

(* What Counted and LeftoversReported speak of.                            *)
tearVars == <<at, participants, entities, poller, dispatcher, panics, teardown>>

LEMMA CountedStep ==
  TypeOK /\ Progress /\ Counted /\ LeftoversReported /\ [Next]_vars
    => Counted' /\ LeftoversReported'
  <1> DEFINE P == Counted /\ LeftoversReported
  <1> SUFFICES ASSUME TypeOK, Progress, P, [Next]_vars PROVE P'
    OBVIOUS
  <1> USE DEF TypeOK, Counted, LeftoversReported, Died, Go
  <1>1. ASSUME NEW i \in Transports, Construct(i) \/ Fail(i) PROVE P'
    BY <1>1, BuildingStages DEF Construct, Fail
  <1>2. ASSUME NEW i \in Transports, Build(i) PROVE P'
    <2>1. at[i] \in Building /\ at'[i] \in Building \cup {"alive"}
      BY <1>2, BuildingStages DEF Build, Following
    <2>2. /\ panics' = panics /\ teardown' = teardown
          /\ \A k \in Transports \ {i} :
               /\ UNCHANGED <<at[k], entities[k], poller[k], dispatcher[k]>>
               /\ k \in participants' => k \in participants
      BY <1>2 DEF Build
    <2>3. QED
      BY SMTT(30), <2>1, <2>2, BuildingStages
  <1>3. ASSUME NEW i \in Transports, Workers(i) PROVE P'
    <2>1. CASE PollerExits(i) \/ PollerPanics(i)
      BY <1>3, <2>1, BuildingStages DEF PollerExits, PollerPanics, Progress
    <2>2. CASE DispatcherExits(i) \/ DispatcherPanics(i)
      BY <1>3, <2>2, BuildingStages DEF DispatcherExits, DispatcherPanics, Progress
    <2>3. QED
      BY <1>3, <2>1, <2>2 DEF Workers
  <1>4. ASSUME NEW i \in Transports, NEW on \in {"application", "poller", "dispatcher"},
               Drop(i, on)
        PROVE  P'
    BY <1>4, BuildingStages DEF Drop
  <1>5. ASSUME NEW i \in Transports, JoinPoller(i) PROVE P'
    BY <1>5, BuildingStages DEF JoinPoller, Join, Progress
  <1>6. ASSUME NEW i \in Transports, JoinDispatcher(i) PROVE P'
    BY <1>6, BuildingStages DEF JoinDispatcher, Join, Progress
  <1>7. ASSUME NEW i \in Transports, DeleteEntities(i) PROVE P'
    BY <1>7, BuildingStages DEF DeleteEntities, TeardownFails, Progress
  <1>8. ASSUME NEW i \in Transports, DeleteParticipant(i) PROVE P'
    BY <1>8, BuildingStages DEF DeleteParticipant, TeardownFails, Progress
  <1>9. ASSUME NEW i \in Transports, JoinSelf(i) PROVE P'
    BY <1>9, BuildingStages DEF JoinSelf, Progress
  <1>10. CASE UNCHANGED tearVars
    BY <1>10 DEF tearVars
  <1>11. ASSUME NEW i \in Transports, NEW j \in Transports \cup Peers,
                Match(i, j) \/ Unmatch(i, j)
         PROVE  UNCHANGED tearVars
    BY <1>11 DEF Match, Unmatch, lifeVars, tearVars
  <1>12. ASSUME NEW i \in Transports, NEW n \in Required, NEW timeout \in Timeouts,
                WaitReady(i, n, timeout)
         PROVE  UNCHANGED tearVars
    BY <1>12 DEF WaitReady, lifeVars, tearVars
  <1>13. ASSUME NEW i \in Transports, Wait(i) PROVE UNCHANGED tearVars
    BY <1>13 DEF Wait, ReadCount, TestDeadline, Wake, lifeVars, tearVars
  <1>14. CASE Tick \/ Done \/ UNCHANGED vars
    BY <1>10, <1>14 DEF Tick, Done, vars, lifeVars, waitVars, tearVars
  <1> HIDE DEF P
  <1>15. QED
    BY <1>1, <1>2, <1>3, <1>4, <1>5, <1>6, <1>7, <1>8, <1>9, <1>10, <1>11, <1>12,
       <1>13, <1>14 DEF Next, Teardown

(* More readers are never too few where fewer are enough.                  *)
LEMMA MoreIsEnough ==
  ASSUME TypeOK, NEW i \in Transports, NEW S, NEW T, IsFiniteSet(T), S \subseteq T, Enough(i, S)
  PROVE  Enough(i, T)
  <1>1. Cardinality(S) \in Nat /\ Cardinality(T) \in Nat /\ Cardinality(S) <= Cardinality(T)
    BY FS_Subset, FS_CardinalityType
  <1>2. waiter[i].required \in Nat
    BY DEF TypeOK
  <1>3. QED
    BY <1>1, <1>2 DEF Enough

LEMMA RememberedStep == TypeOK /\ Remembered /\ [Next]_vars => Remembered'
  <1> SUFFICES ASSUME TypeOK, Remembered, [Next]_vars PROVE Remembered'
    OBVIOUS
  <1> USE DEF Remembered, Waiting
  <1>1. CASE UNCHANGED <<matched, waiter>>
    BY <1>1 DEF Enough
  <1>2. ASSUME NEW i \in Transports, NEW j \in Transports \cup Peers, Match(i, j)
        PROVE  Remembered'
    <2>1. IsFiniteSet(matched[i] \cup {j})
      BY FS_AddElement
    <2>2. Enough(i, matched[i]) => Enough(i, matched[i] \cup {j})
      BY <2>1, MoreIsEnough
    <2>3. matched' = [matched EXCEPT ![i] = matched[i] \cup {j}] /\ UNCHANGED waiter
      BY <1>2 DEF Match, waitVars
    <2>4. QED
      BY <2>1, <2>2, <2>3 DEF TypeOK, Enough
  <1>3. ASSUME NEW i \in Transports, NEW j \in Transports \cup Peers, Unmatch(i, j)
        PROVE  Remembered'
    <2>1. IsFiniteSet(matched[i] \ {j})
      BY FS_RemoveElement
    <2>2. /\ matched' = [matched EXCEPT ![i] = matched[i] \ {j}]
          /\ waiter'[i].short = (waiter[i].short \/ ~Enough(i, matched[i] \ {j}))
          /\ waiter'[i].pc = waiter[i].pc /\ waiter'[i].required = waiter[i].required
          /\ \A k \in Transports \ {i} : waiter'[k] = waiter[k]
      BY <1>3 DEF Unmatch, TypeOK
    <2>3. QED
      BY <2>1, <2>2 DEF TypeOK, Enough
  <1>4. ASSUME NEW i \in Transports, NEW n \in Required, NEW timeout \in Timeouts,
               WaitReady(i, n, timeout)
        PROVE  Remembered'
    <2>1. /\ UNCHANGED matched
          /\ waiter'[i].pc \in {"ready", "read"} /\ waiter'[i].required = n
          /\ waiter'[i].short = (Cardinality(matched[i]) < n)
          /\ \A k \in Transports \ {i} : waiter'[k] = waiter[k]
      BY <1>4 DEF WaitReady, TypeOK
    <2>2. n \in Nat /\ Cardinality(matched[i]) \in Nat
      BY BoundsAssumption, FS_CardinalityType
    <2>3. ~Enough(i, matched[i])' => waiter'[i].short
      <3>1. Enough(i, matched[i])' <=> Cardinality(matched[i]) >= n
        BY <2>1 DEF Enough
      <3>2. ~(Cardinality(matched[i]) >= n) => Cardinality(matched[i]) < n
        BY <2>2
      <3>3. QED
        BY <2>1, <3>1, <3>2, Zenon
    <2>4. \A k \in Transports \ {i} : Enough(k, matched[k])' <=> Enough(k, matched[k])
      BY <2>1 DEF Enough
    <2>5. QED
      BY <2>1, <2>3, <2>4
  <1>5. ASSUME NEW i \in Transports, Wait(i) PROVE Remembered'
    <2>1. /\ UNCHANGED matched
          /\ waiter'[i].required = waiter[i].required /\ waiter'[i].short = waiter[i].short
          /\ \A k \in Transports \ {i} : waiter'[k] = waiter[k]
      <3>1. CASE ReadCount(i)
        BY <3>1 DEF ReadCount, TypeOK
      <3>2. CASE TestDeadline(i)
        BY <3>2 DEF TestDeadline, TypeOK
      <3>3. CASE Wake(i)
        BY <3>3 DEF Wake, TypeOK
      <3>4. QED
        BY <1>5, <3>1, <3>2, <3>3 DEF Wait
    <2>2. \/ waiter[i].pc \in {"test", "sleep"}
          \/ waiter[i].pc = "read" /\ ~Enough(i, matched[i])
          \/ waiter'[i].pc \in {"ready", "error"}
      <3>1. CASE ReadCount(i)
        <4>1. CASE Enough(i, matched[i])
          BY <3>1, <4>1 DEF ReadCount, TypeOK
        <4>2. CASE ~Enough(i, matched[i])
          BY <3>1, <4>2 DEF ReadCount
        <4>3. QED
          BY <4>1, <4>2
      <3>2. CASE TestDeadline(i) \/ Wake(i)
        BY <3>2 DEF TestDeadline, Wake
      <3>3. QED
        BY <1>5, <3>1, <3>2 DEF Wait
    <2>3. waiter'[i].pc \in {"ready", "error"} \/ waiter[i].short
      BY <2>2
    <2>4. \A k \in Transports : Enough(k, matched[k])' <=> Enough(k, matched[k])
      BY <2>1 DEF Enough
    <2>5. QED
      BY <2>1, <2>3, <2>4
  <1>6. ASSUME NEW i \in Transports,
               \/ Construct(i) \/ Build(i) \/ Fail(i) \/ Workers(i) \/ Teardown(i) \/ JoinSelf(i)
               \/ \E on \in {"application", "poller", "dispatcher"} : Drop(i, on)
        PROVE  UNCHANGED <<matched, waiter>>
    BY <1>6 DEF Construct, Build, Fail, Workers, PollerExits, DispatcherExits, PollerPanics,
       DispatcherPanics, Teardown, JoinPoller, JoinDispatcher, Join, DeleteEntities,
       DeleteParticipant, JoinSelf, Drop, waitVars
  <1>7. CASE Tick \/ Done \/ UNCHANGED vars
    BY <1>1, <1>7 DEF Tick, Done, vars, waitVars
  <1> HIDE DEF Remembered
  <1>8. QED
    BY <1>1, <1>2, <1>3, <1>4, <1>5, <1>6, <1>7 DEF Next
-----------------------------------------------------------------------------
(* The inductive invariant, and what follows from it.                      *)
THEOREM Inductive == Spec => []IInv
  <1>1. IInv /\ [Next]_vars => IInv'
    BY TypeStep, ProgressStep, CountedStep, RememberedStep DEF IInv
  <1>2. QED
    BY InitInv, <1>1, PTL DEF Spec

(* Every variable keeps its type, the two counters their bound of two.     *)
THEOREM TypesKept == Spec => []TypeOK
  <1>1. IInv => TypeOK
    BY DEF IInv
  <1>2. QED
    BY Inductive, <1>1, PTL

(* The thread and the caller of a transport use what exists: with_config   *)
(* starts the poller last, and no teardown begins under either of them.    *)
THEOREM UsedExist == Spec => []UsedEntitiesExist
  <1>1. IInv => UsedEntitiesExist
    BY DEF IInv, Progress, UsedEntitiesExist, WithReader, WithWriter
  <1>2. QED
    BY Inductive, <1>1, PTL

(* What a drop leaves with the factory is in teardown_errors.              *)
THEOREM LeftoversCounted == Spec => []LeftoversReported
  <1>1. IInv => LeftoversReported
    BY DEF IInv
  <1>2. QED
    BY Inductive, <1>1, PTL

(* A worker thread that panicked is counted once, by the join of the drop. *)
THEOREM DeathsCounted == Spec => []DeadWorkersReported
  <1>1. IInv => DeadWorkersReported
    <2> SUFFICES ASSUME IInv, NEW i \in Transports, at[i] = "dropped"
                 PROVE  panics[i] = Cardinality(
                          {w \in {<<"poller", poller[i]>>, <<"dispatcher", dispatcher[i]>>} :
                             w[2] = "panicked"})
      BY DEF DeadWorkersReported
    <2> DEFINE P == <<"poller", poller[i]>>
               D == <<"dispatcher", dispatcher[i]>>
               dead == {w \in {P, D} : w[2] = "panicked"}
    <2>1. panics[i] = Died(poller, i) + Died(dispatcher, i)
      BY DEF IInv, Counted
    <2>2. Cardinality({}) = 0 /\ Cardinality({P}) = 1 /\ Cardinality({D}) = 1
      BY FS_EmptySet, FS_Singleton
    <2>3. Cardinality({P, D}) = 2
      <3>1. D \notin {P} /\ {P, D} = {P} \cup {D}
        OBVIOUS
      <3> HIDE DEF P, D
      <3>2. IsFiniteSet({P})
        BY FS_Singleton
      <3>3. Cardinality({P} \cup {D}) = Cardinality({P}) + 1
        BY <3>1, <3>2, FS_AddElement
      <3>4. QED
        BY <2>2, <3>1, <3>3
    <2>4. dead = (IF poller[i] = "panicked" THEN {P} ELSE {})
                   \cup (IF dispatcher[i] = "panicked" THEN {D} ELSE {})
      OBVIOUS
    <2>5. {P} \cup {D} = {P, D} /\ {P} \cup {} = {P} /\ {} \cup {D} = {D} /\ {} \cup {} = {}
      OBVIOUS
    <2> HIDE DEF P, D, dead
    <2>6. Cardinality(dead) = Died(poller, i) + Died(dispatcher, i)
      BY <2>2, <2>3, <2>4, <2>5 DEF Died
    <2>7. QED
      BY <2>1, <2>6 DEF dead, P, D
  <1>2. QED
    BY Inductive, <1>1, PTL

(* wait_ready times out only where a reader was missing at some moment     *)
(* after the call, whatever its timeout and however readers come and go.   *)
THEOREM NoFalseTimeout == Spec => []ReadyNeverTimesOut
  <1>1. IInv => ReadyNeverTimesOut
    BY DEF IInv, Remembered, ReadyNeverTimesOut
  <1>2. QED
    BY Inductive, <1>1, PTL

(* No worker is left behind with nobody to end it: the entities go when    *)
(* both have ended, a poller does not outlast construction and drop, and a *)
(* dispatcher that does, or that is being joined, has no sender to wait    *)
(* for.                                                                    *)
NoThreadStranded ==
  \A i \in Transports :
    /\ at[i] \in {"deleteEntities", "deleteParticipant", "dropped"} =>
         "running" \notin {poller[i], dispatcher[i]}
    /\ at[i] \in Over => poller[i] # "running"
    /\ at[i] \in Over \cup {"joinDispatcher"} => ~SenderLives(i)

(* Drop, its joins and a with_config that fails half-way: no thread waits  *)
(* for one that nobody ends.                                               *)
THEOREM NobodyStranded == Spec => []NoThreadStranded
  <1>1. IInv => NoThreadStranded
    <2> SUFFICES ASSUME Progress, NEW i \in Transports
                 PROVE  /\ at[i] \in {"deleteEntities", "deleteParticipant", "dropped"} =>
                             "running" \notin {poller[i], dispatcher[i]}
                        /\ at[i] \in Over => poller[i] # "running"
                        /\ at[i] \in Over \cup {"joinDispatcher"} => ~SenderLives(i)
      BY DEF IInv, NoThreadStranded
    <2>1. poller[i] = "running" => at[i] \in {"alive", "joinPoller"}
      BY DEF Progress
    <2>2. at[i] \in {"deleteEntities", "deleteParticipant", "dropped"} =>
            dispatcher[i] # "running"
      BY DEF Progress
    <2>3. QED
      BY <2>1, <2>2 DEF Over, SenderLives
  <1>2. QED
    BY Inductive, <1>1, PTL
-----------------------------------------------------------------------------
(* A sleep never reaches past the deadline, and never lies in the future   *)
(* when it is over.                                                        *)
Timed ==
  \A i \in Transports :
    /\ waiter[i].pc \in {"read", "test"} => waiter[i].wake <= clock
    /\ waiter[i].pc = "sleep" => waiter[i].wake <= waiter[i].deadline

(* Who touches the waits, and how.                                         *)
LEMMA WaitFrame ==
  [Next]_vars =>
    \/ \E i \in Transports : Wait(i)
    \/ \E i \in Transports, n \in Required, timeout \in Timeouts : WaitReady(i, n, timeout)
    \/ \E i \in Transports, j \in Transports \cup Peers : Unmatch(i, j)
    \/ Tick
    \/ UNCHANGED waitVars
  <1> SUFFICES ASSUME [Next]_vars,
                      ~\E i \in Transports : Wait(i),
                      ~\E i \in Transports, n \in Required, timeout \in Timeouts :
                         WaitReady(i, n, timeout),
                      ~\E i \in Transports, j \in Transports \cup Peers : Unmatch(i, j),
                      ~Tick
               PROVE  UNCHANGED waitVars
    OBVIOUS
  <1>1. ASSUME NEW i \in Transports,
               \/ Construct(i) \/ Build(i) \/ Fail(i) \/ Workers(i) \/ Teardown(i) \/ JoinSelf(i)
               \/ \E on \in {"application", "poller", "dispatcher"} : Drop(i, on)
        PROVE  UNCHANGED waitVars
    BY <1>1 DEF Construct, Build, Fail, Workers, PollerExits, DispatcherExits, PollerPanics,
       DispatcherPanics, Teardown, JoinPoller, JoinDispatcher, Join, DeleteEntities,
       DeleteParticipant, JoinSelf, Drop
  <1>2. ASSUME NEW i \in Transports, NEW j \in Transports \cup Peers, Match(i, j)
        PROVE  UNCHANGED waitVars
    BY <1>2 DEF Match
  <1>3. Done \/ UNCHANGED vars => UNCHANGED waitVars
    BY DEF Done, vars
  <1>4. QED
    BY <1>1, <1>2, <1>3 DEF Next

(* What one step does to a wait that goes on.                              *)
LEMMA WaitStep ==
  ASSUME TypeOK, Timed, [Next]_vars, NEW i \in Transports, waiter[i].pc \in Waiting
  PROVE  \/ /\ Wait(i) /\ clock' = clock
            /\ \/ waiter'[i].pc \in {"ready", "error", "timeout"}
               \/ /\ waiter[i].pc = "read" /\ waiter'[i].pc = "test"
                  /\ waiter'[i].wake = waiter[i].wake
                  /\ waiter'[i].deadline = waiter[i].deadline
               \/ /\ waiter[i].pc = "test" /\ waiter'[i].pc = "sleep"
                  /\ clock < waiter[i].deadline
                  /\ waiter'[i].wake = clock + 1
                  /\ waiter'[i].deadline = waiter[i].deadline
               \/ /\ waiter[i].pc = "sleep" /\ waiter'[i].pc = "read"
                  /\ waiter[i].wake <= clock
                  /\ waiter'[i].wake = waiter[i].wake
                  /\ waiter'[i].deadline = waiter[i].deadline
         \/ /\ ~Wait(i) /\ clock' \in {clock, clock + 1}
            /\ waiter'[i].pc = waiter[i].pc /\ waiter'[i].wake = waiter[i].wake
            /\ waiter'[i].deadline = waiter[i].deadline
  <1> DEFINE Goal == \/ waiter'[i].pc \in {"ready", "error", "timeout"}
                     \/ /\ waiter[i].pc = "read" /\ waiter'[i].pc = "test"
                        /\ waiter'[i].wake = waiter[i].wake
                        /\ waiter'[i].deadline = waiter[i].deadline
                     \/ /\ waiter[i].pc = "test" /\ waiter'[i].pc = "sleep"
                        /\ clock < waiter[i].deadline
                        /\ waiter'[i].wake = clock + 1
                        /\ waiter'[i].deadline = waiter[i].deadline
                     \/ /\ waiter[i].pc = "sleep" /\ waiter'[i].pc = "read"
                        /\ waiter[i].wake <= clock
                        /\ waiter'[i].wake = waiter[i].wake
                        /\ waiter'[i].deadline = waiter[i].deadline
             Stays == /\ clock' \in {clock, clock + 1}
                      /\ waiter'[i].pc = waiter[i].pc /\ waiter'[i].wake = waiter[i].wake
                      /\ waiter'[i].deadline = waiter[i].deadline
  <1>0. /\ waiter[i].deadline \in Nat /\ waiter[i].wake \in Nat /\ clock \in Nat
        /\ waiter \in [Transports -> WaitRecord]
    BY DEF TypeOK, WaitRecord
  <1>1. CASE ReadCount(i)
    <2>1. waiter'[i].pc \in {"ready", "error"} \/
            /\ waiter[i].pc = "read" /\ waiter'[i].pc = "test"
            /\ waiter'[i].wake = waiter[i].wake
            /\ waiter'[i].deadline = waiter[i].deadline
      BY <1>0, <1>1 DEF ReadCount, WaitRecord
    <2>2. QED
      BY <1>1, <2>1 DEF Wait, ReadCount
  <1>2. CASE TestDeadline(i)
    <2>1. CASE clock >= waiter[i].deadline
      BY <1>0, <1>2, <2>1 DEF TestDeadline, Wait, WaitRecord
    <2>2. CASE ~(clock >= waiter[i].deadline)
      <3>1. clock < waiter[i].deadline
        BY <1>0, <2>2
      <3>2. /\ waiter[i].pc = "test" /\ waiter'[i].pc = "sleep"
            /\ waiter'[i].wake = clock + 1 /\ waiter'[i].deadline = waiter[i].deadline
        BY <1>0, <1>2, <2>2 DEF TestDeadline, WaitRecord
      <3>3. QED
        BY <1>2, <3>1, <3>2 DEF Wait, TestDeadline
    <2>3. QED
      BY <2>1, <2>2
  <1>3. CASE Wake(i)
    <2>1. /\ waiter[i].pc = "sleep" /\ waiter'[i].pc = "read" /\ waiter[i].wake <= clock
          /\ waiter'[i].wake = waiter[i].wake /\ waiter'[i].deadline = waiter[i].deadline
      BY <1>0, <1>3 DEF Wake, WaitRecord
    <2>2. QED
      BY <1>3, <2>1 DEF Wait, Wake
  <1>4. CASE ~Wait(i)
    <2>1. ASSUME NEW k \in Transports \ {i}, Wait(k) PROVE Stays
      BY <1>0, <2>1 DEF Wait, ReadCount, TestDeadline, Wake
    <2>2. ASSUME NEW k \in Transports, NEW n \in Required, NEW timeout \in Timeouts,
                 WaitReady(k, n, timeout)
          PROVE  Stays
      <3>1. k # i
        BY <2>2 DEF WaitReady
      <3>2. QED
        BY <1>0, <2>2, <3>1 DEF WaitReady
    <2>3. ASSUME NEW k \in Transports, NEW j \in Transports \cup Peers, Unmatch(k, j)
          PROVE  Stays
      BY <1>0, <2>3 DEF Unmatch, WaitRecord
    <2>4. Tick \/ UNCHANGED waitVars => Stays
      BY DEF Tick, waitVars
    <2>5. Stays
      BY <1>4, <2>1, <2>2, <2>3, <2>4, WaitFrame
    <2>6. QED
      BY <1>4, <2>5
  <1>5. QED
    BY <1>1, <1>2, <1>3, <1>4 DEF Wait

(* A wait that is not going on stays so, or begins now.                    *)
LEMMA WaitBegins ==
  ASSUME TypeOK, [Next]_vars, NEW i \in Transports, waiter[i].pc \notin Waiting
  PROVE  \/ waiter'[i].pc = "read" /\ waiter'[i].wake = clock /\ clock' = clock
         \/ waiter'[i].pc \notin Waiting
  <1> DEFINE Goal == \/ waiter'[i].pc = "read" /\ waiter'[i].wake = clock /\ clock' = clock
                     \/ waiter'[i].pc \notin Waiting
  <1>0. waiter \in [Transports -> WaitRecord]
    BY DEF TypeOK, WaitRecord
  <1>1. ASSUME NEW k \in Transports, Wait(k) PROVE Goal
    BY <1>0, <1>1 DEF Wait, ReadCount, TestDeadline, Wake, Waiting
  <1>2. ASSUME NEW k \in Transports, NEW n \in Required, NEW timeout \in Timeouts,
               WaitReady(k, n, timeout)
        PROVE  Goal
    BY <1>0, <1>2 DEF WaitReady, Waiting
  <1>3. ASSUME NEW k \in Transports, NEW j \in Transports \cup Peers, Unmatch(k, j)
        PROVE  Goal
    BY <1>0, <1>3 DEF Unmatch, WaitRecord
  <1>4. Tick \/ UNCHANGED waitVars => Goal
    BY DEF Tick, waitVars
  <1>5. QED
    BY <1>1, <1>2, <1>3, <1>4, WaitFrame

LEMMA TimedStep == TypeOK /\ TypeOK' /\ Timed /\ [Next]_vars => Timed'
  <1> SUFFICES ASSUME TypeOK, TypeOK', Timed, [Next]_vars, NEW i \in Transports
               PROVE  /\ waiter'[i].pc \in {"read", "test"} => waiter'[i].wake <= clock'
                      /\ waiter'[i].pc = "sleep" => waiter'[i].wake <= waiter'[i].deadline
    BY DEF Timed
  <1>1. /\ waiter[i].deadline \in Nat /\ waiter[i].wake \in Nat /\ clock \in Nat
        /\ waiter[i].pc \in {"read", "test"} => waiter[i].wake <= clock
        /\ waiter[i].pc = "sleep" => waiter[i].wake <= waiter[i].deadline
    BY DEF TypeOK, Timed
  <1>2. CASE waiter[i].pc \in Waiting
    BY <1>1, <1>2, WaitStep
  <1>3. CASE waiter[i].pc \notin Waiting
    BY <1>1, <1>3, WaitBegins DEF Waiting
  <1>4. QED
    BY <1>2, <1>3

LEMMA TriesStep ==
  ASSUME TypeOK, Timed, [Next]_vars, NEW i \in Transports, waiter[i].pc \in Waiting
  PROVE  /\ TriesLeft(i)' <= TriesLeft(i)
         /\ Wait(i) => TriesLeft(i)' < TriesLeft(i)
  <1> DEFINE Sleeps(w) == IF w.wake < w.deadline THEN w.deadline - w.wake ELSE 0
  <1>1. /\ waiter[i].deadline \in Nat /\ waiter[i].wake \in Nat /\ clock \in Nat
        /\ waiter[i].pc \in {"read", "test"} => waiter[i].wake <= clock
    BY DEF TypeOK, Timed
  <1>2. Sleeps(waiter[i]) \in Nat
    BY <1>1
  <1>3. /\ waiter[i].pc = "sleep" => TriesLeft(i) = 3 * Sleeps(waiter[i]) + 3
        /\ waiter[i].pc = "read" => TriesLeft(i) = 3 * Sleeps(waiter[i]) + 2
        /\ waiter[i].pc = "test" => TriesLeft(i) = 3 * Sleeps(waiter[i]) + 1
    BY DEF TriesLeft
  <1>4. /\ waiter'[i].pc = "sleep" => TriesLeft(i)' = 3 * Sleeps(waiter'[i]) + 3
        /\ waiter'[i].pc = "read" => TriesLeft(i)' = 3 * Sleeps(waiter'[i]) + 2
        /\ waiter'[i].pc = "test" => TriesLeft(i)' = 3 * Sleeps(waiter'[i]) + 1
        /\ waiter'[i].pc \notin Waiting => TriesLeft(i)' = 0
    BY DEF TriesLeft, Waiting
  <1>5. /\ waiter'[i].wake = waiter[i].wake /\ waiter'[i].deadline = waiter[i].deadline
             => Sleeps(waiter'[i]) = Sleeps(waiter[i])
        /\ waiter[i].wake <= clock /\ clock < waiter[i].deadline
             /\ waiter'[i].wake = clock + 1 /\ waiter'[i].deadline = waiter[i].deadline
             => Sleeps(waiter'[i]) \in Nat /\ Sleeps(waiter'[i]) + 1 <= Sleeps(waiter[i])
    BY <1>1
  <1>6. waiter[i].pc \in {"sleep", "read", "test"}
    BY DEF Waiting
  <1> HIDE DEF Sleeps
  <1>7. CASE waiter'[i].pc = waiter[i].pc /\ ~Wait(i)
    <2>1. Sleeps(waiter'[i]) = Sleeps(waiter[i])
      BY <1>5, <1>7, WaitStep
    <2>2. TriesLeft(i)' = TriesLeft(i) /\ TriesLeft(i) \in Nat
      BY <1>2, <1>3, <1>4, <1>6, <1>7, <2>1
    <2>3. QED
      BY <1>7, <2>2
  <1>8. CASE Wait(i) /\ waiter'[i].pc \in {"ready", "error", "timeout"}
    <2>1. TriesLeft(i)' = 0
      BY <1>4, <1>8 DEF Waiting
    <2>2. QED
      BY <1>2, <1>3, <1>6, <2>1
  <1>9. CASE waiter[i].pc = "read" /\ waiter'[i].pc = "test"
    <2>1. Sleeps(waiter'[i]) = Sleeps(waiter[i])
      BY <1>5, <1>9, WaitStep
    <2>2. QED
      BY <1>2, <1>3, <1>4, <1>9, <2>1
  <1>10. CASE waiter[i].pc = "test" /\ waiter'[i].pc = "sleep"
    <2>1. Sleeps(waiter'[i]) \in Nat /\ Sleeps(waiter'[i]) + 1 <= Sleeps(waiter[i])
      BY <1>1, <1>5, <1>10, WaitStep
    <2>2. QED
      BY <1>2, <1>3, <1>4, <1>10, <2>1
  <1>11. CASE waiter[i].pc = "sleep" /\ waiter'[i].pc = "read"
    <2>1. Sleeps(waiter'[i]) = Sleeps(waiter[i])
      BY <1>5, <1>11, WaitStep
    <2>2. QED
      BY <1>2, <1>3, <1>4, <1>11, <2>1
  <1>12. QED
    BY <1>7, <1>8, <1>9, <1>10, <1>11, WaitStep

(* wait_ready and its poll loop: the number of readings and sleeps that a  *)
(* wait can still make is bounded by its deadline and shrinks with each.   *)
THEOREM WaitShrinks == Spec => WaitGetsOn
  <1>1. Init => Timed
    BY DEF Init, Timed, Idle
  <1>2. IInv /\ IInv' /\ Timed /\ [Next]_vars => Timed'
    BY TimedStep DEF IInv
  <1>3. IInv /\ Timed /\ [Next]_vars =>
          [\A i \in Transports : waiter[i].pc \in Waiting =>
             /\ TriesLeft(i)' <= TriesLeft(i)
             /\ Wait(i) => TriesLeft(i)' < TriesLeft(i)]_vars
    BY TriesStep DEF IInv
  <1>4. QED
    BY <1>1, <1>2, <1>3, Inductive, PTL DEF Spec, WaitGetsOn
=============================================================================
