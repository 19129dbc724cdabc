--------------------------- MODULE RegistryProofs ---------------------------
(***************************************************************************)
(* The registry's safety, for any sets of registrations, keys and callers. *)
(* The inductive invariant adds to the checked invariants what a thread    *)
(* half-way through unregister or deactivate_all knows of its target.      *)
(***************************************************************************)
EXTENDS Registry, TLAPS

(* A registration object that was never made is blank.                     *)
UnusedIsBlank ==
  \A r \in Regs : key[r] = NoKey =>
    ~active[r] /\ inFlight[r] = 0 /\ r \notin entries \cup todo \cup closed

(* Only a thread that is closing a registration has a target, and one that *)
(* has passed Deactivate has made it inactive.                             *)
TargetKnown ==
  \A t \in Threads :
    /\ pc[t] \notin Closing => target[t] = NoReg
    /\ pc[t] \in Closing => key[target[t]] # NoKey
    /\ pc[t] \in {"waiting", "woken"} => ~active[target[t]]

(* An entry is listed, or taken by deactivate_all, or closed, never two of *)
(* these at once.                                                          *)
Disjoint == entries \cap todo = {} /\ todo \cap closed = {}

(* An active registration is listed, or taken by deactivate_all, or some   *)
(* thread is about to make it inactive; before deactivate_all starts and   *)
(* after it ends there is nothing it has taken.                            *)
ActiveIsHeld ==
  /\ \A r \in Regs : active[r] =>
       \/ r \in entries \cup todo
       \/ \E t \in Threads : pc[t] = "removed" /\ target[t] = r
  /\ pc[Owner] \in {"idle", "drained"} => todo = {}

IInv ==
  /\ TypeOK
  /\ ClosedIsSilent
  /\ NoLostWakeup
  /\ OneCloser
  /\ UniqueKeys
  /\ UnusedIsBlank
  /\ TargetKnown
  /\ Disjoint
  /\ ActiveIsHeld

(* The invariant holds of an empty registry.                               *)
LEMMA InitInv == Init => IInv
  <1> SUFFICES ASSUME Init PROVE IInv
    OBVIOUS
  <1>1. TypeOK
    BY MaxInFlightAssumption DEF Init, TypeOK, Threads, Closing
  <1>2. ClosedIsSilent /\ NoLostWakeup /\ OneCloser /\ UniqueKeys
    BY DEF Init, ClosedIsSilent, NoLostWakeup, OneCloser, UniqueKeys, Threads, Closing
  <1>3. UnusedIsBlank /\ TargetKnown /\ Disjoint /\ ActiveIsHeld
    BY DEF Init, UnusedIsBlank, TargetKnown, Disjoint, ActiveIsHeld, Threads, Closing
  <1>4. QED
    BY <1>1, <1>2, <1>3 DEF IInv

(* Every step of the registry preserves the types.                         *)
LEMMA TypeStep == IInv /\ [Next]_registryVars => TypeOK'
  <1> SUFFICES ASSUME IInv, [Next]_registryVars PROVE TypeOK'
    OBVIOUS
  <1> USE NoRegAssumption, NoKeyAssumption, OwnerAssumption, MaxInFlightAssumption
      DEF IInv, TypeOK, Threads, Closing
  <1>1. ASSUME NEW c \in Callers, NEW k \in Keys, Register(c, k) PROVE TypeOK'
    BY <1>1 DEF Register
  <1>2. ASSUME NEW c \in Callers, NEW k \in Keys, Unregister(c, k) PROVE TypeOK'
    BY <1>2 DEF Unregister
  <1>3. ASSUME NEW t \in Threads, Deactivate(t) PROVE TypeOK'
    BY <1>3 DEF Deactivate, ReturnOrWait, OneCloser
  <1>4. ASSUME NEW t \in Threads, Recheck(t) PROVE TypeOK'
    BY <1>4 DEF Recheck, ReturnOrWait, OneCloser
  <1>5. ASSUME NEW t \in Threads, SpuriousWake(t) PROVE TypeOK'
    BY <1>5 DEF SpuriousWake
  <1>6. ASSUME NEW r \in Regs, Begin(r) PROVE TypeOK'
    BY <1>6 DEF Begin
  <1>7. ASSUME NEW r \in Regs, Release(r) PROVE TypeOK'
    BY <1>7 DEF Release, Notified
  <1>8. CASE TakeAll
    BY <1>8 DEF TakeAll
  <1>9. CASE DrainNext
    BY <1>9 DEF DrainNext
  <1>10. CASE DrainDone
    BY <1>10 DEF DrainDone
  <1>11. CASE UNCHANGED registryVars
    BY <1>11 DEF registryVars
  <1>12. QED
    BY <1>1, <1>2, <1>3, <1>4, <1>5, <1>6, <1>7, <1>8, <1>9, <1>10, <1>11
    DEF Next, Dropped

(* Every step of the registry preserves the inductive invariant.           *)
LEMMA InvStep == IInv /\ [Next]_registryVars => IInv'
  <1> SUFFICES ASSUME IInv, [Next]_registryVars PROVE IInv'
    OBVIOUS
  <1>0. TypeOK'
    BY TypeStep
  <1> DEFINE Rest == /\ ClosedIsSilent /\ NoLostWakeup /\ OneCloser /\ UniqueKeys
                     /\ UnusedIsBlank /\ TargetKnown /\ Disjoint /\ ActiveIsHeld
  <1> USE NoRegAssumption, NoKeyAssumption, OwnerAssumption, MaxInFlightAssumption
      DEF IInv, TypeOK, Threads, Closing, ClosedIsSilent, NoLostWakeup, OneCloser,
          UniqueKeys, UnusedIsBlank, TargetKnown, Disjoint, ActiveIsHeld
  <1>1. ASSUME NEW c \in Callers, NEW k \in Keys, Register(c, k) PROVE Rest'
    BY <1>1 DEF Register
  <1>2. ASSUME NEW c \in Callers, NEW k \in Keys, Unregister(c, k) PROVE Rest'
    BY <1>2 DEF Unregister
  <1>3. ASSUME NEW t \in Threads, Deactivate(t) PROVE Rest'
    BY <1>3 DEF Deactivate, ReturnOrWait
  <1>4. ASSUME NEW t \in Threads, Recheck(t) PROVE Rest'
    BY <1>4 DEF Recheck, ReturnOrWait
  <1>5. ASSUME NEW t \in Threads, SpuriousWake(t) PROVE Rest'
    BY <1>5 DEF SpuriousWake
  <1>6. ASSUME NEW r \in Regs, Begin(r) PROVE Rest'
    BY <1>6 DEF Begin
  <1>7. ASSUME NEW r \in Regs, Release(r) PROVE Rest'
    BY <1>7 DEF Release, Notified
  <1>8. CASE TakeAll
    BY <1>8 DEF TakeAll
  <1>9. CASE DrainNext
    BY <1>9 DEF DrainNext
  <1>10. CASE DrainDone
    BY <1>10 DEF DrainDone
  <1>11. CASE UNCHANGED registryVars
    BY <1>11 DEF registryVars
  <1>12. Rest'
    BY <1>1, <1>2, <1>3, <1>4, <1>5, <1>6, <1>7, <1>8, <1>9, <1>10, <1>11
    DEF Next, Dropped
  <1>13. QED
    BY <1>0, <1>12

(* The inductive invariant holds throughout.                               *)
THEOREM Invariance == Spec => []IInv
  <1>1. Init => IInv
    BY InitInv
  <1>2. IInv /\ [Next]_registryVars => IInv'
    BY InvStep
  <1>3. QED
    BY <1>1, <1>2, PTL DEF Spec

(* The registry's fields keep their types, the in-flight counter included. *)
THEOREM TypesKept == Spec => []TypeOK
  <1>1. IInv => TypeOK
    BY DEF IInv
  <1>2. QED
    BY <1>1, Invariance, PTL

(* Once unregister or deactivate_all is through with a registration, no    *)
(* callback of it runs or can start.                                       *)
THEOREM Silence == Spec => []ClosedIsSilent
  <1>1. IInv => ClosedIsSilent
    BY DEF IInv
  <1>2. QED
    BY <1>1, Invariance, PTL

(* The thread in deactivate_and_wait is never asleep without a callback    *)
(* left that will wake it.                                                 *)
THEOREM WakeupsArrive == Spec => []NoLostWakeup
  <1>1. IInv => NoLostWakeup
    BY DEF IInv
  <1>2. QED
    BY <1>1, Invariance, PTL

(* No two threads ever deactivate the same registration.                   *)
THEOREM ClosersExclude == Spec => []OneCloser
  <1>1. IInv => OneCloser
    BY DEF IInv
  <1>2. QED
    BY <1>1, Invariance, PTL

(* The list of registrations never holds a duplicate.                      *)
THEOREM KeysUnique == Spec => []UniqueKeys
  <1>1. IInv => UniqueKeys
    BY DEF IInv
  <1>2. QED
    BY <1>1, Invariance, PTL
-----------------------------------------------------------------------------
(* An empty registry is an empty contract.                                 *)
LEMMA InitContract == Init => Contract!Init
  BY DEF Init, Contract!Init, Phase

(* Every step of the registry opens, enters, leaves or closes a            *)
(* registration of the contract, or is invisible to it.                    *)
LEMMA ContractStep == IInv /\ [Next]_registryVars => [Contract!Next]_(Contract!vars)
  <1> SUFFICES ASSUME IInv, [Next]_registryVars PROVE [Contract!Next]_(Contract!vars)
    OBVIOUS
  <1> DEFINE phase == [r \in Regs |-> Phase(r)]
             same == UNCHANGED <<phase, inFlight>>
  <1>0. same => [Contract!Next]_(Contract!vars)
    BY DEF Contract!vars
  <1> USE NoRegAssumption, NoKeyAssumption, OwnerAssumption DEF IInv, TypeOK, Threads, Closing
  <1>1. ASSUME NEW c \in Callers, NEW k \in Keys, Register(c, k) PROVE Contract!Next
    <2>1. PICK r \in Regs : /\ key[r] = NoKey
                            /\ key' = [key EXCEPT ![r] = k]
      BY <1>1 DEF Register
    <2>2. closed' = closed /\ inFlight' = inFlight /\ r \notin closed /\ k # NoKey
      BY <1>1, <2>1 DEF Register, UnusedIsBlank
    <2>3. \A s \in Regs : key'[s] = IF s = r THEN k ELSE key[s]
      BY <2>1
    <2>4. phase' = [phase EXCEPT ![r] = "open"]
      BY <2>1, <2>2, <2>3 DEF Phase
    <2>5. phase[r] = "unused"
      BY <2>1 DEF Phase
    <2>6. Contract!Open(r)
      BY <2>2, <2>4, <2>5 DEF Contract!Open
    <2>7. QED
      BY <2>6 DEF Contract!Next
  <1>2. ASSUME NEW t \in Threads, Deactivate(t) \/ Recheck(t) PROVE Contract!Next \/ same
    <2>1. key' = key /\ inFlight' = inFlight /\ ReturnOrWait(t) /\ pc[t] \in Closing
      BY <1>2 DEF Deactivate, Recheck
    <2>2. target[t] \in Regs /\ key[target[t]] # NoKey /\ target[t] \notin closed
      BY <2>1 DEF OneCloser, TargetKnown
    <2>3. CASE inFlight[target[t]] = 0
      <3>1. closed' = closed \cup {target[t]}
        BY <2>1, <2>3 DEF ReturnOrWait
      <3>2. Contract!Close(target[t])
        BY <2>1, <2>2, <2>3, <3>1 DEF Contract!Close, Phase
      <3>3. QED
        BY <2>2, <3>2 DEF Contract!Next
    <2>4. CASE inFlight[target[t]] # 0
      BY <2>1, <2>4 DEF ReturnOrWait, Phase
    <2>5. QED
      BY <2>3, <2>4
  <1>3. ASSUME NEW r \in Regs, Begin(r) PROVE Contract!Next
    <2>1. Phase(r) = "open"
      BY <1>3 DEF Begin, Phase, UnusedIsBlank, ClosedIsSilent
    <2>2. Contract!Enter(r)
      BY <1>3, <2>1 DEF Begin, Contract!Enter, Phase
    <2>3. QED
      BY <2>2 DEF Contract!Next
  <1>4. ASSUME NEW r \in Regs, Release(r) PROVE Contract!Next
    <2>1. Contract!Leave(r)
      BY <1>4 DEF Release, Contract!Leave, Phase
    <2>2. QED
      BY <2>1 DEF Contract!Next
  <1>5. ASSUME NEW c \in Callers, NEW k \in Keys, Unregister(c, k) PROVE same
    BY <1>5 DEF Unregister, Phase
  <1>6. ASSUME NEW t \in Threads, SpuriousWake(t) PROVE same
    BY <1>6 DEF SpuriousWake, Phase
  <1>7. ASSUME TakeAll \/ DrainNext \/ DrainDone \/ UNCHANGED registryVars PROVE same
    BY <1>7 DEF TakeAll, DrainNext, DrainDone, registryVars, Phase
  <1> HIDE DEF same
  <1>8. Contract!Next \/ same
    BY <1>1, <1>2, <1>3, <1>4, <1>5, <1>6, <1>7 DEF Next, Dropped
  <1>9. QED
    BY <1>0, <1>8

(* The registry implements the contract of a registration: opened once,    *)
(* entered only while open, closed once and only when nothing runs.        *)
THEOREM ContractKept == Spec => ContractSpec
  <1>1. Init => Contract!Init
    BY InitContract
  <1>2. IInv /\ [Next]_registryVars => [Contract!Next]_(Contract!vars)
    BY ContractStep
  <1>3. QED
    BY <1>1, <1>2, Invariance, PTL DEF Spec, ContractSpec, Contract!Spec
=============================================================================
