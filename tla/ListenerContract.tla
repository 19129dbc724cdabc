-------------------------- MODULE ListenerContract --------------------------
(***************************************************************************)
(* What the transport promises whoever registers a listener, with no       *)
(* threads, locks or queues in it.  A registration is opened once, its     *)
(* callback may then be entered and left any number of times, and it is    *)
(* closed once, at an instant when no callback of it is in progress.       *)
(* Nothing is entered before it is opened or after it is closed.           *)
(*                                                                         *)
(* README.md of the repository words it as "Successful listener            *)
(* unregistration waits for an in-flight callback and prevents any         *)
(* snapshotted-but-not-started callback from running afterward".           *)
(***************************************************************************)
EXTENDS Naturals

CONSTANT Regs           \* registration objects (Arc<Registration>)

VARIABLES phase,        \* phase[r]: "unused", "open" or "closed"
          running       \* running[r]: callbacks of r in progress

vars == <<phase, running>>

Init ==
  /\ phase = [r \in Regs |-> "unused"]
  /\ running = [r \in Regs |-> 0]

Open(r) ==
  /\ phase[r] = "unused"
  /\ phase' = [phase EXCEPT ![r] = "open"]
  /\ UNCHANGED running

Enter(r) ==
  /\ phase[r] = "open"
  /\ running' = [running EXCEPT ![r] = @ + 1]
  /\ UNCHANGED phase

Leave(r) ==
  /\ running[r] > 0
  /\ running' = [running EXCEPT ![r] = @ - 1]
  /\ UNCHANGED phase

Close(r) ==
  /\ phase[r] = "open"
  /\ running[r] = 0
  /\ phase' = [phase EXCEPT ![r] = "closed"]
  /\ UNCHANGED running

Next == \E r \in Regs : Open(r) \/ Enter(r) \/ Leave(r) \/ Close(r)

Spec == Init /\ [][Next]_vars
=============================================================================
