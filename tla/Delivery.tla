------------------------------ MODULE Delivery ------------------------------
(***************************************************************************)
(* What a transport promises its listeners about messages, with no poller, *)
(* queue, dispatcher or runtime in it.  At most one callback of the whole  *)
(* transport runs at a time; a registration is called only between its     *)
(* opening and its closing; it sees a message at most once and in the      *)
(* order in which the messages arrived.  A message may be skipped: the     *)
(* transport is best effort.                                               *)
(***************************************************************************)
EXTENDS Naturals

CONSTANTS Regs,         \* registration objects
          NoReg,        \* no registration object
          MaxSamples    \* messages are numbered 1..MaxSamples on arrival

VARIABLES phase,        \* phase[r]: "unused", "open" or "closed"
          current,      \* the registration whose callback runs, or NoReg
          last          \* last[r]: the number of the last message given to r

vars == <<phase, current, last>>

Init ==
  /\ phase = [r \in Regs |-> "unused"]
  /\ current = NoReg
  /\ last = [r \in Regs |-> 0]

Open(r) ==
  /\ phase[r] = "unused"
  /\ phase' = [phase EXCEPT ![r] = "open"]
  /\ UNCHANGED <<current, last>>

Enter(r, m) ==
  /\ phase[r] = "open"
  /\ current = NoReg
  /\ m > last[r]
  /\ current' = r
  /\ last' = [last EXCEPT ![r] = m]
  /\ UNCHANGED phase

Leave ==
  /\ current # NoReg
  /\ current' = NoReg
  /\ UNCHANGED <<phase, last>>

Close(r) ==
  /\ phase[r] = "open"
  /\ current # r
  /\ phase' = [phase EXCEPT ![r] = "closed"]
  /\ UNCHANGED <<current, last>>

Next ==
  \/ \E r \in Regs : Open(r) \/ Close(r) \/ \E m \in 1..MaxSamples : Enter(r, m)
  \/ Leave

Spec == Init /\ [][Next]_vars
=============================================================================
