---------------------------- MODULE MCReentrancy ----------------------------
(* Two callers and the owner, all of them tasks, or a thread, a callback   *)
(* and a task.  One sample is routed to both keys, so that one callback    *)
(* can unregister the registration of the other.                           *)
EXTENDS Reentrancy

CONSTANTS c1, c2, k1, k2, r1, r2

MCCallers == {c1, c2}
MCKeys == {k1, k2}
TwoRegs == {r1, r2}
ToBoth == {[kind |-> "routable", to |-> MCKeys]}

(* p[c1], p[c2], p[Owner]                                                  *)
Placed(a, b, o) == [t \in MCCallers \cup {Owner} |->
                      CASE t = c1 -> a [] t = c2 -> b [] t = Owner -> o]

Mixed == {Placed("worker", "worker", "worker"), Placed("thread", "callback", "worker")}
OwnerOnWorker == {Placed("thread", "thread", "worker")}
=============================================================================
