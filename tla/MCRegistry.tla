----------------------------- MODULE MCRegistry -----------------------------
(* Two caller threads, two keys and four registration objects: a key can   *)
(* be registered again while the object that carried it last is still      *)
(* being closed, by either caller.  No symmetry, as the run has liveness.  *)
EXTENDS Registry

CONSTANTS c1, c2, k1, k2, r1, r2, r3, r4

MCCallers == {c1, c2}
MCKeys == {k1, k2}
FourRegs == {r1, r2, r3, r4}
=============================================================================
