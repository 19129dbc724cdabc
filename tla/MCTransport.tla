---------------------------- MODULE MCTransport -----------------------------
(* One caller thread, two keys and two registration objects, so that a key *)
(* is registered again while jobs for its last object are still queued.    *)
EXTENDS Transport, TLC

CONSTANTS c1, k1, k2, r1, r2

MCCallers == {c1}
MCKeys == {k1, k2}
TwoRegs == {r1, r2}

Routable(ks) == [kind |-> "routable", to |-> ks]
Unrouted(kind) == [kind |-> kind, to |-> {}]

AllContents ==
  {Routable({k1}), Routable({k1, k2}), Unrouted("nodata"), Unrouted("own"),
   Unrouted("malformed")}
ToEither == {Routable({k1}), Routable({k2})}
RoutableOnly == {Routable({k1})}

Symmetry == Permutations(Regs)
=============================================================================
