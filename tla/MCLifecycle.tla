---------------------------- MODULE MCLifecycle -----------------------------
(* One transport (two share nothing but the factory and the domain) with   *)
(* one peer, so that a count of two is both of them.                       *)
EXTENDS Lifecycle

CONSTANTS a, p

MCTransports == {a}
MCPeers == {p}
MCRequired == {0, 2}
MCTimeouts == {0, 2}
=============================================================================
