------------------------------ MODULE MCRoles --------------------------------
(***************************************************************************)
(* Processes 1 and 2 are an RPC client and its server; 3 and 4 a publisher *)
(* and a subscriber, 5 and 6 a notifier and a notifyee of the same topic.  *)
(* The active ones run at dds-a, the passive ones at dds-b.                *)
(***************************************************************************)
EXTENDS Roles

Rpc == {1, 2}
OneTopic == {3, 4, 5}

MCRole == [p \in Procs |->
  <<"client", "server", "publisher", "subscriber", "notifier", "notifyee">>[p]]
MCLocal == [p \in Procs |-> IF p % 2 = 1 THEN "dds-a" ELSE "dds-b"]
MCPeer == [p \in Procs |-> IF p % 2 = 1 THEN "dds-b" ELSE "dds-a"]

Pids == [p \in Procs |-> 100 + p]
=============================================================================
