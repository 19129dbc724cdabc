SPECIFICATION FairSpec
CONSTANTS
  Procs <- Rpc
  Role <- MCRole
  Local <- MCLocal
  Peer <- MCPeer
  Pid <- Pids
  CopyMinimized = FALSE
  PassiveFirst = FALSE
  MayFail = FALSE
CHECK_DEADLOCK FALSE
INVARIANTS
  SendsToAddressee
PROPERTIES
  FlowCompletes
