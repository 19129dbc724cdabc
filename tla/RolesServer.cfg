SPECIFICATION Spec
CONSTANTS
  Procs <- Rpc
  Role <- MCRole
  Local <- MCLocal
  Peer <- MCPeer
  Pid <- Pids
  CopyMinimized = TRUE
  PassiveFirst = TRUE
  MayFail = FALSE
INVARIANTS
  SendsToAddressee
