SPECIFICATION Spec
CONSTANTS
  Procs <- OneTopic
  Role <- MCRole
  Local <- MCLocal
  Peer <- MCPeer
  Pid <- Pids
  CopyMinimized = TRUE
  PassiveFirst = FALSE
  MayFail = TRUE
INVARIANTS
  RightMessage
  NoneLost
