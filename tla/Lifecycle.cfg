SPECIFICATION FairSpec
CONSTANTS
  a = a
  p = p
  Peers <- MCPeers
  Transports <- MCTransports
  Required <- MCRequired
  Timeouts <- MCTimeouts
  MaxTime = 3
INVARIANTS
  LeftoversReported
  DeadWorkersReported
  UsedEntitiesExist
  ReadyNeverTimesOut
PROPERTIES
  WaitGetsOn
  WaitEnds
  DropEnds
  ThreadsEnd
