SPECIFICATION PlacedFairSpec
CONSTANTS
  c1 = c1
  c2 = c2
  k1 = k1
  k2 = k2
  r1 = r1
  r2 = r2
  Callers <- MCCallers
  Keys <- MCKeys
  Regs <- TwoRegs
  NoReg = NoReg
  NoKey = NoKey
  NoJob = NoJob
  Owner = Owner
  MaxInFlight = 1
  Contents <- ToBoth
  Capacity = 2
  MaxTake = 1
  Depth = 1
  MaxSamples = 1
  MaxDdsErrors = 0
  RuntimeMayStop = TRUE
  Workers = 2
  Placements <- Mixed
CHECK_DEADLOCK FALSE
PROPERTIES
  PrudentDropEnds
  PrudentUnregisterReturns
INVARIANTS
  NoWaitCycle
  DropLeavesWorker
