SPECIFICATION FairSpec
CONSTANTS
  c1 = c1
  k1 = k1
  k2 = k2
  r1 = r1
  r2 = r2
  Callers <- MCCallers
  Keys <- MCKeys
  Regs <- TwoRegs
  NoReg = NoReg
  NoKey = NoKey
  NoJob = NoJob
  Owner = Owner
  MaxInFlight = 2
  Contents <- ToEither
  Capacity = 1
  MaxTake = 1
  Depth = 1
  MaxSamples = 2
  MaxDdsErrors = 0
  RuntimeMayStop = TRUE
PROPERTIES
  MailboxSpec
  DropEnds
  UnregisterReturns
  QueueDrains
