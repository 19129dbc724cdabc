SPECIFICATION FairSpec
CONSTANTS
  c1 = c1
  c2 = c2
  k1 = k1
  k2 = k2
  r1 = r1
  r2 = r2
  r3 = r3
  r4 = r4
  Callers <- MCCallers
  Keys <- MCKeys
  Regs <- FourRegs
  NoReg = NoReg
  NoKey = NoKey
  Owner = Owner
  MaxInFlight = 2
INVARIANTS
  ClosedIsSilent
  NoLostWakeup
  OneCloser
  UniqueKeys
PROPERTIES
  ClosingEnds
  ContractSpec
