SPECIFICATION Spec
CONSTANTS
  c1 = c1
  k1 = k1
  k2 = k2
  r1 = r1
  r2 = r2
  Callers <- MCCallers
  Keys <- MCKeys
  Regs <- TwoRegs
  NoReg = NoReg
  NoKey = NoKey
  NoJob = NoJob
  Owner = Owner
  MaxInFlight = 2
  Contents <- AllContents
  Capacity = 1
  MaxTake = 2
  Depth = 2
  MaxSamples = 2
  MaxDdsErrors = 1
  RuntimeMayStop = TRUE
SYMMETRY Symmetry
INVARIANTS
  TypeOK
  InFlightExact
  NoJobLost
  PanicsCounted
  TeardownIsLast
  DropGetsOn
PROPERTIES
  WindsDown
