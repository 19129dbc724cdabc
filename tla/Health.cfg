SPECIFICATION Spec
CONSTANTS
  MaxEvents = 2
  MaxErrors = 4
INVARIANTS
  Faithful
  AtomicSnapshot
PROPERTIES
  NothingMissed
