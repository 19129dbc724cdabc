SPECIFICATION Spec
CONSTANTS
  core1 = core1
  core2 = core2
  framed = framed
  u = u
  v = v
  plain = plain
  encoded = encoded
  b1 = b1
  Noise = Noise
  NoUri = NoUri
  EmptyText = EmptyText
  NoPayload = NoPayload
  NoLoan = NoLoan
  Old = Old
  Foreign = Foreign
  Attributes <- MCAttributes
  Valid <- MCValid
  Uris <- MCUris
  Bytes <- MCBytes
  Cores <- MCCores
  Framed <- MCFramed
  Specs <- MCSpecs
  Texted <- MCTexted
  Garbage <- MCGarbage
  Blocks = {b1}
  MaxLoans = 2
  MaxSends = 2
INVARIANTS
  NoStaleBytes
  DeliveredIsSent
  MalformedIsGarbage
