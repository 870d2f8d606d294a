SPECIFICATION Spec
CONSTANTS
  sigA = sigA
  sigB = sigB
  head = head
  tailA = tailA
  tailB = tailB
  NoSignature = NoSignature
  Procs = {p1, p2}
  Signatures = {sigA, sigB}
  Texts = {head, tailA, tailB}
  MaxFragments = 2
  Size <- MCSize
  Text <- MCText
  MaxInvocations = 3
  MaxCrashes = 2
  Overlap = TRUE
  TruncatedReads = TRUE
SYMMETRY ProcSymmetry
INVARIANTS
  SentRunIsComplete
  DeliveredInOrder
  SentWasAccepted
PROPERTIES
  ImplementsHeldDelivery
  AmbiguityIsHeld
