SPECIFICATION MCSpec
CONSTANTS
  N = 3
  UDP = {1, 3}
  Known = {1, 2}
  Slots = 2
  Patience = 3
  InFlight = 2
INVARIANTS
  PassesDoNotOverlap
  BoundedProbes
  HandoverSafe
PROPERTIES
  TCPFindingsSurvive
  ScanEnds
  InStep
  DialogueEnds
