SPECIFICATION Spec
CONSTANTS
  Targets <- MCUncapped
  Candidates13 <- MCCandidates13
  Candidates12 <- MCCandidates12
  Registry <- MCRegistry
  Protocols <- MCProtocols
  Clients <- MCClients
  Limit = 2
  Faults = 0
INVARIANT GradePromisesKept
CHECK_DEADLOCK FALSE
