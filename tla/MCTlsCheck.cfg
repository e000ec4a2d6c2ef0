SPECIFICATION Spec
CONSTANTS
  Targets <- MCTargets
  Candidates13 <- MCCandidates13
  Candidates12 <- MCCandidates12
  Registry <- MCRegistry
  Protocols <- MCProtocols
  Clients <- MCClients
  Limit = 2
  Faults = 2
INVARIANTS
  PoolsFaithful
  PreferenceTrue
  JudgementSound
PROPERTY CheckEnds
CHECK_DEADLOCK FALSE
