SPECIFICATION Spec
CONSTANTS
  Worlds <- MCWorlds
  Lookups = {"mx", "caa"}
  Direct = {"caa"}
  Resolvers = {1, 2, 3}
  Anchors = {"rootKSK", "nextRootKSK"}
  NsCap = 3
  WalkCap = 4
  RingSize = 4
INVARIANTS
  DnssecSound
  ServersJudged
  BestEffort
PROPERTY AuditEnds
CHECK_DEADLOCK FALSE
