SPECIFICATION Spec
CONSTANTS
  Worlds <- MCUnlucky
  Lookups = {"mx", "caa"}
  Direct = {"caa"}
  Resolvers = {1, 2, 3}
  Anchors = {"rootKSK", "nextRootKSK"}
  NsCap = 3
  WalkCap = 4
  RingSize = 4
INVARIANT PromisesKept
CHECK_DEADLOCK FALSE
