SPECIFICATION MCSpec
CONSTANTS
  N = 4
  Concurrency = 0
  DefaultSlots = 2
  Lookups = {l1, l2, l3}
  MaxServers = 2
  Hours <- MCHours
  Worlds <- MCWorlds
  Selectors <- MCSelectors
  Zones <- MCZones
  MxCap = 2
  SpfLimit = 1
  Nil = Nil
INVARIANTS
  BoundedParallelism
  JoinedBeforeRead
  HistoryFaithful
  OneRegistry
  FallsThrough
  MailSound
  ReputationSound
PROPERTIES
  BatchEnds
  KeepsPromise
  FailureIsSticky
  LookupsEnd
