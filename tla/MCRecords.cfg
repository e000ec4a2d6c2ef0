SPECIFICATION MCSpec
CONSTANTS
  Servers <- MCServers
  Faults = 2
  Writers = {w1, w2, w3}
  Scans = 1
  Hosts = {"a", "b"}
  MaxLine = 3
SYMMETRY MCSymmetry
INVARIANTS
  ClaimsEarned
  JudgesItsAnswer
  
  ReaderExact
  DamageBounded
PROPERTY HistoryGrows
