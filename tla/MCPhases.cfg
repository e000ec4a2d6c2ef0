SPECIFICATION Spec
CONSTANTS
  Schemes = {"http", "https"}
  Attempts = {1, 2}
  MaxRedirects = 2
INVARIANT PhasesNeverOverlap
