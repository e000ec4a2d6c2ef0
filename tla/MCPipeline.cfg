SPECIFICATION Spec
CONSTANTS
  V4 = {a1, a2}
  V6 = {b1}
  CheckSpecs <- MCCheckSpecs
  Profiles = {"mail"}
SYMMETRY MCSymmetry
INVARIANTS
  DNSFailureIsRootCause
  TCPFailureSilencesMeasurements
  NoMissingTransaction
  BlamesDNSTruly
