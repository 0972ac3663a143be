SPECIFICATION AdmissionSpec
CONSTANTS
  Specs <- MCSpecs
  Policy <- MCPolicy
  Conns = {c1}
  Tls = FALSE
  HandshakeTimeout = 2
  HeaderTimeout = 2
  RequestTimeout = 2
  DrainTimeout = 3
INVARIANTS
  CleanupAdmitted
CHECK_DEADLOCK FALSE
