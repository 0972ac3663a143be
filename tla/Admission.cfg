SPECIFICATION AdmissionSpec
CONSTANTS
  Specs <- MCSpecs
  Policy <- MCPolicy
  Conns = {c1, c2}
  Tls = TRUE
  HandshakeTimeout = 2
  HeaderTimeout = 2
  RequestTimeout = 2
  DrainTimeout = 3
INVARIANTS
  TypeOK
  AdmissionTypeOK
  DrainIsComplete
  HandlersFinish
PROPERTIES
  ShutdownReturns
  FailsClosed
  ReviewsEnd
CHECK_DEADLOCK FALSE
