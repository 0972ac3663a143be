SPECIFICATION FairSpec
CONSTANTS
  Conns = {c1, c2, c3}
  Tls = TRUE
  HandshakeTimeout = 2
  HeaderTimeout = 2
  RequestTimeout = 2
  DrainTimeout = 3
CHECK_DEADLOCK FALSE
INVARIANTS TypeOK DrainIsComplete Watched HandlersFinish
PROPERTIES ShutdownReturns
