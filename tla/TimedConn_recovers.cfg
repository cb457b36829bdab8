SPECIFICATION FairSpec
CONSTANTS
  NCombos = 2
  MaxFailures = 2
  MaxRetries = 2
  HealthOn = TRUE
  Callers = {c1}
  Conns = {n1, n2, n3}
  NoConn = NoConn
PROPERTIES
  Recovers
  RequestsReturn
  ShutdownEndsTunnel
