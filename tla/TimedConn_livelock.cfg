SPECIFICATION FairSpec
CONSTANTS
  NCombos = 2
  MaxFailures = 1
  MaxRetries = 1
  HealthOn = FALSE
  Callers = {c1, c2}
  Conns = {n1, n2, n3, n4}
  NoConn = NoConn
PROPERTIES
  Recovers
