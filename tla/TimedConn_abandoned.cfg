SPECIFICATION Spec
CONSTANTS
  NCombos = 1
  MaxFailures = 1
  MaxRetries = 1
  HealthOn = FALSE
  Callers = {c1}
  Conns = {n1, n2, n3}
  NoConn = NoConn
SYMMETRY Symm
PROPERTIES
  NoAbandonedSocket
