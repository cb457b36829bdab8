SPECIFICATION Spec
CONSTANTS
  NCombos = 2
  MaxFailures = 1
  MaxRetries = 1
  HealthOn = TRUE
  Callers = {c1, c2}
  Conns = {n1, n2, n3, n4}
  NoConn = NoConn
SYMMETRY Symm
INVARIANTS
  TypeOK
  NoLeakedSession
  StreamsOnInstalled
PROPERTIES
  RequestsNeverKillTunnel
  ImplementsSlot
