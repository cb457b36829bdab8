SPECIFICATION FairSpec
CONSTANTS
  Sessions = {s1, s2}
  Addrs = {a1, a2}
  Combos = {pa, sa}
  Default = pa
  NoFlags = NoFlags
  RemoteAddr <- OwnAddr
  s1 = s1
  s2 = s2
  a1 = a1
  a2 = a2
INVARIANTS
  TypeOK
  FlagsInForce
PROPERTIES
  StateKept
  PongGetsThrough
  ShutdownCompletes
CHECK_DEADLOCK FALSE
