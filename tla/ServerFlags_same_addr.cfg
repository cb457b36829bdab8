SPECIFICATION Spec
CONSTANTS
  Sessions = {s1, s2}
  Addrs = {a1}
  Combos = {pa, sa}
  Default = pa
  NoFlags = NoFlags
  RemoteAddr <- SameAddr
  s1 = s1
  s2 = s2
  a1 = a1
  a2 = a2
INVARIANTS
  FlagsInForce
CHECK_DEADLOCK FALSE
