SPECIFICATION FairSpec
CONSTANTS
  Cap = 2
  Bufs = {b1, b2, b3, b4}
  NoBuf = NoBuf
  MaxPackets = 5
  Writers = {w1, w2}
INVARIANTS
  TypeOK
  InOrder
PROPERTIES
  NoLateWrite
  CloseEndsLoop
  ReaderReleased
CHECK_DEADLOCK FALSE
