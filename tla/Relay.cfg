SPECIFICATION FairSpec
CONSTANTS
  Units = 2
  ErrCap = 2
CHECK_DEADLOCK FALSE
INVARIANTS
  TypeOK
  ReturnedClosed
  DeliversUnlessCut
PROPERTIES
  CopiersExit
  RelayEnds
