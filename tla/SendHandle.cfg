SPECIFICATION Spec
CONSTANTS
  Writers = {w1, w2}
  Observer = r
  States = {o1, o2}
  NoState = NoState
  W = 4
  MaxLen = 3
INVARIANTS
  TypeOK
PROPERTIES
  Unbroken
  SynAcked
