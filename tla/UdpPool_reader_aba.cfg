SPECIFICATION Spec
CONSTANTS
  Handlers = {h1}
  Streams = {s1, s2}
  Keys = {k1}
  NoStrm = NoStrm
  NoKey = NoKey
SYMMETRY Symm
PROPERTIES
  ReaderClosesOwn
