SPECIFICATION FairSpec
CONSTANTS
  Handlers = {h1, h2}
  Streams = {s1, s2, s3}
  Keys = {k1, k2}
  NoStrm = NoStrm
  NoKey = NoKey
INVARIANTS
  TypeOK
  Drained
  NoLeakedStream
  OneReader
PROPERTIES
  DeadStreamsLeave
  ImplementsSlots
