SPECIFICATION FairSpec
CONSTANTS
  SlotCount = 2
  Depth = 2
  PcmSlots = 3
  PcmMargin = 1
  Generations = 2
  Readers = 1
  Streams <- Halves
INVARIANTS
  EngineWritesItsSlot
  SurfaceHasOneOwner
  BlocksOutliveOutput
  NothingOfOldStream
PROPERTIES
  SeekEnds
\* A reported failure ends the playback.
CHECK_DEADLOCK FALSE
