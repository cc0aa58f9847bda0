SPECIFICATION SideSpec
CONSTANTS
  s1 = s1
  s2 = s2
  Nil = Nil
  Streams <- TwoStreams
  Units <- SomeUnits
  MaxCommands = 5
  Reenters = FALSE
  MaxChunk = 2
  BufferSize = 1
INVARIANT NeverTwice
PROPERTIES
  ImplementsFifo
  EveryCommandRuns
  AllDelivered
CHECK_DEADLOCK FALSE
