SPECIFICATION FlowSpec
CONSTANTS
  stream1 = stream1
  stream2 = stream2
  circuit1 = circuit1
  circuit2 = circuit2
  host = host
  arpa = arpa
  Nil = Nil
  Circuit = Circuit
  StreamList <- TwoStreams
  Sides <- TwoEnds
  Optimistic <- Early
  CircStart = 6
  CircInitial = 4
  CircIncrement = 3
  StreamStart = 3
  StreamIncrement = 1
  High = 4
  Low = 1
  OutbufFull = 1
  MaxConns = 3
  Circs <- TwoCircuits
  Names <- TwoNames
  Arpa <- ReverseNames
  Overlap = FALSE
  MaxAsked = 2
INVARIANT BlocksEnd
PROPERTIES
  ImplementsWindows
  Delivered
CHECK_DEADLOCK FALSE
