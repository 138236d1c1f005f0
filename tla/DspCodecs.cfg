SPECIFICATION CodecsSpec
CONSTANTS
  Streams <- AllStreams
  Downstream <- UYVYandI420
  MaxCaps = 4
  MaxBuffers = 2
  MaxFaults = 1
  EncConfs <- AllEncConfs
  Buffers <- TwoBuffers
  MaxFrames = 3
  MaxRequests = 2
  MaxRecaps = 1
  InputSet <- AllInputs
  IntMax = 536870911
  Overshift = 0
CHECK_DEADLOCK FALSE
INVARIANTS
  DecoderSized
  EncoderOutput
  FramedRight
  LevelFits
  ParsedRight
