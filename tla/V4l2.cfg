\* Two captures with up to three buffers, every fault, many devices.
CONSTANTS
  MaxSize = 8
  NumBuffers = 3
  MinBuffers = 2
  NumTrials = 1
  MaxLives = 2
  Confs <- CaptureConfs
CHECK_DEADLOCK FALSE
SPECIFICATION Spec
INVARIANTS
  DriverKeepsABuffer
  PoolReleasesAll
  ProbedIsSettable
PROPERTIES
  StopEnds
  ImplementsFrameExchange
