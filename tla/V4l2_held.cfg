\* A frame is kept past the end of the capture.
CONSTANTS
  MaxSize = 8
  NumBuffers = 3
  MinBuffers = 2
  NumTrials = 1
  MaxLives = 2
  Confs <- KeptConfs
CHECK_DEADLOCK FALSE
SPECIFICATION Spec
INVARIANT HeldIsAlive
