\* The IPP element (two lives, two frames each) and the dummy element.
CONSTANTS
  Confs <- IppConfs
  MaxLives = 2
  MaxFrames = 2
  Builds <- AllBuilds
  MaxFaults = 1
  MaxStarts = 2
CHECK_DEADLOCK FALSE
SPECIFICATION ClientsSpec
INVARIANTS
  TypesOK
  RequestsDontOverlap
  ResultIsPushed
  ClientsReleaseAll
PROPERTY IppAnswers
