\* Restarts, faults, failed starts, renegotiation and seeks.
CONSTANT Confs <- AllConfs
CHECK_DEADLOCK FALSE
SPECIFICATION FairSpec
INVARIANTS
  TypeOK
  ThreadServesNode
  BuffersOfThisLife
  AnswersAccounted
  NobodyLeftWaiting
  ChainHasBufferUnlessReset
  NullReleasesAll
PROPERTIES
  ShutdownEnds
  ChainReturns
