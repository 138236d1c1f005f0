\* Three kinds of elements, with seeks, EOS, events, faults and timeouts.
CONSTANTS
  Size = 4
  NoTime = NoTime
  NoEvent = NoEvent
  None = None
  InBufs = {i1}
  OutBufs = {o1, o2}
  Times = {1, 2, 3}
  Events = {1}
  Confs <- SafetyConfs
CHECK_DEADLOCK FALSE
SPECIFICATION Spec
SYMMETRY Symmetry
INVARIANTS
  TypeOK
  BuffersConserved
  OwnTimestamp
  NothingStale
  ChainHasBufferUnlessFault
  EosInPlace
  QueuesFollowStatus
PROPERTY ImplementsTsStream
