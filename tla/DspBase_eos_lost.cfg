\* An EOS deferred behind flushed frames, without an EOS timeout.
CONSTANTS
  Size = 4
  NoTime = NoTime
  NoEvent = NoEvent
  None = None
  InBufs = {i1}
  OutBufs = {o1}
  Times = {1, 2}
  Events = {}
  Confs <- NoTimeoutConfs
CHECK_DEADLOCK FALSE
SPECIFICATION FairSpec
PROPERTY EosDelivered
