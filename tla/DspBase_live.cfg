\* Fair threads: the streaming thread returns, frames and EOS get through.
CONSTANTS
  Size = 4
  NoTime = NoTime
  NoEvent = NoEvent
  None = None
  InBufs = {i1}
  OutBufs = {o1, o2}
  Times = {1, 2}
  Events = {1}
  Confs <- LiveConfs
CHECK_DEADLOCK FALSE
SPECIFICATION FairSpec
PROPERTIES
  ChainReturns
  SentGetsThrough
