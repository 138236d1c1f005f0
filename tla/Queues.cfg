\* The queue as each port uses it, and shared by three consumers; a ring of
\* four slots (20 in the code), two timestamps, one event.
CONSTANTS
  Items = {b1, b2, b3}
  Consumers = {c1, c2, c3}
  Size = 4
  Times = {t1, t2}
  Events = {e1}
  NoTime = NoTime
  NoEvent = NoEvent
SPECIFICATION QueuesSpec
INVARIANTS
  SleepersAreServed
  CountIsFrames
  ReaderKnowsRing
PROPERTIES
  DisabledReleases
  ImplementsClosableQueue
  ImplementsTsQueue
