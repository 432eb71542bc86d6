SPECIFICATION Spec
CONSTANTS
  s1 = s1
  m1 = m1
  Subs = {s1}
  Members = {m1}
  OwnerOf <- Owners
  MaxCycle = 2
  Instances = {i1}
  NoSub = NoSub
  NoEvent = NoEvent
  Queues <- AllQueues
  Faults = {}
  MaxFaults = 0
  MaxAttempts = 1
INVARIANT CancelledIsRefunded
CHECK_DEADLOCK FALSE
