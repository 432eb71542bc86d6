SPECIFICATION ServiceSpec
CONSTANTS
  Subs = {s1}
  Members = {}
  MaxCycle = 2
  Queues <- PaymentQueues
  Faults = {}
  MaxFaults = 0
  Instances = {i1}
  MaxAttempts = 2
  NoSub = NoSub
INVARIANT RefundedIsNotScheduled
CHECK_DEADLOCK FALSE
