SPECIFICATION ServiceSpec
CONSTANTS
  Subs = {s1}
  Members = {}
  MaxCycle = 2
  Queues <- PaymentQueues
  Faults = {"redelivery", "crash", "lostAnswer", "cancelFails"}
  MaxFaults = 1
  Instances = {i1, i2}
  MaxAttempts = 2
  NoSub = NoSub
INVARIANTS
  BooksBacked
  TakenIsPursued
  NoCycleSkipped
PROPERTIES
  ImplementsContract
  FirstPaymentSettles
  RefundFollowsCancel
  DueIsBilled
CHECK_DEADLOCK FALSE
