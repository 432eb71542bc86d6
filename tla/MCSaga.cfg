SPECIFICATION Spec
CONSTANTS
  s1 = s1
  m1 = m1
  Subs = {s1}
  Members = {m1}
  OwnerOf <- Owners
  MaxCycle = 2
  Instances = {i1}
  NoSub = NoSub
  NoEvent = NoEvent
  Queues <- AllQueues
  Faults = {"redelivery", "crash", "cancelFails"}
  MaxFaults = 1
  MaxAttempts = 1
INVARIANTS
  NoServiceWithoutPayment
  EndHasCause
PROPERTIES
  PendingResolves
  ActivationGrants
  WithdrawalCancels
CHECK_DEADLOCK FALSE
