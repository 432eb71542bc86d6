SPECIFICATION Spec
CONSTANTS
  Messages = {m1, m2}
  Relays = {r1, r2}
  Stamps = {1, 2}
  BatchSize = 2
  MaxFaults = 2
  NoMessage = NoMessage
INVARIANTS
  OnlyCommittedArrive
  MarkedHaveArrived
  OrderLostByRefusalOrClock
PROPERTY ImplementsContract
CHECK_DEADLOCK FALSE
