SPECIFICATION Spec
CONSTANTS
  s1 = s1
  viewer = viewer
  Subs = {s1}
  Members = {owner, viewer}
  SubscriberOf <- Subscribers
  AllCourses = {c1}
  Requests = {r1, r2}
  MaxKeys = 2
  MaxCycle = 1
  Instances = {}
  NoSub = NoSub
  Nobody = Nobody
  NoKey = NoKey
  Queues <- StatusQueues
  Faults = {"redelivery", "crash"}
  MaxFaults = 1
INVARIANTS
  UploadedIsStored
  PlaybackIsEarned
SYMMETRY Threads
CHECK_DEADLOCK FALSE
