SPECIFICATION Spec
CONSTANTS
  m1 = m1
  m2 = m2
  Malformed = Malformed
  NoModel = NoModel
  Catalog <- MCCatalog
  Models <- MCModels
  Requests <- MCRequests
  CallAttempts = 2
  MaxAttempts = 2
  Timeout = 2
  Deadline = 5
  MaxSelected = 3
  MaxParts = 1
INVARIANT
  StreamEndsWithResultOrError
