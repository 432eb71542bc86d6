SPECIFICATION Spec
CONSTANTS
  Faults = {"crash", "agentStops", "lostAnswer", "badDocs"}
  MaxFaults = 2
  Ids = {"k1", "g1"}
  Known = {"k1"}
  Texts <- MCTexts
  MaxPiece = 3
  Retries = 1
  MaxAttempts = 2
  HasKey = TRUE
INVARIANTS
  LeftoverHasCause
  ShownIsOneAnswer
  GhostIsFlagged
PROPERTY
  ListedInTheEnd
