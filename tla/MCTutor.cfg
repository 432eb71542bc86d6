SPECIFICATION Spec
CONSTANTS
  lab = lab
  Sections = {lab}
  Source <- MCSource
  Batch = 1
  Tries = 2
  MaxBuilds = 1
  ChunkMax = 20
  ChunkTarget = 13
  ChunkMin = 4
  Overlap = 5
  Shapes <- MCShapes
  t1 = t1
  t2 = t2
  Turns = {t1, t2}
  NoTurn = NoTurn
  TopK = 1
  MaxRetry = 2
  RecursionLimit = 12
  MaxCrashes = 1
INVARIANTS
  EvidenceIsForThisTurn
  HistoryIsGuarded
  LoopEndsItself
  ReadyMeansWhole
  CutIsFaithful
SYMMETRY Overlapping
CHECK_DEADLOCK FALSE
