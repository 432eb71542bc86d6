SPECIFICATION EvaluationSpec
CONSTANTS
  NoFile = NoFile
  NoEval = NoEval
  NoAnswer = NoAnswer
  Files <- MCFiles
  InitialDocs <- MCDocs
  NewParts <- MCNewParts
  InitialItems <- MCInitialItems
  NewItems <- MCNewItems
  Answers <- MCAnswers
  MaxChars = 3
  MaxEdits = 1
  MaxRuns = 2
INVARIANTS
  CutsAreWhole
  ProvenanceIsTrue
  RescoringIsComparable
  CheckedItemsCanPass
CHECK_DEADLOCK FALSE
