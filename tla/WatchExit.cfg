SPECIFICATION Spec
CONSTANTS
  PRs = {"o/r#1", "o/r#2"}
  Names = {"build", "lint"}
  Urls = {"u"}
  NoUrl = ""
  Births <- ReadableOrPoorlySeen
  Facets <- ExitFacets
  Outcomes <- ThreeOutcomes
  MaxThreads = 1
  MaxBehind = 1
  OneRound = TRUE
  LossSets <- ExitLoss
  Orders <- InOrder
INVARIANTS
  TypeOK
  ExitMeansWhatItSays
  LossNeverGreens
CHECK_DEADLOCK FALSE
