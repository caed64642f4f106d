SPECIFICATION Spec
CONSTANTS
  PRs = {"o/r#1"}
  Names = {"build", "lint"}
  Urls = {"u"}
  NoUrl = ""
  Births <- ShadowedPR
  Facets <- CheckFacets
  Outcomes <- TwinOutcomes
  MaxThreads = 0
  MaxBehind = 0
  OneRound = FALSE
  LossSets <- NoLoss
  Orders <- InOrder
INVARIANTS
  RequiredFailureIsListed
CHECK_DEADLOCK FALSE
