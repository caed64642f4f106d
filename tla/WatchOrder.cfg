SPECIFICATION Spec
CONSTANTS
  PRs = {"o/r#1"}
  Names = {"build", "lint"}
  Urls = {"u"}
  NoUrl = ""
  Births <- TwinnedPR
  Facets <- CheckFacets
  Outcomes <- TwinOutcomes
  MaxThreads = 0
  MaxBehind = 0
  OneRound = FALSE
  LossSets <- NoLoss
  Orders <- AnyOrder
INVARIANTS
  OrderNeverWakes
CHECK_DEADLOCK FALSE
