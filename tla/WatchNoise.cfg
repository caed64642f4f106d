SPECIFICATION FairSpec
CONSTANTS
  PRs = {"o/r#1"}
  Names = {"build", "lint"}
  Urls = {"u"}
  NoUrl = ""
  Births <- NoisyPRs
  Facets <- NoisyFacets
  Outcomes <- ThreeOutcomes
  MaxThreads = 0
  MaxBehind = 2
  OneRound = FALSE
  LossSets <- SomeLoss
  Orders <- AnyOrder
INVARIANTS
  NothingSleptThrough
PROPERTIES
  NoiseWakesNobody
  GreenIsActedOn
CHECK_DEADLOCK FALSE
