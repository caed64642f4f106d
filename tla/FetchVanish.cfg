SPECIFICATION Spec
CONSTANTS
  PRs = {"o/r#1"}
  Names = {"build", "lint", "test"}
  Urls = {"u"}
  NoUrl = ""
  Worlds <- VanishingWorlds
  LossSets <- NoLoss
  Budgets = {0}
  Timeout = 60
  Latencies = {0}
  Faults = {}
INVARIANTS
  UnreadPagesNeverGreen
CHECK_DEADLOCK FALSE
