SPECIFICATION Spec
CONSTANTS
  PRs = {"o/r#1"}
  Names = {"build", "lint", "test"}
  Urls = {"u"}
  NoUrl = ""
  Worlds <- LaggingWorlds
  LossSets <- NoLoss
  Budgets = {0, 16}
  Timeout = 60
  Latencies = {0}
  Faults = {}
INVARIANTS
  UnknownMergeStateNeverGreen
CHECK_DEADLOCK FALSE
