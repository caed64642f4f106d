SPECIFICATION Spec
CONSTANTS
  PRs = {"o/r#1"}
  Names = {"build", "lint", "test"}
  Urls = {"u"}
  NoUrl = ""
  Worlds <- QueueWorlds
  LossSets <- SilentLoss
  Budgets = {0}
  Timeout = 60
  Latencies = {0}
  Faults = {}
INVARIANTS
  SilentLossIsIgnorable
CHECK_DEADLOCK FALSE
