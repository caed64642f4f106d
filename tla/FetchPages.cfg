SPECIFICATION FairSpec
CONSTANTS
  PRs = {"o/r#1", "o/r#2", "o/r#3"}
  Names = {"build", "lint", "test"}
  Urls = {"u"}
  NoUrl = ""
  Worlds <- PagedWorlds
  LossSets <- NoLoss
  Budgets = {3}
  Timeout = 9
  Latencies = {0, 4}
  Faults = {"error", "null"}
INVARIANTS
  NoFalseGreen
  PagesAccountedFor
PROPERTIES
  Terminates
CHECK_DEADLOCK FALSE
