SPECIFICATION Spec
CONSTANTS
  PRs = {"o/r#1"}
  Names = {"build", "lint", "test"}
  Urls = {"u"}
  NoUrl = ""
  Worlds <- ProbeWorlds
  LossSets <- ProbeLosses
  Budgets <- ProbeBudgets
  Timeout = 60
  Latencies = {0, 1}
  Faults = {"error"}
INVARIANTS
  TypeOK
  NoFalseGreen
  Bounded
  UndecidedNeverGreen
  TokensOfTheAnswerHeld
PROPERTIES
  DecidedIsFinal
  KeepsPromise
CHECK_DEADLOCK FALSE
