SPECIFICATION Spec
CONSTANTS
  PRs = {1, 2, 3}
  Names = {"build", "lint", "test"}
  Urls = {}
  NoUrl = NoUrl
  Worlds <- MineWorlds
  Boards <- MineBoards
  Limit = 4
  ChunkSize = 2
  MaxMoves = 1
  ErrorSets <- MineErrors
  DetailLosses <- MineLosses
INVARIANTS
  TypeOK
  RowGreenIsDeserved
  ErrorsDegradeTheirOwn
  WorstRowDecides
  WholeBoardWritten
  GreenAgrees
  AskedOnce
