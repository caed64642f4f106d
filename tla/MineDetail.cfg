SPECIFICATION Spec
CONSTANTS
  PRs = {1, 2, 3}
  Names = {"build", "lint", "test"}
  Urls = {}
  NoUrl = NoUrl
  Worlds <- MineWorlds
  Boards <- MineBoards
  Limit = 4
  ChunkSize = 2
  MaxMoves = 0
  ErrorSets <- NoError
  DetailLosses <- MaimedOnly
INVARIANTS
  LostDetailIsTold
