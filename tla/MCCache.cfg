SPECIFICATION Spec
CONSTANTS
  Savers = {"p", "q"}
  Loaders = {"r"}
  Versions = {"a", "b", "big", "old"}
  Oversized = {"big"}
  OldFormat = {"old"}
  Lives <- MCLives
  Content <- MCContent
  Pieces <- MCPieces
  None = None
INVARIANTS TypeOK LoadedWasSaved SavedIsLoaded DriftIsTold
