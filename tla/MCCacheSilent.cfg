SPECIFICATION Spec
CONSTANTS
  Savers = {"p"}
  Loaders = {"r"}
  Versions = {"a", "b"}
  Oversized = {}
  OldFormat = {}
  Lives <- MCLives
  Content <- MCContent
  Pieces <- MCPieces
  None = None
INVARIANT EmptyMeansNoDrift
