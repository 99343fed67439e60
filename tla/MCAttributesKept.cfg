SPECIFICATION MSpec
CONSTANTS
  Ln <- Logs
  Names <- MCNames
  Tree <- DocOf
  Pairs <- MCPairs
INVARIANTS
  AttributesKept
