SPECIFICATION MLiveSpec
CONSTANTS
  Ln <- Logs
  Names <- FewNames
  Tree <- DocOf
  Pairs <- FewPairs
PROPERTIES
  Terminates
