SPECIFICATION MSpec
CONSTANTS
  Ln <- Logs
  Names <- MCNames
  Tree <- DocOf
  Pairs <- MCPairs
INVARIANTS
  MTypeOK
  OldMatchSound
  NewMatchSound
  NoAbort
  QueueUntouched
  MatchesAgree
  SubTreesWhole
  NewSideWhole
  OldSideWhole
  KeptLeavesSame
  EqualUnchanged
PROPERTIES
  OptimiseOnlyAdds
