SPECIFICATION Spec
CONSTANTS
  Sessions <- MCNoted
INVARIANTS
  CellsFit
