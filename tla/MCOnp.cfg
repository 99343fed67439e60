SPECIFICATION Spec
CONSTANTS
  Elements <- MCElements
  Inputs <- MCInputs
  Fallible <- Allocations
INVARIANTS
  Inside
PROPERTIES
  Implements
  Returns
