SPECIFICATION Spec
CONSTANTS
  Elements <- MCElements
  Inputs <- MCInputs
  Fallible <- Allocations
INVARIANTS
  FailureReported
