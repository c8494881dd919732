SPECIFICATION Spec
CONSTANTS
  N = 2
  Ori = Ori
  a1 = a1
  a2 = a2
  AST <- OneMutant
  NumPatched = 1
  FaultSpaceEmpty = FALSE
  RejectionIsFatal = FALSE
  MaxExits = 0
INVARIANT EmptyMeansExhausted
