SPECIFICATION FairSpec
CONSTANTS
  N = 2
  Ori = Ori
  a1 = a1
  a2 = a2
  AST <- OneMutant
  NumPatched = 1
  FaultSpaceEmpty = TRUE
  RejectionIsFatal = FALSE
  MaxExits = 0
PROPERTY RandomAnswered
