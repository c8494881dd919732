SPECIFICATION FairSpec
CONSTANTS
  N = 2
  Ori = Ori
  a1 = a1
  a2 = a2
  AST <- OneMutant
  NumPatched = 1
  FaultSpaceEmpty = FALSE
  RejectionIsFatal = TRUE
  MaxExits = 2
INVARIANTS RoundInv NoSurvivor NothingDiscarded DeliveryInv
PROPERTIES RoundEnds MutateAnswered
