SPECIFICATION Spec
CONSTANTS
  N = 2
  Ori = Ori
  a1 = a1
  a2 = a2
  AST <- AllAST
  NumPatched = 2
  FaultSpaceEmpty = FALSE
  RejectionIsFatal = FALSE
INVARIANTS TypeOK NoPrematureAbort OneOutstanding PatchesConserved RandomNeverEmpty NoIdenticalPatches
PROPERTY KeepsPromise
CONSTANT MaxExits = 0
SYMMETRY MutantSymmetry
