SPECIFICATION Spec
CONSTANTS
  Ori = Ori
  a1 = a1
  a2 = a2
  a3 = a3
  AST <- AllAST
  Patch <- Patches
  NumDetectors = 2
  MaxVul = 1
  Remaining = 0
  NumInits = {8}
  MaxSize = 2
  NumParents = 2
  NoLimit = NoLimit
  MaxTrials = {1, 2, NoLimit}
INVARIANT Serialised
CHECK_DEADLOCK FALSE
