SPECIFICATION FairSpec
CONSTANTS
  Ori = Ori
  a1 = a1
  a2 = a2
  a3 = a3
  AST <- AllAST
  Patch <- Patches
  NumDetectors = 2
  MaxVul = 2
  Remaining = 0
  NumInits = {1, 2, 3}
  MaxSize = 2
  NumParents = 2
  NoLimit = NoLimit
  MaxTrials = {1, 2, NoLimit}
INVARIANTS TypeOK ReportsPlausible LossBounded PopulationNotEmpty TriesCounted TrialsBounded FrontExact SearchInv
PROPERTY Ends
CONSTRAINT Representative
CHECK_DEADLOCK FALSE
