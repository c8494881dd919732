SPECIFICATION FairSpec
CONSTANTS
  Patches = {p1, p2}
  NumFiles = 2
  MaxTests = 2
  Limit = 1
  NoInfo = NoInfo
  Findings = {1}
  Covered <- SomeCovered
  Modified <- SomeModified
INVARIANTS TypeOK LoadBounded FilterExact OutcomesPaired DetectInv
PROPERTY DetectionsEnd
CHECK_DEADLOCK FALSE
