SPECIFICATION Spec
CONSTANTS
  Patches = {p1, p2}
  NumFiles = 2
  MaxTests = 2
  Limit = 1
  NoInfo = NoInfo
  Findings = {1}
  Covered <- SomeCovered
  Modified <- SomeModified
INVARIANT OutcomePerFile
CHECK_DEADLOCK FALSE
