SPECIFICATION Spec
CONSTANTS
  Type <- Types
  Parent <- Parents
  Kids <- Children
  Name <- Names
  Loc <- Locs
  EtherCalls <- TransferCalls
  Specifiers <- SomeSpecifiers
  Undefined = Undefined
INVARIANTS TypeOK FaultSpaceExact DepthIsPosition WalkInv
CHECK_DEADLOCK FALSE
