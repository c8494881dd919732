SPECIFICATION Spec
CONSTANTS
  Props <- AllProps
  ArrayProps <- Arrays
  OriKind <- BodyKind
  OriKids <- BodyKids
  OriPaths <- BodyPaths
  MutationTypes <- AllTypes
  MaxMutations = 4
  MaxFaults = 3
INVARIANTS TypeOK FaultsResolve ReverseTracks RebaseTracks OnePlace MoveAsDrawn
PROPERTIES KeepsUndisturbed Shrinks
CHECK_DEADLOCK FALSE
