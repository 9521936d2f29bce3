SPECIFICATION FairSpec
CONSTANTS
  NoBuf = NoBuf
  Plans <- AllPlans
  NEvals = 2
INVARIANTS
  DerivedTableIsValid
  NeverThrows
  StoreIsComplete
  IntermediatesReleased
PROPERTIES
  StoredValueStands
  NoWriteIntoHeldBuffer
  ImplementsEvaluation
CHECK_DEADLOCK FALSE
