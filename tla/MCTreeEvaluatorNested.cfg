SPECIFICATION Spec
CONSTANTS
  Extent = {1, 2}
  Antisymm <- MCAntisymm
  Programs <- NestedPrograms
  VolatileLeaves <- MCVolatile
  Versions <- MCVersions
  MinRepeats = 1
  MaxEvaluations = 1
INVARIANT InPlaceExclusive
CHECK_DEADLOCK FALSE
