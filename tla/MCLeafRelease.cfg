SPECIFICATION Spec
CONSTANTS
  NoBuf = NoBuf
  Plans <- HaltedPlans
  NEvals = 2
INVARIANT EverythingReleased
CHECK_DEADLOCK FALSE
