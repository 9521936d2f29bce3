SPECIFICATION FairSpec
CONSTANTS
  NoBuf = NoBuf
  Plans <- TwoExternalsPlans
  NEvals = 1
PROPERTY ImplementsEvaluation
CHECK_DEADLOCK FALSE
