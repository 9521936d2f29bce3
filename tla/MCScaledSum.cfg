SPECIFICATION GenerationSpec
CONSTANTS
  Undefined = Undefined
  Exports <- ScaledSum
  Prunable = {{"constant", "variable"}, {"constant"}, {}}
  Values <- MCValues
INVARIANT CodeComputesEquations
CHECK_DEADLOCK FALSE
