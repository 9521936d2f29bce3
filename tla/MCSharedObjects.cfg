SPECIFICATION AllSpec
CONSTANTS
  t1 = t1
  t2 = t2
  t3 = t3
  s1 = s1
  s2 = s2
  Thread <- MCThread
  NoThread = NoThread
  MaxCalls = 2
  HasDefaultCtor = TRUE
  NPre = 2
  MaxN = 4
  Factorial <- fact
  Maker <- MCMaker
  Space <- MCSpace
  MinIndex = 1
  Taken <- MCTaken
  Caller <- MCThread
  Key = {1}
  NoValue = NoValue
  CanThrow = FALSE
  Call <- ParallelCalls
  Root = "a"
  Kind <- CallKind
  Size <- CallSize
  Nested <- NestedCalls
  NThreads = 2
INVARIANTS
  OneInstance
  FactorialsRight
  LabelsUnique
  ComputedOnce
  SeesCallersScopes
  OperationsComplete
PROPERTIES
  HeldFrozen
  MakeReturns
  MemoServes
  ParallelCallEnds
CHECK_DEADLOCK FALSE
