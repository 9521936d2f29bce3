SPECIFICATION AllSpec
CONSTANTS
  t1 = t1
  t2 = t2
  None = None
  NullLabel = ""
  NewLabel = {"n", "1"}
  Label <- MCLabels
  ValidLabel <- MCValid
  Reader = {t1, t2}
  Offered <- MCOffered
  Instances = {1, 2}
  Extents = {3}
  Fields = {"real"}
  Metrics = {"general"}
  Masks = {{"up"}}
  Starts <- MCStarts
  MaxCalls = 2
  MaxTables = 1
  Extent = {1, 2}
  Antisymm <- MCAntisymm
  TermData <- MCData
  Expressions <- ProductTerms
  Kind <- MCKind
  Trees <- MCTrees
  Nodes <- MCNodes
  Axes <- MCAxes
  Roots <- MCRoots
  Documents <- MCDocuments
  Address = {1, 2, 3, 4, 5, 6}
  MaxRuns = 2
  Programs <- MCPrograms
  VolatileLeaves <- MCVolatile
  Versions <- MCVersions
  MinRepeats = 1
  MaxEvaluations = 3
  Exports <- MCExports
  Prunable = {{"constant", "variable"}, {"constant"}, {}}
  Values <- MCValues
  Undefined = Undefined
  Theorems <- MCTheorems
  Products <- MCReducible
  SpaceRank <- MCSpaceRank
  IndexValues <- MCIndexValues
INVARIANTS
  EntriesConsistent
  BaseSpacesCurrent
  AlgebraOfSpaces
  TreesEvaluateExpressions
  SameNodesSameValue
  KeptWithTheirResults
  PinReplaysRecord
  ResultsRight
  CacheIsCurrent
  UsesCounted
  CodeComputesEquations
  OptimizedComputesEquations
  ContractionsExact
  ReductionExact
PROPERTIES
  FailureChangesNothing
CHECK_DEADLOCK FALSE
