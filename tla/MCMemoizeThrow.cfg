SPECIFICATION MemoSpec
CONSTANTS
  t1 = t1
  t2 = t2
  t3 = t3
  t4 = t4
  NoValue = NoValue
  Caller <- Three
  Key = {1}
  CanThrow = TRUE
PROPERTY EveryCallReturns
