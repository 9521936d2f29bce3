SPECIFICATION Spec
CONSTANTS
  t1 = t1
  t2 = t2
  init = init
  c = c
  d = d
  NoThread = NoThread
  NoMap = NoMap
  Thread <- MCThread
  Stat <- MCStat
  Arbitrary = "Arbitrary"
  Ctx <- MCCtx
  Initial = init
  Scopes <- MCScopes
  Modify <- MCModify
  MaxScopes = 1
  MaxGeneration = 3
PROPERTY ScopedContextsAreModified
