SPECIFICATION AllSpec
CONSTANTS
  t1 = t1
  t2 = t2
  init = init
  c = c
  NoThread = NoThread
  NoMap = NoMap
  Thread <- MCThread
  Stat <- MCStat
  Arbitrary = "Arbitrary"
  Ctx <- MCCtx
  Initial = init
  Scopes <- MCScopes
  Modify <- MCModify
  MaxScopes = 2
  MaxGeneration = 3
  None = None
  Reader = {t1, t2}
  Contexts = {1, 2}
  Address = {1, 2}
  Setting = {1}
  MaxObjects = 3
  MaxVersions = 3
INVARIANTS
  CacheIsCurrent
  VersionsIdentifyConfigurations
PROPERTY ImplementsContextRegister
