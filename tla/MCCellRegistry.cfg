SPECIFICATION Spec
CONSTANTS
  NoBuf = NoBuf
  b1 = b1
  b2 = b2
  b3 = b3
  Ids <- MCIds
  Desc <- Entries
  Vids <- MCVids
  Loops <- MCLoops
  Bufs <- MCBufs
  MaxSize = 2
  MaxBatch = 1
  MaxEvals = 2
SYMMETRY Sym
INVARIANTS
  LedgerExact
  NoStaleBatch
  OwnedIsPrivate
  LiveBytesExact
PROPERTY ReleasedOnlyWhenDone
CHECK_DEADLOCK FALSE
