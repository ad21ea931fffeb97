SPECIFICATION Spec
CONSTANTS
  h1 = h1
  h2 = h2
  h3 = h3
  router = router
  NULL = NULL
  Handlers <- MCHandlers
  Others <- MCOthers
  Uids <- MCUids
  UidOf <- MCUidOf
  HashSize = 2
  Base = 4
  UlongMax = 7
  MaxLen = 4
  SizeMod = 8
INVARIANTS TypeOK OneEntryPerUid CountExact IterationComplete
PROPERTIES ImplementsRegistry
