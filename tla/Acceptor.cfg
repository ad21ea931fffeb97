SPECIFICATION FairSpec
CONSTANTS
  MaxConns = 3
  MaxThreads = 7
  MaxFds = 3
  MaxEarly = 1
  NULL = NULL
INVARIANTS TypeOK OwnDescriptors  RegistryKept
PROPERTIES Admitted
CHECK_DEADLOCK FALSE
