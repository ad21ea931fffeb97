SPECIFICATION FairSpec
CONSTANTS
  Threads = {"main", "cli", "info"}
  Files = {"server", "system", "requests", "clients"}
  NULL = NULL
  Unreliable = {"system"}
  MaxLogFiles = 4
  MaxRetries = 1
  Keys = {k1, k2}
  NumTables = 2
  MaxDbAttempts = 2
  MaxBindAttempts = 2
  CoreCounts = {1, 2, 4}
  Contended = {"server"}
  MaxFaults = 2
INVARIANTS TypeOK LogConsistent ServesOwnCertificate EarlyLines
PROPERTIES PairKept LogReturns Recovers
