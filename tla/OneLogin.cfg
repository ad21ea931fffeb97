SPECIFICATION Spec
CONSTANTS
  s1 = s1
  s2 = s2
  alice = alice
  bob = bob
  NULL = NULL
  Sessions <- Two
  Users <- Both
  NamesOf <- Shared2
  Accounts <- OnlyAlice
  MaxAttempts = 3
  Cautious = TRUE
  UidGarbage <- AnyUid
  PingGarbage <- NoPing
  FreeOutcomes <- AnyFree
  MaxRounds = 0
  MaxTexts = 0
  MaxCommands = 0
INVARIANTS OneLoginPerUser
CHECK_DEADLOCK FALSE
