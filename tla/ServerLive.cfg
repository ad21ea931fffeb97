SPECIFICATION FairSpec
CONSTANTS
  s1 = s1
  s2 = s2
  alice = alice
  bob = bob
  NULL = NULL
  Sessions <- Two
  Users <- Both
  NamesOf <- Shared2
  Accounts <- Both
  MaxAttempts = 2
  Cautious = TRUE
  UidGarbage <- NullUid
  PingGarbage <- AnyPing
  FreeOutcomes <- FreeSurvives
  MaxRounds = 1
  MaxTexts = 0
  MaxCommands = 0
PROPERTIES LeavesEventually QueueDrains
CHECK_DEADLOCK FALSE
