SPECIFICATION FairSpec
CONSTANTS
  s1 = s1
  s2 = s2
  alice = alice
  bob = bob
  NULL = NULL
  Sessions <- Two
  Users <- Both
  NamesOf <- Shared2
  Accounts <- OnlyAlice
  MaxAttempts = 3
  Cautious = TRUE
  UidGarbage <- NullUid
  PingGarbage <- NoPing
  FreeOutcomes <- FreeSurvives
  MaxRounds = 1
  MaxTexts = 0
  MaxCommands = 0
PROPERTIES KickedIsRemoved
CHECK_DEADLOCK FALSE
