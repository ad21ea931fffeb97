SPECIFICATION Spec
CONSTANTS
  s1 = s1
  s2 = s2
  alice = alice
  bob = bob
  NULL = NULL
  Sessions <- Two
  Users <- Both
  NamesOf <- Shared2
  Accounts <- OnlyAlice
  MaxAttempts = 3
  Cautious = FALSE
  UidGarbage <- AnyUid
  PingGarbage <- NoPing
  FreeOutcomes <- AnyFree
  MaxRounds = 0
  MaxTexts = 1
  MaxCommands = 1
INVARIANTS TypeOK AccountsExist EntriesLive OneEntryPerUser ConnectionsNotShared ReadyReachable DeliveredToAddressee
CHECK_DEADLOCK FALSE
