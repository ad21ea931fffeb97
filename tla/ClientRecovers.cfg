SPECIFICATION FairSpec
CONSTANTS
  Users = {alice, bob}
  Accounts = {alice}
  NULL = NULL
  MaxAttempts = 1
  Patient = TRUE
  MaxLosses = 1
  MaxConnects = 2
  MaxTexts = 0
  MaxSends = 0
PROPERTIES Recovers
CHECK_DEADLOCK FALSE
