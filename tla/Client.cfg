SPECIFICATION FairSpec
CONSTANTS
  Users = {alice, bob}
  Accounts = {alice}
  NULL = NULL
  MaxAttempts = 3
  Patient = FALSE
  MaxLosses = 2
  MaxConnects = 2
  MaxTexts = 1
  MaxSends = 1
INVARIANTS TypeOK PromptsAgree SessionAgrees
PROPERTIES PromptComes
CHECK_DEADLOCK FALSE
