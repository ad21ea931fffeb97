SPECIFICATION FairSpec
CONSTANTS
  Chars <- MCChars
  Lines <- MCLines
  ScreenSize = 2
  MaxLines = 2
  MaxPings = 2
  MaxSends = 1
INVARIANTS TypeOK ParsedAsWritten ScreenInOrder AlarmFounded
PROPERTIES PingAnswered
CHECK_DEADLOCK FALSE
