SPECIFICATION Spec
CONSTANTS
  n1 = n1
  n2 = n2
  p1 = p1
  p2 = p2
  Names <- MCNames
  Pwds <- MCPwds
  Length <- MCLength
  READ_BUFFER_SIZE = 1024
  MSG_BUF_SIZE = 1024
  MaxSessions = 2
  MaxClicks = 2
  MaxOdd = 1
SYMMETRY Symmetry
INVARIANTS TypeOK OwnAccount CrashesInKnownWays
CHECK_DEADLOCK FALSE
