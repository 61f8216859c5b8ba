CONSTANTS
  Chars = {"a", "nl"}
  NL = "nl"
  PipeSize = 2
  BufLen = 3
  MaxOutput = 5
  MaxFds = 5
  MaxCalls = 3
SPECIFICATION Spec
CHECK_DEADLOCK FALSE
INVARIANTS
  FdsBalanced
PROPERTIES
  ImplementsCommand
  CallReturns
