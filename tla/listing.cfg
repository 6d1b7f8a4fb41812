CONSTANTS
  Keys <- MCKeys
  KeyPrefixes <- MCPrefixes
  Delimiters <- MCDelimiters
  NoDelimiter = 0
  Asked <- MCAsked
  Limit = 2
  Backends = {"disk", "memory"}
  MaxChanges = 1
SPECIFICATION LiveSpec
INVARIANTS NothingMissed NothingTwice
PROPERTIES SessionEnds
CHECK_DEADLOCK FALSE
