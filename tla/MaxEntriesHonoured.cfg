SPECIFICATION Spec
CONSTANTS
  Words <- MCWords
  parse <- MCParse
  value_parser <- MCValueParser
  MaxArgs = 6
INVARIANTS
  MaxEntriesHonoured
CHECK_DEADLOCK FALSE
