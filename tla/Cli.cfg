SPECIFICATION Spec
CONSTANTS
  Words <- MCWords
  parse <- MCParse
  value_parser <- MCValueParser
  MaxArgs = 6
INVARIANTS
  TypeOK
  FormsAgree
PROPERTIES
  CompleteLineStands
CHECK_DEADLOCK FALSE
