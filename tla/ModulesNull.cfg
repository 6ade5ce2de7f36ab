SPECIFICATION Spec
CONSTANTS
  File <- MCFile
  Cli <- MCCli
  Var <- MCVar
  Text <- MCText
  MaxLines = 2
INVARIANTS ImportGivesTheValue
CHECK_DEADLOCK FALSE
