SPECIFICATION MCSpec
CONSTANTS
  FunctionNames <- MCFunctionNames
  MAX_ARG_NUM = 3
  Depth = 2
INVARIANTS  CodeReadsBack LoopGivesTheText PartsOfTheText
CHECK_DEADLOCK FALSE
