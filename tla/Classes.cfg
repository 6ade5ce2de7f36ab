SPECIFICATION Spec
CONSTANTS
  Sign <- MCSign
  Primitive <- MCPrimitive
  New <- MCNew
  MAX_FIELD_NUM = 2
  BYTE = 4
  BlockFields = FALSE
  ManyFields = FALSE
  EarlyStatics = FALSE
  InitStatics = FALSE
  MaxClasses = 3
  MaxMembers = 3
INVARIANTS CallsFollowHierarchy FieldsAreOwn DefinitionsTakeEffect
CHECK_DEADLOCK FALSE
