SPECIFICATION Spec
CONSTANTS
  Name <- MCName
  LowerCase <- MCLowerCase
  Class <- MCClass
  SpaceFollows = {TRUE, FALSE}
  ModuleLocals = FALSE
  MaxUnits = 4
  MaxDepth = 1
  MaxIds = 4
INVARIANTS NamesAreLexical UpvalueTablesOK ForwardReferencesAreDefined
CHECK_DEADLOCK FALSE
