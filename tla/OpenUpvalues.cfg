SPECIFICATION Spec
CONSTANTS
  t1 = t1
  t2 = t2
  no = no
  yes = yes
  Thread <- MCThread
  Value <- MCValue
  Needs <- MCNeeds
  Junk = Junk
  Regions = 3
  REGION = 8
  MaxFrames = 4
  MaxUpvalues = 3
  MaxVars = 4
SYMMETRY Symmetric
INVARIANT UpvaluesOK
PROPERTY VariablesAreCells
CHECK_DEADLOCK FALSE
