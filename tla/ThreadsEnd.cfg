SPECIFICATION FuelSpec
CONSTANTS
  HostThread = {h1,h2}
  ScriptThread = {t1,t2}
  NULL = NULL
  RootEscapes = FALSE
  MaxFrames = 2
  MaxStray = 2
  MaxOps = 6
INVARIANT FinishedNeverRuns
PROPERTY HostRegainsControl
CHECK_DEADLOCK FALSE
