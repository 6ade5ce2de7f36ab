SPECIFICATION NoFuelSpec
CONSTANTS
  HostThread = {h1}
  ScriptThread = {t1,t2,t3}
  NULL = NULL
  RootEscapes = FALSE
  MaxFrames = 1
  MaxStray = 2
  MaxOps = 0
SYMMETRY Symmetry
INVARIANTS TypeOK CallStackOK ParkedCanBeCalled
PROPERTIES SwitchesKeepStacks ControlIsNested
CHECK_DEADLOCK FALSE
