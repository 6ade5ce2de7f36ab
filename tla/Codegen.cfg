SPECIFICATION Spec
CONSTANTS
  BYTE = 20
  NoName = NoName
  Name = {a, b}
  Units = {TRUE, FALSE}
  ModuleLocals = FALSE
  MaxStatements = 5
  MaxPlain = 2
SYMMETRY Symmetry
INVARIANTS LocalsAreLexical StackOK NoOpenUpvalueLost CodeOK
