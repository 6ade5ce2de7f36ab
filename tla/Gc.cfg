SPECIFICATION GcFairSpec
CONSTANTS
  Plain = {modules, o1}
  Thread = {main, t1}
  Upvalue = {u1}
  Modules = modules
  Main = main
  NULL = NULL
  MaxTmpRoots = 1
  MaxRefs = 2
CONSTRAINT SmallObjects
INVARIANTS GcTypeOK NoDangling ExactCollection
PROPERTIES LiveSurvives CollectionEnds
