SPECIFICATION ListSpec
CONSTANTS
  Value = {v1, v2}
  Junk = Junk
  None = None
  GrowFactor = 2
  MaxCount = 6
  Wrap = 16
INVARIANTS ListTypeOK ElementsAreStored BufferFollowsCount
PROPERTIES ImplementsList IterateStaysInList
CHECK_DEADLOCK FALSE
