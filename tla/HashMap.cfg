SPECIFICATION LoopSpec
CONSTANTS
  Key <- MCKey
  Hash <- MCHash
  Value = {v1, v2}
  UNDEFINED = UNDEFINED
  MinCapacity = 2
  GrowFactor = 2
  LoadNum = 4
  LoadDen = 5
  MaxCapacity = 8
  ShadowedStores = FALSE
  MaxBody = 2
INVARIANTS TableOK LoopGivesTheKeys
PROPERTY ImplementsMap
CHECK_DEADLOCK FALSE
