CONSTANTS
  Elements <- MCElements
  TableD <- MCTableD
  Handles <- MCHandles
  Scenarios <- MCScenarios
  Lists <- MCLists
  Hasty = FALSE
SPECIFICATION Spec
CHECK_DEADLOCK FALSE
INVARIANTS DecodedRight PackedRight KeysRight
