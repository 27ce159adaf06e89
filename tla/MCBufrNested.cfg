CONSTANTS
  Elements <- MCElements
  TableD <- MCTableD
  Handles <- MCHandles
  Scenarios <- NestedScenarios
  Lists <- MCLists
  Hasty = FALSE
SPECIFICATION Spec
CHECK_DEADLOCK FALSE
INVARIANTS DecodedRight
