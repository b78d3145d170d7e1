SPECIFICATION StatSpec
CONSTANTS
  Attributes = {1, 2}
  Collectors <- MCCollectors
  MaxValue = 1
  MaxTicks = 5
  MaxQueries = 2
INVARIANT ChangeReported
CHECK_DEADLOCK FALSE
