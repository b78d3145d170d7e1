SPECIFICATION StatSpec
CONSTANTS
  Attributes = {1, 2}
  Collectors <- MCCollectors
  MaxValue = 1
  MaxTicks = 5
  MaxQueries = 2
PROPERTY ClassifiesLastSample
CHECK_DEADLOCK FALSE
