SPECIFICATION ProcessesSpec
CONSTANTS
  Watchers = {w1, w2}
  max_pid = 3
  MaxFound = 3
  MaxEvents = 2
  CodeSizes = {8, 12, 24}
  Mapped = 3
  kDefaultCapacity = 16
  Sizes = {3, 40}
  MaxCalls = 2
INVARIANTS DeliveredInOrder LossesBalanced LeftAsFound
PROPERTIES WatchReturns DamageStays
CHECK_DEADLOCK FALSE
