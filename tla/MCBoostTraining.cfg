SPECIFICATION FairSpec
CONSTANTS
  Instances <- MCTwo
  N = 3
  Null = Null
  a = a
  b = b
CHECK_DEADLOCK FALSE
INVARIANTS Aligned OnlyFirstFilled
PROPERTIES ConstructorsReturn ImplementsEnsemble
