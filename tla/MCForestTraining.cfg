SPECIFICATION Spec
CONSTANTS
  Forests = 2
  N = 2
  Samples = 3
  Classes = 2
  Target <- MCTarget
CHECK_DEADLOCK FALSE
INVARIANTS ForestComplete OobErrorAccounts
PROPERTY ImplementsEnsemble
