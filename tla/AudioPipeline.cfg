SPECIFICATION Spec
CONSTANTS
  a = a
  b = b
  c = c
  Els <- MCEls
  Chains <- MCChains
  Rings = {1, 2, 3}
INVARIANT Connected
INVARIANT WritersHost
PROPERTY KeptAndEmpty
CHECK_DEADLOCK FALSE
