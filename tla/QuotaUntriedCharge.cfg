SPECIFICATION Spec
CONSTANTS
  Calls = {c1, c2}
  Limit = 4
  Estimates = {2, 3}
  MaxDay = 0
  Backed = {}
  MaxCrashes = 0
INVARIANTS
  ChargedMeansTried
