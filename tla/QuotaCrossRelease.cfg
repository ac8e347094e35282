SPECIFICATION Spec
CONSTANTS
  Calls = {c1, c2}
  Limit = 4
  Estimates = {2, 3}
  MaxDay = 0
  Backed = {c1, c2}
  MaxCrashes = 0
INVARIANTS
  UnchargedMeansUnspent
