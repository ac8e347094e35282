SPECIFICATION FairSpec
CONSTANTS
  Messages = {m1, m2}
  Keys = {k}
  Key <- MCKey
  MaxTroubles = 0
  None = None
INVARIANT
  NobodyIgnored
