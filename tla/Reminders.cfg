SPECIFICATION FairSpec
CONSTANTS
  Count = 3
  Limit = 2
  MaxGone = 1
  MaxTime = 3
  MaxTroubles = 1
  MaxCrashes = 1
INVARIANTS
  RemindersInv
PROPERTIES
  ForgottenStaysSilent
  DueIsDelivered
