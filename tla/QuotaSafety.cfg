SPECIFICATION FairSpec
CONSTANTS
  Calls = {c1, c2}
  Limit = 4
  Estimates = {2, 3, 5}
  MaxDay = 1
  Backed = {c1}
  MaxCrashes = 1
INVARIANTS
  BooksBalance
  SpendWithinLimit
  OnlyMisjudgedAreOwed
PROPERTIES
  VerdictsAreFinal
  ExhaustedDayStaysClosed
  ImplementsLedger
  EveryReservationCloses
