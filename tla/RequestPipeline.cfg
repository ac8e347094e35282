SPECIFICATION FairSpec
CONSTANTS
  Messages = {m1, m2}
  Keys = {k}
  Key <- MCKey
  MaxTroubles = 2
  None = None
INVARIANTS
  SilenceHasCause
PROPERTIES
  RequestsAreSafe
  HandlersEnd
  BarsGo
