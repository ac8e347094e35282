SPECIFICATION Spec
SYMMETRY Symmetry
CONSTANTS
  Users = {u1, u2}
  Channels = {ch1, ch2}
  Proposals = {p1, p2}
  Confirms = {k1, k2}
  MaxPending = 1
  ProposalTTL = 2
  CapabilityTTL = 1
  Delays = {1}
  ConfirmTimeout = 1
  MaxTime = 4
  MaxCrashes = 1
  None = None
INVARIANTS
  ConfirmationInv
PROPERTIES
  EffectsAreDue
  NoEviction
