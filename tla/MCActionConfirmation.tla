------------------------- MODULE MCActionConfirmation -------------------------
EXTENDS ActionConfirmation, TLC

Symmetry == Permutations(Users) \cup Permutations(Channels) \cup Permutations(Proposals)
              \cup Permutations(Confirms)
==============================================================================
