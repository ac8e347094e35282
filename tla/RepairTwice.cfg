SPECIFICATION RepairSpec
CONSTANTS
  Symbols = {"AMD", "SNDK", "SDNK", "BOB"}
  NameLike = {"BOB"}
  Near <- MCNear
  Tables <- MCTables
  MaxEdits = 0
INVARIANTS
  ScrubsIdempotently
