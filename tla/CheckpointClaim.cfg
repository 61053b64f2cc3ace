SPECIFICATION Spec
CONSTANTS
  Material = {"low", "high"}
  Order <- TwoTables
  Needs <- HighNeedsLow
  Positions = 3
  PageEntries = 2
  ChunkPages = 1
  Pauses = {0, 1}
  FlawSets <- OneFlaw
  MaxVersion = 1
  MaxStops = 1
  EarlyReplace = TRUE
INVARIANT VerifiedIsConsistent
