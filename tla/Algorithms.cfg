SPECIFICATION MCSpec
CONSTANTS
  Rows = 6
  Columns = 3
  Starts <- TwoToOne
  MaxIndex = 2
  PageEntries = 2
  Values <- SomeValues
  Streams <- SomeStreams
  MaxStores = 2
  Nodes = {1, 2, 3, 4, 5}
  Games <- SomeGames
  StoredDtm <- SomeDtm
  MaxPly = 4
INVARIANTS
  PredecessorsInvert
  GeneratorsAgree
  IndexIsOneToOne
  ValuesAreReady
  ReadsBack
  LineIsPromised
CHECK_DEADLOCK FALSE
