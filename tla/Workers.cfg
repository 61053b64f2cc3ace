SPECIFICATION MCSpec
CONSTANTS
  ThreadCount = 2
  WordBits = 2
  PageWords = 1
  Positions = 7
  Layers = 2
  Sources <- SomeSources
  Marks <- SomeMarks
  Records = {0, 1}
  Distances = {1, 2}
  Ranges <- SomeRanges
  BlockRecords = 2
  BlockSizes = {1, 2}
  FileSize = 3
  MaxRecords <- ThreeAndOne
  Slice = {"a", "b"}
  MergedPositions = 5
  PerPage = 2
  Threads = 4
  Rankings <- AllRankings
  Faults = {TRUE, FALSE}
INVARIANTS
  MaximumIsReached
  EveryCandidateOnce
  MarksAreRight
  MergeIsRight
PROPERTY RefinesStreams
CHECK_DEADLOCK FALSE
