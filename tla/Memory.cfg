SPECIFICATION MCSpec
CONSTANTS
  Table = {"a", "b", "c"}
  Thread = {"w1", "w2"}
  Full <- ThreeTables
  Initial = 2
  Floor = 1
  MaxDatabase = 3
  Budget = 7
  Headroom = 2
  HighWater = 5
  MaxStep = 2
  Bootstrap = 2
  Configs <- Settings
  Faults = TRUE
  Prober = {"w1", "w2"}
  SlotPage = {"A", "B"}
  Words = 2
  SeqMax = 5
  Survivor = "w1"
  Pages = 5
  Worker = {"w1", "w2"}
  AskedSizes = {2, 3, 4, 6}
  Owner <- HalfAndHalf
  PageLength = 2
INVARIANTS
  MemoryIsFunded
  HitIsRight
PROPERTIES
  Answers
  ResizeKeepsPages
CHECK_DEADLOCK FALSE
