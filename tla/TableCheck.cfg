SPECIFICATION MCSpec
CONSTANTS
  Index = {1, 2, 3}
  MaxWin = 3
  Worker = {"w1", "w2"}
  Owner <- TwoOwners
  Chunk = 1
  Games <- GamesThree
  FinishGames <- TwoOfThree
  Compiled <- CompiledTables
  StartTables <- DamagedTables
  Faults = TRUE
INVARIANTS
  HistogramExact
  RepairedIsConsistent
  VerdictIsRight
  ExamplesExact
  PublishedIsConsistent
PROPERTIES
  RepairTerminates
  Finishes
