SPECIFICATION Spec
CONSTANTS
  Index = {1, 2}
  MaxWin = 3
  Worker = {"w1", "w2"}
  Owner <- TwoOwners
  Games <- GamesTwo
  StartTables <- DamagedTables
  Faults = FALSE
INVARIANTS
  ReachesFixedPoint
