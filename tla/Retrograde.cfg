SPECIFICATION MCSpec
CONSTANTS
  Index = {1, 2, 3}
  MaxWin = 5
  Worker = {"w1", "w2"}
  Owner <- TwoOwners
  Games <- SomeGames
  Faults = TRUE
INVARIANTS
  TypeOK
  NoConflict
  GivesUpOnlyBeyondRange
  CompiledIsConsistent
PROPERTY
  Terminates
