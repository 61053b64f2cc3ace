SPECIFICATION MCSpec
CONSTANTS
  Contents = {"x", "z"}
  Reserve = 2
  Disk = 9
  MaxChanges = 2
INVARIANTS
  PagesAreWhole
PROPERTY
  Refines
