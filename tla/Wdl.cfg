SPECIFICATION MCSpec
CONSTANTS
  Process = {"reader", "converter"}
  Converters = {"converter"}
  Threads <- TwoAndOne
  PageTotal = 3
  BatchPages = 2
  Draws = "draws"
  Packed <- TwoVersions
  SizeOf <- Sizes
  Trained = {2}
  CachePages = 2
  NoFile = NoFile
  NoHandle = NoHandle
  Thread = {"t"}
  Material = {"m1", "m2"}
  Hash <- SomeHashes
  PagesOf <- SomePages
  Image <- SomeImages
  Address = {1, 2, 3}
  CacheSizes = {1, 3}
  Versions = {1, 2}
  NoTable = NoTable
INVARIANTS
  FileIsPacked
  LookupIsRight
PROPERTY RefinesTable
