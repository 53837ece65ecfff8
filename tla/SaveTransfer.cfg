SPECIFICATION FairSpec
CONSTANTS
  g1 = g1
  g2 = g2
  g3 = g3
  Games = {g1, g2, g3}
  SaveChunks <- Sizes
  Chunks = {a, b}
  Torn = Torn
  Absent = Absent
  NoGame = NoGame
  CacheChunks = 2
  FlashErrors = {"open", "write", "remove"}
  Interleaves = FALSE
INVARIANTS
  TypeOK
  SavesWhole
  InStep
PROPERTIES
  ImplementsService
  TransferEnds
