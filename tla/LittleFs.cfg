SPECIFICATION Spec
CHECK_DEADLOCK FALSE
SYMMETRY NameSymmetry
CONSTANTS
  Names = {f, g}
  NoName = NoName
  Units = {a, b}
  BlockCount = 5
  Slots = 2
  BlockUnits = 2
  InlineMax = 1
  Lookahead = 2
  Seeds = {0, 3}
  MaxUnits = 3
  MaxCalls = 3
  MaxCuts = 2
INVARIANTS
  TypeOK
  BlocksNotShared
PROPERTY
  ImplementsFileStore
