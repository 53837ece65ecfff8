SPECIFICATION Spec
CONSTANTS
  Nothing = Nothing
  TopPage = 1
  Cartridges <- Sizes
  DataFor <- Writes
  GB_MAX_RAM_BANKS = 4
INVARIANTS
  TypeOK
  ReadyForNext
  UnsavedIsRed
PROPERTIES
  ImplementsBus
