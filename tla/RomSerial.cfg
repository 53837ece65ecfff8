SPECIFICATION LiveSpec
CONSTANTS
  Names <- MCNames
  Images = {imgA}
  NoImage = NoImage
  Blank = Blank
  Garbage = Garbage
  NoFile = NoFile
  EmptyFile = EmptyFile
  MaxBanks = 3
  MaxBanksPerRom = 2
  MaxRoms = 2
  ChunksPerBank = 2
  RomSizes <- MCRomSizes
  HostRestarts = FALSE
  HostInterleaves = FALSE
  FsErrors = TRUE
INVARIANTS
  TypeOK
  AllocationSucceeds
  NoOrphanSave
  RunningGameIsWhole
PROPERTIES
  UploadFinishes
  ImplementsLibrary
