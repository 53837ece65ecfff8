SPECIFICATION Spec
CONSTANTS
  Names <- MCNames
  Images = {imgA, imgB}
  NoImage = NoImage
  Blank = Blank
  Garbage = Garbage
  NoFile = NoFile
  EmptyFile = EmptyFile
  MaxBanks = 3
  MaxBanksPerRom = 2
  MaxRoms = 2
  ChunksPerBank = 2
  RomSizes <- MCRomSizes
  HostRestarts = TRUE
  HostInterleaves = FALSE
  FsErrors = TRUE
SYMMETRY ImageSymmetry
VIEW RestartsView
INVARIANTS
  StoredRomsIntact
  BitmapCoversUse
  BanksNotShared
