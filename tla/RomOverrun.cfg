SPECIFICATION Spec
CONSTANTS
  Names <- MCNames
  Images = {imgA, imgB}
  NoImage = NoImage
  Blank = Blank
  Garbage = Garbage
  NoFile = NoFile
  EmptyFile = EmptyFile
  MaxBanks = 4
  MaxBanksPerRom = 2
  MaxRoms = 2
  ChunksPerBank = 2
  RomSizes <- MCRomSizes
  HostRestarts = TRUE
  HostInterleaves = FALSE
  FsErrors = TRUE
SYMMETRY ImageSymmetry
INVARIANT
  AllocationSucceeds
