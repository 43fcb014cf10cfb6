SPECIFICATION Spec
CONSTANTS
  a = a
  b = b
  Names = {a, b}
  NEntries = 2
  NClusters = 2
  MaxSize = 2
  MaxFaults = 1
  FatSector <- MCFatSector
  DirSector <- MCDirSector
SYMMETRY MCSymmetry
INVARIANTS
  MediumSound
  DataKept
