\* fs_read against the chain of a file of two sectors.
SPECIFICATION Spec
CONSTANTS
  zero = zero
  junk = junk
  x = x
  y = y
  FatName <- TwoNames
  NoName = NoName
  StemSize = 2
  ExtSize = 1
  Dot = "."
  Blank = " "
  UpperOf <- Capitals
  Char <- Characters
  MaxClusters = 6
  LastOnDevice = 5
  RootEntries = 2
  SectorSize = 2
  FatStart = 1
  Byte <- SomeBytes
  Zero = zero
  Junk = junk
  Texts <- TwoTexts
  MaxFileSize = 2
  MaxLength = 3
  MaxReadBack = 2
  MaxCrashes = 0
  TornDeletes = FALSE
INVARIANT ReadsBack
