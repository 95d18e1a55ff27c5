\* The file system implements the store: append and cp start from files of
\* one byte, power may fail anywhere but inside the freeing of a chain.
SPECIFICATION FairSpec
CONSTANTS
  zero = zero
  junk = junk
  x = x
  y = y
  FatName <- TwoNames
  NoName = NoName
  StemSize = 2
  ExtSize = 1
  Dot = "."
  Blank = " "
  UpperOf <- Capitals
  Char <- Characters
  MaxClusters = 6
  LastOnDevice = 5
  RootEntries = 2
  SectorSize = 2
  FatStart = 1
  Byte <- SomeBytes
  Zero = zero
  Junk = junk
  Texts <- TwoTexts
  MaxFileSize = 2
  MaxLength = 3
  MaxReadBack = 1
  MaxCrashes = 1
  TornDeletes = FALSE
PROPERTIES ImplementsStore OthersUntouched
