\* Every operation, power loss between any two sector writes, all files and
\* texts; bytes are all alike.
SPECIFICATION FairSpec
CONSTANTS
  zero = zero
  junk = junk
  x = x
  y = y
  FatName <- ThreeNames
  NoName = NoName
  StemSize = 2
  ExtSize = 1
  Dot = "."
  Blank = " "
  UpperOf <- Capitals
  Char <- Characters
  MaxClusters = 6
  LastOnDevice = 4
  RootEntries = 2
  SectorSize = 2
  FatStart = 1
  Byte <- OneByte
  Zero = zero
  Junk = zero
  Texts <- Lengths
  MaxFileSize = 4
  MaxLength = 3
  MaxReadBack = 3
  MaxCrashes = 1
  TornDeletes = TRUE
INVARIANTS
  NoDangling NoSharing NoLeak CopiesDiffer EveryFileListed UniqueNames
  ChainsFitSizes FreeSpaceExact ListedNamesFind
PROPERTY Returns
