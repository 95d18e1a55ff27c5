\* Every call and every pace of the drive, with power losses.
SPECIFICATION FairSpec
CONSTANTS
  Lba <- Addresses
  Word = {0, 1}
  WordsPerSector = 2
  RegisterSize = 2
  DriveBits = 2
INVARIANT InStep
PROPERTY ImplementsDisk
