SPECIFICATION CodecSpec
CONSTANTS
  SectorBytes = 4
  FatSize = 3
  Values = {0, 1443, 4095}
  StackBytes = {0, 255}
INVARIANT EntriesKept
PROPERTY ReadsWhole
