\* Every dialogue with the devices, every order of moves, keys and polls. With
\* the keyboard's clock off and no mouse, nothing happens any more.
SPECIFICATION FairSpec
CHECK_DEADLOCK FALSE
CONSTANTS
  VGA_WIDTH = 2
  VGA_HEIGHT = 2
  Packet <- Packets
  KeyCode = {156, 34}
  ConfigByte = 97
  MaxWaiting = 3
  MaxMishaps = 2
INVARIANTS InStep
PROPERTIES ImplementsPointer Realigns InitEnds
