\* Interrupts off in the loop, as the program is: reports that come after the
\* first poll wait for ever.
SPECIFICATION FairSpec
CHECK_DEADLOCK FALSE
CONSTANTS
  VGA_WIDTH = 2
  VGA_HEIGHT = 2
  Packet <- Packets
  KeyCode = {156, 34}
  ConfigByte = 97
  MaxWaiting = 3
  MaxMishaps = 0
PROPERTY PollReplacesInterrupt
