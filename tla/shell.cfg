\* Every sequence of lines that recall lines.
SPECIFICATION Spec
CONSTANTS
  MAX_HISTORY = 3
  Word = 16
  Number <- Numbers
  MaxLines = 6
INVARIANT NestingBounded
PROPERTY ImplementsLog
