\* Every order of keys, of turns of the loop and of openings.
SPECIFICATION FairSpec
CONSTANTS
  KEYBOARD_BUFFER_SIZE = 3
  Char = {"a", "A", "newline", "backspace", "tab"}
  Nothing = "nothing"
  Newline = "newline"
  Backspace = "backspace"
  Printable = {"a", "A"}
  Code = {"letter", "enter", "back", "tab", "f1", "lshift", "rshift"}
  Shift = {"lshift", "rshift"}
  normal_map <- Unshifted
  shift_map <- Shifted
  MAX_TEXT_SIZE = 4
  EditorHeight = 65
  Files <- SomeFiles
INVARIANTS CursorInText CursorInWindow
PROPERTY ImplementsTypedText
