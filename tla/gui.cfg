\* The GUI loop with three windows open at most.
SPECIFICATION FairSpec
CONSTANTS
  Window = {w1, w2, w3, w4}
  NULL = NULL
  MaxWindows = 3
  Kind = {"files", "editor"}
  Shape <- Windows
  ScreenWidth = 320
  ScreenHeight = 200
  Point <- Points
  RootDir <- Files
  MaxIcons = 3
  MaxFiles = 3
  MaxDepth = 1
INVARIANTS ListIsOfPath CountExact FocusOnTop
PROPERTIES ImplementsStack RaisesTheTop StaysOnScreen DragEnds
