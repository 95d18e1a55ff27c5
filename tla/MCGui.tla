-------------------------------- MODULE MCGui --------------------------------
(***************************************************************************)
(* The GUI with the sizes, the places and the screen of the code, and a    *)
(* mouse that knows a few points.                                          *)
(***************************************************************************)
EXTENDS Gui

Windows == [files  |-> [x |-> 50,  y |-> 50, width |-> 300, height |-> 200],
            editor |-> [x |-> 100, y |-> 50, width |-> 350, height |-> 250]]

At(x, y) == [x |-> x, y |-> y]
Points == {At(160, 100),  \* where the mouse starts: in any window, and the third file
           At(52, 60),    \* the icon Files, and the title of a new file manager
           At(80, 20),    \* the icon Editor, and the title of one dragged up
           At(150, 60),   \* the icon of the first file, and both titles
           At(285, 8)}    \* the close button of a file manager dragged to the left

\* Two files with bytes, the second a text, and an empty one, which is taken
\* for a directory.
Files == <<[name |-> 2, size |-> 5, text |-> FALSE],
           [name |-> 1, size |-> 0, text |-> FALSE],
           [name |-> 3, size |-> 5, text |-> TRUE]>>
=============================================================================
