------------------------------- MODULE Typing --------------------------------
(***************************************************************************)
(* From the key to the text: the keyboard's handler, the loop of gui.c     *)
(* that takes one character each turn, and the editor it gives it to.      *)
(***************************************************************************)
EXTENDS KeyRing, TextEditor

CONSTANT Files               \* the bytes a file may have, <<>> for no file
ASSUME FilesAssumption == Files \subseteq Seq(Char)

vars == <<ring, editor>>

\* The loop gives the character to the editor, whatever has the focus.
gui_handle_keyboard ==
  /\ reader = "got"
  /\ text_editor_handle_key(c)
  /\ reader' = "idle" /\ c' = Nothing
  /\ UNCHANGED <<keyboard_buffer, buffer_read_index, buffer_write_index, shift_down>>

\* A click of an earlier part of the same turn.
OpenFile ==
  /\ reader = "idle"
  /\ \E f \in Files, room \in BOOLEAN : text_editor_open(f, room)
  /\ UNCHANGED ring

Key == (\E sc \in Code : Press(sc) \/ Release(sc)) /\ UNCHANGED editor
TakeKey == (ReadChar \/ AdvanceRead) /\ UNCHANGED editor

Init == RingInit /\ EditorInit
Next == Key \/ TakeKey \/ gui_handle_keyboard \/ OpenFile
Spec == Init /\ [][Next]_vars
FairSpec == Spec /\ WF_vars(TakeKey) /\ WF_vars(gui_handle_keyboard)

-----------------------------------------------------------------------------
TypeOK == RingTypeOK /\ EditorTypeOK

\* The characters in the ring, the oldest first.
Waiting == [i \in 1 .. ((buffer_write_index - buffer_read_index) % KEYBOARD_BUFFER_SIZE) |->
              keyboard_buffer[(buffer_read_index + i - 1) % KEYBOARD_BUFFER_SIZE]]
Part(from, to) == [i \in 1 .. (to - from) |-> text[from + i - 1]]

\* Every key that found room in the ring reaches the text, once and in order,
\* and nothing else does.
Text == INSTANCE TypedText WITH
          Capacity <- KEYBOARD_BUFFER_SIZE - 1, Room <- MAX_TEXT_SIZE - 1,
          queue <- Waiting, held <- IF reader = "got" THEN c ELSE Nothing,
          before <- Part(0, cursor_pos), after <- Part(cursor_pos, text_length),
          open <- window
ImplementsTypedText == Text!Spec
=============================================================================
