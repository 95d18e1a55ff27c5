----------------------------- MODULE TextEditor ------------------------------
(***************************************************************************)
(* src/src/text_editor.c: the text, the cursor, and the line the window    *)
(* shows first. What is only drawn (the column, whether there are changes) *)
(* is left out; saving is bound to a character no key makes.               *)
(***************************************************************************)
EXTENDS Integers, Sequences, FiniteSets, Characters

CONSTANTS
  MAX_TEXT_SIZE,
  EditorHeight               \* of the editor's window

TITLEBAR_HEIGHT == 20

\* The window has room for a line.
ASSUME EditorAssumption ==
  /\ MAX_TEXT_SIZE \in Nat \ {0}
  /\ EditorHeight \in Nat /\ EditorHeight - TITLEBAR_HEIGHT - 25 >= 10

\* visible_lines: the lines the code takes the window to show.
VisibleLines == (EditorHeight - TITLEBAR_HEIGHT - 25) \div 10

VARIABLES
  window,                    \* whether text_editor->window is not NULL
  text, text_length, cursor_pos, cursor_line, scroll_line

editor == <<window, text, text_length, cursor_pos, cursor_line, scroll_line>>

Position == 0 .. (MAX_TEXT_SIZE - 1)
Empty == [i \in Position |-> Nothing]

\* update_cursor_position, for the text t of length n and the cursor at p.
LineAt(t, n, p) == Cardinality({i \in Position : i < p /\ i < n /\ t[i] = Newline})

\* text_editor_open, for a file with the bytes f; room says whether there is
\* room for a window.
Fits(f) == Len(f) < MAX_TEXT_SIZE
text_editor_open(f, room) ==
  /\ window' = room
  /\ LET loaded == IF room /\ Fits(f) THEN f ELSE <<>>
     IN  /\ text' = [i \in Position |-> IF i < Len(loaded) THEN loaded[i + 1] ELSE Nothing]
         /\ text_length' = Len(loaded)
  /\ cursor_pos' = 0 /\ cursor_line' = 0 /\ scroll_line' = 0

-----------------------------------------------------------------------------
(* text_editor_handle_key                                                  *)

\* The bytes from p on move down one, and over the byte before p.
Erased(t, n, p) == [i \in Position |-> IF i >= p - 1 /\ i < n - 1 THEN t[i + 1] ELSE t[i]]
Inserted(t, n, p, key) ==
  [i \in Position |-> IF i = p THEN key ELSE IF i > p /\ i <= n THEN t[i - 1] ELSE t[i]]

\* The line shown first, when the cursor is at line l.
ScrolledBug(l) ==                                \* fault: a line too late
  IF l < scroll_line THEN l
  ELSE IF l > scroll_line + VisibleLines THEN l - VisibleLines + 1 ELSE scroll_line
Scrolled(l) ==
  IF l < scroll_line THEN l
  ELSE IF l >= scroll_line + VisibleLines THEN l - VisibleLines + 1 ELSE scroll_line

Settle(t, n, p) ==
  /\ text' = t /\ text_length' = n /\ cursor_pos' = p
  /\ cursor_line' = LineAt(t, n, p)
  /\ scroll_line' = Scrolled(cursor_line')

CanErase(key)    == key = Backspace /\ cursor_pos > 0
CanInsertBug(key) ==                             \* fault: no place for the 0 at the end
  key \in Printable \cup {Newline} /\ text_length < MAX_TEXT_SIZE
CanInsert(key) == key \in Printable \cup {Newline} /\ text_length < MAX_TEXT_SIZE - 1

text_editor_handle_key(key) ==
  \/ /\ window /\ CanErase(key)
     /\ Settle(Erased(text, text_length, cursor_pos), text_length - 1, cursor_pos - 1)
     /\ UNCHANGED window
  \/ /\ window /\ CanInsert(key)
     /\ Settle(Inserted(text, text_length, cursor_pos, key), text_length + 1, cursor_pos + 1)
     /\ UNCHANGED window
  \/ /\ window /\ ~CanErase(key) /\ ~CanInsert(key)
     /\ scroll_line' = Scrolled(cursor_line)
     /\ UNCHANGED <<window, text, text_length, cursor_pos, cursor_line>>
  \/ ~window /\ UNCHANGED editor

EditorInit ==
  /\ window = FALSE /\ text = Empty
  /\ text_length = 0 /\ cursor_pos = 0 /\ cursor_line = 0 /\ scroll_line = 0

EditorTypeOK ==
  /\ window \in BOOLEAN /\ text \in [Position -> Char \cup {Nothing}]
  /\ text_length \in Nat /\ cursor_pos \in Nat
  /\ cursor_line \in Nat /\ scroll_line \in Nat

\* The cursor is in the text, the text leaves a byte for the 0 behind it, and
\* the line kept for the cursor is the line it is on, for all that was erased
\* and inserted before it.
CursorInText ==
  /\ cursor_pos <= text_length /\ text_length < MAX_TEXT_SIZE
  /\ cursor_line = LineAt(text, text_length, cursor_pos)

\* The cursor is on one of the lines the code takes the window to show. That is
\* not to be on the screen, as the comment at text_editor.c:161 has it: of the 20
\* lines of the window, 250 high and opened at line 50, a screen of 200 shows the
\* first 12 and a part of the next.
CursorInWindow == scroll_line <= cursor_line /\ cursor_line < scroll_line + VisibleLines
=============================================================================
