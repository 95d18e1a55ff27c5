------------------------------- MODULE KeyRing -------------------------------
(***************************************************************************)
(* src/src/keyboard.c while the GUI has the keyboard: the interrupt        *)
(* handler that turns scan codes into characters and puts them into a      *)
(* ring, and the two functions that take them out. The handler may come    *)
(* between any two steps of the reader.                                    *)
(***************************************************************************)
EXTENDS Integers, Characters

CONSTANTS
  KEYBOARD_BUFFER_SIZE,
  Code, Shift,               \* the codes of the keys, those of the shift keys
  normal_map, shift_map      \* Nothing stands for their 0

ASSUME KeyboardAssumption ==
  /\ KEYBOARD_BUFFER_SIZE \in Nat /\ KEYBOARD_BUFFER_SIZE > 1
  /\ Shift \subseteq Code
  /\ normal_map \in [Code -> Char \cup {Nothing}]
  /\ shift_map \in [Code -> Char \cup {Nothing}]

VARIABLES
  keyboard_buffer, buffer_read_index, buffer_write_index, shift_down,
  reader,                    \* where the reader is: "idle", "read" or "got"
  c                          \* c of keyboard_get_char, and key of the loop

ring == <<keyboard_buffer, buffer_read_index, buffer_write_index, shift_down, reader, c>>

Index == 0 .. (KEYBOARD_BUFFER_SIZE - 1)
Following(i) == (i + 1) % KEYBOARD_BUFFER_SIZE

\* keyboard_buffer_add
FullBug == FALSE                                 \* fault: not looked at
Full    == Following(buffer_write_index) = buffer_read_index
keyboard_buffer_add(ch) ==
  \/ /\ ~Full
     /\ keyboard_buffer' = [keyboard_buffer EXCEPT ![buffer_write_index] = ch]
     /\ buffer_write_index' = Following(buffer_write_index)
  \/ Full /\ UNCHANGED <<keyboard_buffer, buffer_write_index>>

\* keyboard_handler
Lookup(sc) == IF shift_down THEN shift_map[sc] ELSE normal_map[sc]
Press(sc) ==
  /\ \/ /\ sc \in Shift /\ shift_down' = TRUE
        /\ UNCHANGED <<keyboard_buffer, buffer_write_index>>
     \/ /\ sc \notin Shift /\ Lookup(sc) # Nothing
        /\ keyboard_buffer_add(Lookup(sc)) /\ UNCHANGED shift_down
     \/ /\ sc \notin Shift /\ Lookup(sc) = Nothing
        /\ UNCHANGED <<keyboard_buffer, buffer_write_index, shift_down>>
  /\ UNCHANGED <<buffer_read_index, reader, c>>
Release(sc) ==
  /\ sc \in Shift /\ shift_down' = FALSE
  /\ UNCHANGED <<keyboard_buffer, buffer_read_index, buffer_write_index, reader, c>>

keyboard_has_input == buffer_read_index # buffer_write_index

\* keyboard_get_char: the character, then the index.
ReadChar ==
  /\ reader = "idle" /\ keyboard_has_input
  /\ c' = keyboard_buffer[buffer_read_index] /\ reader' = "read"
  /\ UNCHANGED <<keyboard_buffer, buffer_read_index, buffer_write_index, shift_down>>
AdvanceRead ==
  /\ reader = "read" /\ reader' = "got"
  /\ buffer_read_index' = Following(buffer_read_index)
  /\ UNCHANGED <<keyboard_buffer, buffer_write_index, shift_down, c>>

RingInit ==
  /\ keyboard_buffer = [i \in Index |-> Nothing]
  /\ buffer_read_index = 0 /\ buffer_write_index = 0
  /\ shift_down = FALSE /\ reader = "idle" /\ c = Nothing

RingTypeOK ==
  /\ keyboard_buffer \in [Index -> Char \cup {Nothing}]
  /\ buffer_read_index \in Index /\ buffer_write_index \in Index
  /\ shift_down \in BOOLEAN
  /\ reader \in {"idle", "read", "got"} /\ c \in Char \cup {Nothing}
=============================================================================
