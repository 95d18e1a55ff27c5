------------------------------ MODULE TypedText ------------------------------
(***************************************************************************)
(* What typing into an editor promises: the characters are taken in the    *)
(* order of the keys, and each once; a key that comes while Capacity of    *)
(* them wait is lost. A text is what is before and what is behind the      *)
(* cursor, at most Room characters.                                        *)
(***************************************************************************)
EXTENDS Naturals, Sequences, SequencesExt, Characters

CONSTANTS Capacity, Room, Files

VARIABLES queue, held, before, after, open

vars == <<queue, held, before, after, open>>

Key(ch) == /\ queue' = IF Len(queue) < Capacity THEN Append(queue, ch) ELSE queue
           /\ UNCHANGED <<held, before, after, open>>

Take == /\ held = Nothing /\ queue # <<>>
        /\ held' = Head(queue) /\ queue' = Tail(queue)
        /\ UNCHANGED <<before, after, open>>

Typed(ch) ==
  CASE ch = Backspace /\ before # <<>> -> Front(before)
    [] ch \in Printable \cup {Newline} /\ Len(before) + Len(after) < Room -> Append(before, ch)
    [] OTHER -> before
Write == /\ held # Nothing /\ held' = Nothing
         /\ before' = IF open THEN Typed(held) ELSE before
         /\ UNCHANGED <<queue, after, open>>

OpenFile == /\ held = Nothing
            /\ \E f \in Files, room \in BOOLEAN :
                 /\ open' = room
                 /\ after' = IF room /\ Len(f) <= Room THEN f ELSE <<>>
            /\ before' = <<>> /\ UNCHANGED <<queue, held>>

Init == queue = <<>> /\ held = Nothing /\ before = <<>> /\ after = <<>> /\ open = FALSE
Next == Take \/ Write \/ OpenFile \/ \E ch \in Char : Key(ch)
Spec == Init /\ [][Next]_vars /\ WF_vars(Take) /\ WF_vars(Write)
=============================================================================
