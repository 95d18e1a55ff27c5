----------------------------- MODULE WindowStack -----------------------------
(***************************************************************************)
(* What a window manager promises: the open windows lie one upon the       *)
(* other, and the one on top has the focus.                                *)
(***************************************************************************)
EXTENDS Naturals, Sequences, SequencesExt

CONSTANTS Window, NULL, MaxWindows
VARIABLES stack,   \* bottom to top
          focus

OnTop(s) == IF s = <<>> THEN NULL ELSE Last(s)
Set(s)   == stack' = s /\ focus' = OnTop(s)

Open  == Len(stack) < MaxWindows /\ \E w \in Window \ Range(stack) : Set(Append(stack, w))
Raise == \E i \in DOMAIN stack : Set(Append(RemoveAt(stack, i), stack[i]))
Close == \E i \in DOMAIN stack : Set(RemoveAt(stack, i))

Init == stack = <<>> /\ focus = NULL
Next == Open \/ Raise \/ Close
Spec == Init /\ [][Next]_<<stack, focus>>
=============================================================================
