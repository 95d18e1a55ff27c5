---------------------------- MODULE PointingDevice ----------------------------
(***************************************************************************)
(* What a driver of a PS/2 mouse promises: each report is used once, in    *)
(* the order they are made; it moves the pointer by the nine-bit numbers   *)
(* it holds, or to the point of the screen nearest to that, and says which *)
(* buttons are down. It is a driver that keeps eight bits of a number:     *)
(* along an axis whose move does not fit in them the pointer may go        *)
(* anywhere. Once a byte has been lost nothing is promised.                *)
(***************************************************************************)
EXTENDS Integers, Sequences

CONSTANTS Width, Height, Packet

VARIABLES reports, x, y, buttons, prev_buttons, lost
vars == <<reports, x, y, buttons, prev_buttons, lost>>

Sign(p, bit) == (p[1] \div bit) % 2
DX(p) == p[2] - 256 * Sign(p, 16)
DY(p) == p[3] - 256 * Sign(p, 32)
Apart(a, b) == IF a < b THEN b - a ELSE a - b
Nearest(v, size) ==
  CHOOSE c \in 0 .. (size - 1) : \A d \in 0 .. (size - 1) : Apart(c, v) <= Apart(d, v)

Move == /\ ~lost /\ \E p \in Packet : reports' = Append(reports, p)
        /\ UNCHANGED <<x, y, buttons, prev_buttons, lost>>

Small(d) == d \in -128 .. 127
Take == /\ ~lost /\ reports # <<>>
        /\ x' \in 0 .. (Width - 1) /\ y' \in 0 .. (Height - 1)
        /\ LET p == Head(reports)
           IN  /\ Small(DX(p)) => x' = Nearest(x + DX(p), Width)
               /\ Small(DY(p)) => y' = Nearest(y - DY(p), Height)
               /\ buttons' = p[1] % 8
        /\ prev_buttons' = buttons /\ reports' = Tail(reports) /\ UNCHANGED lost

Lost == /\ lost' = TRUE /\ reports' = <<>>
        /\ x' \in 0 .. (Width - 1) /\ y' \in 0 .. (Height - 1)
        /\ buttons' \in 0 .. 7 /\ prev_buttons' \in {prev_buttons, buttons}

Init == /\ reports = <<>> /\ x = Width \div 2 /\ y = Height \div 2
        /\ buttons = 0 /\ prev_buttons = 0 /\ lost = FALSE
Next == Move \/ Take \/ Lost
Steps  == Init /\ [][Next]_vars
Prompt == WF_vars(Take)
Spec   == Steps /\ Prompt
=============================================================================
