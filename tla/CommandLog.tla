------------------------------ MODULE CommandLog ------------------------------
(***************************************************************************)
(* What `history / !n` is for a user: the last Size lines that were run,   *)
(* with their numbers. A line !n runs the line that has the number n in    *)
(* the list as it was before, or is refused. Each line that is run,        *)
(* recalled or not, goes to the end of the list and, when that is full,    *)
(* takes the place of the oldest; that one cannot be recalled any more, so *)
(* the first line of a full list never can.                                *)
(***************************************************************************)
EXTENDS Integers, Sequences

CONSTANTS Size, Line, IsRecall(_), NumberOf(_), Nobody

VARIABLES
  listed,      \* the lines of the list, the oldest first
  ran,         \* how many lines have been run
  next         \* the line that is to be run before the user is asked again
vars == <<listed, ran, next>>

Oldest == ran - Len(listed)
Kept   == IF Len(listed) = Size THEN Tail(listed) ELSE listed

\* A line that recalls its own number recalls itself.
Recalled(c) ==
  LET n == NumberOf(c)
  IN  IF n = ran THEN {c}
      ELSE {listed[k] : k \in {k \in DOMAIN listed :
                                 Oldest + k - 1 = n /\ (k = 1 => Len(listed) < Size)}}

RunLine(c) ==
  /\ listed' = Append(Kept, c) /\ ran' = ran + 1
  /\ IF IsRecall(c) /\ Recalled(c) # {} THEN next' \in Recalled(c) ELSE next' = Nobody

Init  == listed = <<>> /\ ran = 0 /\ next = Nobody
Enter == next = Nobody /\ \E c \in Line : RunLine(c)
GoOn  == next # Nobody /\ RunLine(next)
Next  == Enter \/ GoOn
Spec  == Init /\ [][Next]_vars
=============================================================================
