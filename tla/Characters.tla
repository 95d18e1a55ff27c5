----------------------------- MODULE Characters ------------------------------
(***************************************************************************)
(* The characters keys make, which the keyboard, the editor and what they  *)
(* promise together speak of.                                              *)
(***************************************************************************)
CONSTANTS Char, Nothing, Newline, Backspace, Printable

ASSUME CharacterAssumption ==
  /\ Nothing \notin Char /\ Newline \in Char /\ Backspace \in Char /\ Newline # Backspace
  /\ Printable \subseteq Char \ {Newline, Backspace}
=============================================================================
