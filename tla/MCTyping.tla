------------------------------ MODULE MCTyping -------------------------------
(***************************************************************************)
(* A keyboard of five keys, a ring of three places, texts of three         *)
(* characters.                                                             *)
(***************************************************************************)
EXTENDS Typing

Unshifted == [letter |-> "a", enter |-> "newline", back |-> "backspace", tab |-> "tab", f1 |-> Nothing,
              lshift |-> Nothing, rshift |-> Nothing]
Shifted   == [Unshifted EXCEPT !.letter = "A"]

\* No file, one that fits, one that does not.
SomeFiles == {<<>>, <<"a", "newline">>, <<"a", "a", "a", "a">>}
=============================================================================
