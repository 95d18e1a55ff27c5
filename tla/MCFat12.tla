------------------------------ MODULE MCFat12 ------------------------------
(***************************************************************************)
(* Small instances of Fat12.                                               *)
(***************************************************************************)
EXTENDS Fat12

CONSTANTS zero, junk, x, y

\* Where only the shape of the disk matters all bytes are alike, and a text is
\* its length: none, a part of a sector, a sector and a half.
OneByte  == {zero}
Lengths  == {<<>>, <<zero>>, <<zero, zero, zero>>}

\* Where the bytes matter: padding, bytes from elsewhere, two kinds of text.
SomeBytes == {zero, junk, x, y}
TwoTexts  == {<<x>>, <<y, x, y>>}

\* A stem of two characters, an extension of one: a name, one of a full stem
\* with an extension, and one with a space, which is shown as the first.
Capitals   == [a |-> "A", b |-> "B"]
Characters == {"a", "b", "A", "B", ".", " "}
TwoNames   == {[stem |-> <<"A", " ">>, ext |-> <<" ">>], [stem |-> <<"A", "B">>, ext |-> <<"A">>]}
ThreeNames == TwoNames \cup {[stem |-> <<" ", "A">>, ext |-> <<" ">>]}
=============================================================================
