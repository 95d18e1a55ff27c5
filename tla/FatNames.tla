------------------------------- MODULE FatNames -------------------------------
(***************************************************************************)
(* The names of src/src/fs.c: make_fat_name, which turns what is typed     *)
(* into the fixed fields of a directory entry, and what fs_ls shows of an  *)
(* entry. What is typed and shown are sequences of characters.             *)
(***************************************************************************)
EXTENDS Integers, Sequences

CONSTANTS
  Char,
  StemSize, ExtSize,         \* 8 and 3
  Dot, Blank,
  UpperOf                    \* the capitals of the small letters

Capital == Char \ DOMAIN UpperOf        \* all but the small letters

ASSUME CharactersAssumption ==
  /\ StemSize \in Nat /\ ExtSize \in Nat \ {0}
  /\ {Dot, Blank} \subseteq Capital /\ Dot # Blank
  /\ \A ch \in DOMAIN UpperOf : UpperOf[ch] \in Capital \ {Dot, Blank}

Upper(ch)   == IF ch \in DOMAIN UpperOf THEN UpperOf[ch] ELSE ch
Field(s, n) == [i \in 1 .. n |-> IF i <= Len(s) THEN Upper(s[i]) ELSE Blank]

\* The stem ends at the first dot, or when its field is full; an extension
\* follows only if the next character is a dot.
Ends(in, n)  == n = Len(in) \/ n = StemSize \/ in[n + 1] = Dot
StemEnd(in)  == CHOOSE n \in 0 .. Len(in) : Ends(in, n) /\ \A m \in 0 .. (n - 1) : ~Ends(in, m)
ExtensionBug(in) == SubSeq(in, StemEnd(in) + 1, Len(in))      \* fault: the dot stays
Extension(in) ==
  LET n == StemEnd(in)
  IN  IF n < Len(in) /\ in[n + 1] = Dot THEN SubSeq(in, n + 2, Len(in)) ELSE <<>>
make_fat_name(in) == [stem |-> Field(SubSeq(in, 1, StemEnd(in)), StemSize),
                      ext  |-> Field(Extension(in), ExtSize)]

\* The fields that can come of it.
Names == [stem : [1 .. StemSize -> Capital \ {Dot}], ext : [1 .. ExtSize -> Capital]]

\* fs_ls leaves the blanks out, and the dot if the extension begins with one.
Unpadded(field) ==
  LET kept[i \in 0 .. Len(field)] ==
        IF i = 0 THEN <<>>
        ELSE IF field[i] = Blank THEN kept[i - 1] ELSE Append(kept[i - 1], field[i])
  IN  kept[Len(field)]
Shown(name) ==
  Unpadded(name.stem) \o (IF name.ext[1] = Blank THEN <<>> ELSE <<Dot>>) \o Unpadded(name.ext)

\* The name that is meant by typing what is shown of one.
Retyped(name) == make_fat_name(Shown(name))

\* Blanks are only the padding behind a name, not a part of it.
Padded(field) == \A i, j \in DOMAIN field : i < j /\ field[i] = Blank => field[j] = Blank
Spaceless(name) == Padded(name.stem) /\ Padded(name.ext)
=============================================================================
