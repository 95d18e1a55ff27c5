---------------------------- MODULE TypingProofs -----------------------------
(***************************************************************************)
(* Theorems about Typing, for every size of the ring, of the text and of   *)
(* the window: where the cursor is, and that what is typed is the text.    *)
(***************************************************************************)
EXTENDS Typing, FiniteSetTheorems, SequenceTheorems, TLAPS

\* A line number is a number: the positions are finite.
LEMMA LineIsNumber ==
  ASSUME NEW t, NEW n, NEW p
  PROVE  LineAt(t, n, p) \in Nat
<1>1. IsFiniteSet(Position)
  BY EditorAssumption, FS_Interval DEF Position
<1>2. {i \in Position : i < p /\ i < n /\ t[i] = Newline} \subseteq Position
  OBVIOUS
<1>3. IsFiniteSet({i \in Position : i < p /\ i < n /\ t[i] = Newline})
  BY <1>1, <1>2, FS_Subset
<1> QED BY <1>3, FS_CardinalityType DEF LineAt

\* Before the first character no line has ended.
LEMMA FirstLine ==
  ASSUME NEW t, NEW n
  PROVE  LineAt(t, n, 0) = 0
<1>1. {i \in Position : i < 0 /\ i < n /\ t[i] = Newline} = {}
  BY EditorAssumption DEF Position
<1> QED BY <1>1, FS_EmptySet DEF LineAt

\* The window has a line at least.
LEMMA WindowHasLines == VisibleLines \in Nat \ {0}
  BY EditorAssumption DEF VisibleLines, TITLEBAR_HEIGHT

\* Scrolling puts the line it is given into the window.
LEMMA ScrollShows ==
  ASSUME NEW l \in Nat, scroll_line \in Nat
  PROVE  /\ Scrolled(l) \in Nat
         /\ Scrolled(l) <= l /\ l < Scrolled(l) + VisibleLines
  BY WindowHasLines DEF Scrolled

EditorInv == EditorTypeOK /\ CursorInText /\ CursorInWindow

\* What the two ways to change the text have in common.
LEMMA SettleKeeps ==
  ASSUME EditorInv, NEW t \in [Position -> Char \cup {Nothing}], NEW n \in Nat, NEW p \in Nat,
         p <= n, n < MAX_TEXT_SIZE, Settle(t, n, p), UNCHANGED window
  PROVE  EditorInv'
<1>1. text' = t /\ text_length' = n /\ cursor_pos' = p /\ cursor_line' = LineAt(t, n, p)
  BY DEF Settle
<1>2. cursor_line' \in Nat
  BY <1>1, LineIsNumber
<1>3. scroll_line \in Nat /\ scroll_line' = Scrolled(cursor_line')
  BY DEF Settle, EditorInv, EditorTypeOK
<1>4. scroll_line' \in Nat /\ scroll_line' <= cursor_line'
        /\ cursor_line' < scroll_line' + VisibleLines
  BY <1>2, <1>3, ScrollShows
<1>5. EditorTypeOK'
  BY <1>1, <1>2, <1>4 DEF EditorTypeOK, EditorInv
<1>6. CursorInText'
  BY <1>1 DEF CursorInText
<1> QED BY <1>4, <1>5, <1>6 DEF EditorInv, CursorInWindow

\* A key: it is erased, inserted or does nothing.
LEMMA KeyKeeps ==
  ASSUME EditorInv, NEW key, text_editor_handle_key(key)
  PROVE  EditorInv'
<1> USE DEF EditorInv, EditorTypeOK, CursorInText
<1>1. CASE window /\ CanErase(key) /\ UNCHANGED window
           /\ Settle(Erased(text, text_length, cursor_pos), text_length - 1, cursor_pos - 1)
  <2>1. cursor_pos - 1 \in Nat /\ text_length - 1 \in Nat
    BY <1>1 DEF CanErase
  <2>2. Erased(text, text_length, cursor_pos) \in [Position -> Char \cup {Nothing}]
    <3>1. ASSUME NEW i \in Position, i < text_length - 1
          PROVE  text[i + 1] \in Char \cup {Nothing}
      BY <3>1, EditorAssumption DEF Position
    <3> QED BY <3>1 DEF Erased
  <2> QED BY <1>1, <2>1, <2>2, EditorAssumption, SettleKeeps
<1>2. CASE window /\ CanInsert(key) /\ UNCHANGED window
           /\ Settle(Inserted(text, text_length, cursor_pos, key), text_length + 1, cursor_pos + 1)
  <2>1. key \in Char /\ text_length + 1 < MAX_TEXT_SIZE
    BY <1>2, CharacterAssumption, EditorAssumption DEF CanInsert
  <2>2. Inserted(text, text_length, cursor_pos, key) \in [Position -> Char \cup {Nothing}]
    <3>1. ASSUME NEW i \in Position, i > cursor_pos
          PROVE  text[i - 1] \in Char \cup {Nothing}
      BY <3>1, EditorAssumption DEF Position
    <3> QED BY <2>1, <3>1 DEF Inserted
  <2> QED BY <1>2, <2>1, <2>2, EditorAssumption, SettleKeeps
<1>3. CASE /\ scroll_line' = Scrolled(cursor_line)
           /\ UNCHANGED <<window, text, text_length, cursor_pos, cursor_line>>
  BY <1>3, ScrollShows DEF CursorInWindow
<1>4. CASE UNCHANGED editor
  BY <1>4 DEF editor, CursorInWindow
<1> QED BY <1>1, <1>2, <1>3, <1>4 DEF text_editor_handle_key

\* A file is opened: the cursor is at its start.
LEMMA OpenKeeps ==
  ASSUME EditorInv, NEW f \in Files, NEW room \in BOOLEAN, text_editor_open(f, room)
  PROVE  EditorInv'
<1> DEFINE loaded == IF room /\ Fits(f) THEN f ELSE <<>>
<1>1. f \in Seq(Char)
  BY FilesAssumption
<1>2. loaded \in Seq(Char) /\ Len(loaded) \in Nat /\ Len(loaded) < MAX_TEXT_SIZE
  BY <1>1, EditorAssumption DEF Fits
<1>3. /\ window' = room /\ text_length' = Len(loaded)
      /\ text' = [i \in Position |-> IF i < Len(loaded) THEN loaded[i + 1] ELSE Nothing]
      /\ cursor_pos' = 0 /\ cursor_line' = 0 /\ scroll_line' = 0
  BY DEF text_editor_open
<1> HIDE DEF loaded
<1>4. text' \in [Position -> Char \cup {Nothing}]
  <2>1. ASSUME NEW i \in Position, i < Len(loaded)
        PROVE  loaded[i + 1] \in Char
    BY <1>2, <2>1, EditorAssumption DEF Position
  <2> QED BY <1>3, <2>1
<1>5. cursor_line' = LineAt(text', text_length', cursor_pos')
  BY <1>3, FirstLine
<1> QED BY <1>2, <1>3, <1>4, <1>5, WindowHasLines
       DEF EditorInv, EditorTypeOK, CursorInText, CursorInWindow

\* The keyboard's steps.
LEMMA RingKeeps ==
  ASSUME RingTypeOK, (\E sc \in Code : Press(sc) \/ Release(sc)) \/ ReadChar \/ AdvanceRead
  PROVE  RingTypeOK'
<1> USE DEF RingTypeOK
<1>1. \A i \in Index : Following(i) \in Index
  BY KeyboardAssumption DEF Index, Following
<1>2. ASSUME NEW sc \in Code, Press(sc) PROVE RingTypeOK'
  <2>1. Lookup(sc) \in Char \cup {Nothing}
    BY KeyboardAssumption DEF Lookup
  <2> QED BY <1>1, <1>2, <2>1 DEF Press, keyboard_buffer_add
<1>3. ASSUME NEW sc \in Code, Release(sc) PROVE RingTypeOK'
  BY <1>3 DEF Release
<1>4. CASE ReadChar
  BY <1>4 DEF ReadChar
<1>5. CASE AdvanceRead
  BY <1>1, <1>5 DEF AdvanceRead
<1> QED BY <1>2, <1>3, <1>4, <1>5

Inv == RingTypeOK /\ EditorInv

\* The whole program starts with the invariant and keeps it.
LEMMA InitInv == Init => Inv
<1> SUFFICES ASSUME Init PROVE Inv
  OBVIOUS
<1>1. RingTypeOK
  <2>1. 0 \in Index
    BY KeyboardAssumption DEF Index
  <2> QED BY <2>1 DEF Init, RingInit, RingTypeOK
<1>2. EditorTypeOK
  BY DEF Init, EditorInit, EditorTypeOK, Empty
<1>3. CursorInText
  BY EditorAssumption, FirstLine DEF Init, EditorInit, CursorInText
<1>4. CursorInWindow
  BY WindowHasLines DEF Init, EditorInit, CursorInWindow
<1> QED BY <1>1, <1>2, <1>3, <1>4 DEF Inv, EditorInv

LEMMA NextInv == Inv /\ [Next]_vars => Inv'
<1> SUFFICES ASSUME Inv, [Next]_vars PROVE Inv'
  OBVIOUS
<1>1. CASE Key \/ TakeKey
  <2>1. RingTypeOK'
    BY <1>1, RingKeeps DEF Key, TakeKey, Inv
  <2>2. EditorInv'
    BY <1>1 DEF Key, TakeKey, Inv, EditorInv, EditorTypeOK, CursorInText, CursorInWindow,
       editor
  <2> QED BY <2>1, <2>2 DEF Inv
<1>2. CASE gui_handle_keyboard
  <2>1. RingTypeOK'
    BY <1>2 DEF gui_handle_keyboard, Inv, RingTypeOK
  <2>2. EditorInv'
    BY <1>2, KeyKeeps DEF gui_handle_keyboard, Inv
  <2> QED BY <2>1, <2>2 DEF Inv
<1>3. CASE OpenFile
  <2>1. RingTypeOK'
    BY <1>3 DEF OpenFile, Inv, RingTypeOK, ring
  <2>2. EditorInv'
    BY <1>3, OpenKeeps DEF OpenFile, Inv
  <2> QED BY <2>1, <2>2 DEF Inv
<1>4. CASE UNCHANGED vars
  BY <1>4 DEF vars, ring, editor, Inv, EditorInv, RingTypeOK, EditorTypeOK, CursorInText,
     CursorInWindow
<1> QED BY <1>1, <1>2, <1>3, <1>4 DEF Next

\* text_editor.c:154, :162: the loops of backspace and insertion never leave
\* the array, and cursor_line is the line of the cursor after any keys.
THEOREM CursorStaysInText == Spec => []CursorInText
<1>1. Inv => CursorInText
  BY DEF Inv, EditorInv
<1> QED BY <1>1, InitInv, NextInv, PTL DEF Spec

\* text_editor.c:162-167: the line of the cursor is always one of the visible_lines
\* from scroll_line on, by which the window is scrolled.
THEOREM CursorStaysInWindow == Spec => []CursorInWindow
<1>1. Inv => CursorInWindow
  BY DEF Inv, EditorInv
<1> QED BY <1>1, InitInv, NextInv, PTL DEF Spec

\* Every variable of the keyboard and the editor stays in its type.
THEOREM TypeCorrect == Spec => []TypeOK
<1>1. Inv => TypeOK
  BY DEF Inv, EditorInv, TypeOK
<1> QED BY <1>1, InitInv, NextInv, PTL DEF Spec

-----------------------------------------------------------------------------
(* Sequences, and the characters in the ring.                              *)

\* What a cell holds, and how many cells there are.
Byte == Char \cup {Nothing}
Size == KEYBOARD_BUFFER_SIZE

\* Sequences given as functions, and what makes two of them one.
LEMMA AsSeq ==
  ASSUME NEW S, NEW n \in Nat, NEW f \in [1 .. n -> S]
  PROVE  f \in Seq(S) /\ Len(f) = n
OBVIOUS

LEMMA Appended ==
  ASSUME NEW S, NEW s \in Seq(S), NEW t \in Seq(S), NEW x \in S, Len(t) = Len(s) + 1,
         \A k \in 1 .. Len(s) : t[k] = s[k], t[Len(t)] = x
  PROVE  t = Append(s, x)
<1>1. Append(s, x) \in Seq(S) /\ Len(Append(s, x)) = Len(s) + 1
  OBVIOUS
<1>2. \A k \in 1 .. Len(t) : t[k] = Append(s, x)[k]
  OBVIOUS
<1> QED  BY <1>1, <1>2, SeqEqual

LEMMA WithoutLast ==
  ASSUME NEW S, NEW s \in Seq(S), NEW t \in Seq(S), Len(s) = Len(t) + 1,
         \A k \in 1 .. Len(t) : t[k] = s[k]
  PROVE  t = Text!Front(s)
<1>1. Len(t) \in Nat
  OBVIOUS
<1>2. \A k \in 1 .. Len(t) : s[k] \in S
  OBVIOUS
<1>3. /\ SubSeq(s, 1, Len(t)) \in Seq(S) /\ Len(SubSeq(s, 1, Len(t))) = Len(t)
      /\ \A k \in 1 .. Len(t) : SubSeq(s, 1, Len(t))[k] = s[k]
  BY <1>1, <1>2
<1>4. t = SubSeq(s, 1, Len(t))
  BY <1>3, SeqEqual
<1>5. Len(s) - 1 = Len(t)
  BY <1>1
<1> QED  BY <1>4, <1>5 DEF Text!Front

LEMMA WithoutFirst ==
  ASSUME NEW S, NEW s \in Seq(S), NEW t \in Seq(S), Len(s) = Len(t) + 1,
         \A k \in 1 .. Len(t) : t[k] = s[k + 1]
  PROVE  s # <<>> /\ t = Tail(s)
<1>1. s # <<>>
  OBVIOUS
<1>2. /\ Tail(s) \in Seq(S) /\ Len(Tail(s)) = Len(t)
      /\ \A k \in 1 .. Len(Tail(s)) : Tail(s)[k] = s[k + 1]
  BY <1>1, HeadTailProperties
<1> QED  BY <1>1, <1>2, SeqEqual

\* The remainder by the size of the ring, of what its indices come to.
LEMMA Around ==
  ASSUME NEW n \in Int, -Size <= n, n < 2 * Size
  PROVE  n % Size = IF n < 0 THEN n + Size ELSE IF n < Size THEN n ELSE n - Size
<1>1. Size \in Nat /\ Size > 1
  BY KeyboardAssumption DEF Size
<1> HIDE DEF Size
<1>2. n % Size \in 0 .. (Size - 1) /\ n = Size * (n \div Size) + (n % Size)
        /\ n \div Size \in Int
  BY <1>1
<1> DEFINE q == n \div Size  r == n % Size
<1> HIDE DEF q, r
<1>3. q \in Int /\ r \in 0 .. (Size - 1) /\ n = Size * q + r
  BY <1>2 DEF q, r
<1>4. q \in {-1, 0, 1}
  <2>1. CASE q >= 2
    <3>1. Size * q >= Size * 2
      BY <1>1, <1>3, <2>1
    <3> QED  BY <1>1, <1>3, <3>1
  <2>2. CASE q <= -2
    <3>1. Size * q <= Size * (-2)
      BY <1>1, <1>3, <2>2
    <3> QED  BY <1>1, <1>3, <3>1
  <2> QED  BY <1>3, <2>1, <2>2
<1>5. CASE q = -1
  <2>1. Size * q = -Size
    BY <1>1, <1>5
  <2> QED  BY <1>1, <1>3, <1>5, <2>1 DEF r
<1>6. CASE q = 0
  <2>1. Size * q = 0
    BY <1>1, <1>6
  <2> QED  BY <1>1, <1>3, <2>1 DEF r
<1>7. CASE q = 1
  <2>1. Size * q = Size
    BY <1>1, <1>7
  <2> QED  BY <1>1, <1>3, <2>1 DEF r
<1> QED  BY <1>4, <1>5, <1>6, <1>7

\* The characters between two indices of a ring, as Waiting has them.
Ring(b, r, w) == [i \in 1 .. ((w - r) % Size) |-> b[(r + i - 1) % Size]]
Cells == [Index -> Byte]
Count(r, w) == IF r <= w THEN w - r ELSE w - r + Size
Cell(r, i)  == IF r + i - 1 < Size THEN r + i - 1 ELSE r + i - 1 - Size

\* Waiting is that of the ring, before a step and after it.
LEMMA IsWaiting ==
  /\ Waiting = Ring(keyboard_buffer, buffer_read_index, buffer_write_index)
  /\ Waiting' = Ring(keyboard_buffer', buffer_read_index', buffer_write_index')
BY DEF Waiting, Ring, Size

LEMMA SizeType == Size \in Nat /\ Size > 1 /\ Index = 0 .. (Size - 1)
BY KeyboardAssumption DEF Size, Index

\* They are as many as the indices are apart, one for each cell from the first.
LEMMA RingSeq ==
  ASSUME NEW b \in Cells, NEW r \in Index, NEW w \in Index
  PROVE  /\ Ring(b, r, w) \in Seq(Byte) /\ Len(Ring(b, r, w)) = Count(r, w)
         /\ Count(r, w) \in 0 .. (Size - 1)
         /\ \A i \in 1 .. Count(r, w) : Cell(r, i) \in Index
              /\ Ring(b, r, w)[i] = b[Cell(r, i)]
<1>1. Size \in Nat /\ Size > 1 /\ r \in 0 .. (Size - 1) /\ w \in 0 .. (Size - 1)
  BY SizeType
<1>2. (w - r) % Size = Count(r, w)
  <2>0. PICK m : m = w - r
    OBVIOUS
  <2>1. m \in Int /\ -Size <= m /\ m < 2 * Size /\ (m < 0 <=> ~(r <= w)) /\ m < Size
    BY <1>1, <2>0
  <2>2. m % Size = IF m < 0 THEN m + Size ELSE m
    BY <2>1, Around
  <2>3. Count(r, w) = IF m < 0 THEN m + Size ELSE m
    BY <1>1, <2>0, <2>1 DEF Count
  <2> QED  BY <2>0, <2>2, <2>3
<1>3. Count(r, w) \in 0 .. (Size - 1)
  BY <1>1 DEF Count
<1>4. ASSUME NEW i \in 1 .. Count(r, w)
      PROVE  Cell(r, i) \in Index /\ (r + i - 1) % Size = Cell(r, i)
  <2>0. PICK m : m = r + i - 1
    OBVIOUS
  <2>1. m \in Int /\ -Size <= m /\ m < 2 * Size /\ ~(m < 0)
    BY <1>1, <1>3, <2>0
  <2>2. Cell(r, i) \in 0 .. (Size - 1) /\ Cell(r, i) = IF m < Size THEN m ELSE m - Size
    BY <1>1, <1>3, <2>0 DEF Cell
  <2>3. m % Size = IF m < Size THEN m ELSE m - Size
    BY <2>1, Around
  <2> QED  BY <2>0, <2>2, <2>3, SizeType
<1> DEFINE n == Count(r, w)
           f == Ring(b, r, w)
<1>5. f = [i \in 1 .. n |-> b[(r + i - 1) % Size]]
  BY <1>2 DEF Ring
<1>6. ASSUME NEW i \in 1 .. n PROVE f[i] = b[Cell(r, i)] /\ f[i] \in Byte
  BY <1>4, <1>5 DEF Cells
<1>7. n \in Nat
  BY <1>3
<1>8. f \in [1 .. n -> Byte]
  BY <1>5, <1>6
<1> HIDE DEF n, f
<1>9. f \in Seq(Byte) /\ Len(f) = n
  BY <1>7, <1>8, AsSeq
<1> QED  BY <1>3, <1>4, <1>6, <1>9 DEF n, f

LEMMA FollowingIs ==
  ASSUME NEW i \in Index
  PROVE  Following(i) = (IF i = Size - 1 THEN 0 ELSE i + 1) /\ Following(i) \in Index
<1>1. Size \in Nat /\ Size > 1 /\ i \in 0 .. (Size - 1)
  BY SizeType
<1>2. PICK m : m = i + 1
  OBVIOUS
<1>3. Following(i) = m % Size
  BY <1>2 DEF Following, Size
<1>4. m \in Int /\ -Size <= m /\ m < 2 * Size /\ ~(m < 0)
  BY <1>1, <1>2
<1>5. m % Size = IF m < Size THEN m ELSE m - Size
  BY <1>4, Around
<1> QED  BY <1>1, <1>2, <1>3, <1>5, SizeType

\* A character put behind the last one is the last one.
LEMMA RingPut ==
  ASSUME NEW b \in Cells, NEW r \in Index, NEW w \in Index, Following(w) # r, NEW x \in Byte
  PROVE  /\ Count(r, w) < Size - 1
         /\ Ring([b EXCEPT ![w] = x], r, Following(w)) = Append(Ring(b, r, w), x)
<1> DEFINE v == Following(w)
           d == [b EXCEPT ![w] = x]
           n == Count(r, w)
<1>1. Size \in Nat /\ Size > 1 /\ r \in 0 .. (Size - 1) /\ w \in 0 .. (Size - 1)
  BY SizeType
<1>2. v = (IF w = Size - 1 THEN 0 ELSE w + 1) /\ v \in Index /\ v # r
  BY FollowingIs
<1>3. d \in Cells /\ d[w] = x /\ \A k \in Index : k # w => d[k] = b[k]
  BY DEF Cells
<1>4. Count(r, v) = n + 1 /\ n \in Nat /\ n < Size - 1
  BY <1>1, <1>2 DEF Count
<1>5. ASSUME NEW k \in 1 .. n PROVE Cell(r, k) # w
  BY <1>1, <1>4 DEF Count, Cell
<1>6. Cell(r, n + 1) = w
  BY <1>1, <1>4 DEF Count, Cell
<1>7. /\ Ring(b, r, w) \in Seq(Byte) /\ Len(Ring(b, r, w)) = n
      /\ \A k \in 1 .. n : Cell(r, k) \in Index /\ Ring(b, r, w)[k] = b[Cell(r, k)]
  BY RingSeq
<1> HIDE DEF v, d, n
<1>8. /\ Ring(d, r, v) \in Seq(Byte) /\ Len(Ring(d, r, v)) = n + 1
      /\ \A k \in 1 .. (n + 1) : Ring(d, r, v)[k] = d[Cell(r, k)]
  <2>1. /\ Ring(d, r, v) \in Seq(Byte) /\ Len(Ring(d, r, v)) = Count(r, v)
        /\ \A k \in 1 .. Count(r, v) : Ring(d, r, v)[k] = d[Cell(r, k)]
    <3>1. d \in Cells /\ v \in Index
      BY <1>2, <1>3
    <3> QED  BY <3>1, RingSeq
  <2> QED  BY <1>4, <2>1
<1> DEFINE s == Ring(b, r, w)
           t == Ring(d, r, v)
<1>9. ASSUME NEW k \in 1 .. n PROVE t[k] = s[k]
  BY <1>3, <1>4, <1>5, <1>7, <1>8
<1>10. t[n + 1] = x
  BY <1>3, <1>4, <1>6, <1>8
<1>11. s \in Seq(Byte) /\ t \in Seq(Byte) /\ Len(s) = n /\ Len(t) = n + 1
  BY <1>7, <1>8
<1> HIDE DEF s, t
<1>12. t = Append(s, x)
  BY <1>9, <1>10, <1>11, Appended
<1> QED  BY <1>4, <1>12 DEF s, t, v, d, n

\* A ring that has no room has Size - 1 characters.
LEMMA RingFull ==
  ASSUME NEW r \in Index, NEW w \in Index, Following(w) = r
  PROVE  Count(r, w) = Size - 1
<1>1. Size \in Nat /\ Size > 1 /\ r \in 0 .. (Size - 1) /\ w \in 0 .. (Size - 1)
  BY SizeType
<1> QED  BY <1>1, FollowingIs DEF Count

\* What is taken is the first one.
LEMMA RingTake ==
  ASSUME NEW b \in Cells, NEW r \in Index, NEW w \in Index, r # w
  PROVE  /\ Ring(b, r, w) # <<>> /\ Head(Ring(b, r, w)) = b[r]
         /\ Ring(b, Following(r), w) = Tail(Ring(b, r, w))
<1> DEFINE v == Following(r)
           n == Count(v, w)
<1>1. Size \in Nat /\ Size > 1 /\ r \in 0 .. (Size - 1) /\ w \in 0 .. (Size - 1)
  BY SizeType
<1>2. v = (IF r = Size - 1 THEN 0 ELSE r + 1) /\ v \in Index
  BY FollowingIs
<1>3. Count(r, w) = n + 1 /\ n \in Nat /\ n < Size - 1
  BY <1>1, <1>2 DEF Count
<1>4. ASSUME NEW k \in 1 .. n PROVE Cell(v, k) = Cell(r, k + 1)
  BY <1>1, <1>2, <1>3 DEF Cell
<1>5. Cell(r, 1) = r
  BY <1>1 DEF Cell
<1>6. /\ Ring(b, r, w) \in Seq(Byte) /\ Len(Ring(b, r, w)) = n + 1
      /\ \A k \in 1 .. (n + 1) : Ring(b, r, w)[k] = b[Cell(r, k)]
  BY <1>3, RingSeq
<1> HIDE DEF v
<1>7. /\ Ring(b, v, w) \in Seq(Byte) /\ Len(Ring(b, v, w)) = n
      /\ \A k \in 1 .. n : Ring(b, v, w)[k] = b[Cell(v, k)]
  BY <1>2, RingSeq
<1> DEFINE s == Ring(b, r, w)
           t == Ring(b, v, w)
<1> HIDE DEF n, s, t
<1>8. \A k \in 1 .. n : t[k] = s[k + 1]
  BY <1>3, <1>4, <1>6, <1>7 DEF s, t
<1>9. s[1] = b[r]
  BY <1>3, <1>5, <1>6 DEF s
<1>10. s \in Seq(Byte) /\ t \in Seq(Byte) /\ Len(s) = n + 1 /\ Len(t) = n
  BY <1>6, <1>7 DEF s, t
<1>11. s # <<>> /\ t = Tail(s)
  BY <1>3, <1>8, <1>10, WithoutFirst
<1> QED  BY <1>3, <1>9, <1>10, <1>11 DEF s, t, v

-----------------------------------------------------------------------------
(* The text around the cursor.                                             *)

\* The characters between two places of a text, as Part has them.
Slice(t, from, to) == [i \in 1 .. (to - from) |-> t[from + i - 1]]
Bytes == [Position -> Byte]

\* The mapped texts, before a step and after it.
LEMMA IsPart ==
  /\ Part(0, cursor_pos) = Slice(text, 0, cursor_pos)
  /\ Part(0, cursor_pos)' = Slice(text', 0, cursor_pos')
  /\ Part(cursor_pos, text_length) = Slice(text, cursor_pos, text_length)
  /\ Part(cursor_pos, text_length)' = Slice(text', cursor_pos', text_length')
BY DEF Part, Slice

\* A part of a text is as long as its ends are apart.
LEMMA SliceSeq ==
  ASSUME NEW t \in Bytes, NEW from \in Nat, NEW to \in Nat, from <= to, to < MAX_TEXT_SIZE
  PROVE  /\ Slice(t, from, to) \in Seq(Byte) /\ Len(Slice(t, from, to)) = to - from
         /\ \A i \in 1 .. (to - from) : Slice(t, from, to)[i] = t[from + i - 1]
<1> DEFINE n == to - from
           f == Slice(t, from, to)
<1>1. n \in Nat
  OBVIOUS
<1>2. ASSUME NEW i \in 1 .. n PROVE from + i - 1 \in Position
  BY EditorAssumption DEF Position
<1>3. ASSUME NEW i \in 1 .. n PROVE f[i] = t[from + i - 1] /\ f[i] \in Byte
  BY <1>2 DEF Bytes, Slice
<1>4. f \in [1 .. n -> Byte]
  BY <1>3 DEF Slice
<1> HIDE DEF f, n
<1>5. f \in Seq(Byte) /\ Len(f) = n
  BY <1>1, <1>4, AsSeq
<1> QED  BY <1>3, <1>5 DEF f, n

LEMMA Start ==
  ASSUME NEW t \in Bytes, NEW p \in Nat, p < MAX_TEXT_SIZE
  PROVE  /\ Slice(t, 0, p) \in Seq(Byte) /\ Len(Slice(t, 0, p)) = p
         /\ \A i \in 1 .. p : Slice(t, 0, p)[i] = t[i - 1]
<1>1. 0 \in Nat /\ 0 <= p /\ p - 0 = p
  OBVIOUS
<1>2. /\ Slice(t, 0, p) \in Seq(Byte) /\ Len(Slice(t, 0, p)) = p - 0
      /\ \A i \in 1 .. (p - 0) : Slice(t, 0, p)[i] = t[0 + i - 1]
  BY <1>1, SliceSeq
<1> QED  BY <1>1, <1>2

\* Erasing takes the last character before the cursor, and leaves what is behind it.
LEMMA ErasedBytes ==
  ASSUME NEW t \in Bytes, NEW n \in Nat, NEW p \in Nat, p <= n, n < MAX_TEXT_SIZE, p > 0
  PROVE  /\ Erased(t, n, p) \in Bytes
         /\ Slice(Erased(t, n, p), 0, p - 1) = Text!Front(Slice(t, 0, p))
         /\ Slice(t, 0, p) # <<>>
         /\ Slice(Erased(t, n, p), p - 1, n - 1) = Slice(t, p, n)
<1> DEFINE u == Erased(t, n, p)
           x == Slice(t, 0, p)
           y == Slice(u, 0, p - 1)
<1>1. MAX_TEXT_SIZE \in Nat /\ Position = 0 .. (MAX_TEXT_SIZE - 1)
  BY EditorAssumption DEF Position
<1>2. \A i \in Position : u[i] = IF i >= p - 1 /\ i < n - 1 THEN t[i + 1] ELSE t[i]
  BY DEF Erased
<1>3. u \in Bytes
  <2>1. ASSUME NEW i \in Position, i < n - 1 PROVE t[i + 1] \in Byte
    BY <1>1, <2>1 DEF Bytes
  <2> QED  BY <2>1 DEF Erased, Bytes
<1>4. p - 1 \in Nat /\ n - 1 \in Nat /\ p - 1 <= n - 1 /\ n - 1 < MAX_TEXT_SIZE
        /\ p - 1 < MAX_TEXT_SIZE
  BY <1>1
<1> HIDE DEF u
<1>5. x \in Seq(Byte) /\ Len(x) = p /\ \A i \in 1 .. p : x[i] = t[i - 1]
  <2>1. p < MAX_TEXT_SIZE
    BY <1>1, <1>4
  <2> QED  BY <2>1, Start
<1>6. y \in Seq(Byte) /\ Len(y) = p - 1 /\ \A i \in 1 .. (p - 1) : y[i] = u[i - 1]
  <2>1. PICK m : m = p - 1
    OBVIOUS
  <2>2. /\ Slice(u, 0, m) \in Seq(Byte) /\ Len(Slice(u, 0, m)) = m
        /\ \A i \in 1 .. m : Slice(u, 0, m)[i] = u[i - 1]
    BY <1>3, <1>4, <2>1, Start
  <2> QED  BY <2>1, <2>2
<1> HIDE DEF x, y
<1>7. ASSUME NEW i \in 1 .. (p - 1) PROVE y[i] = x[i]
  <2>1. i \in 1 .. p /\ i - 1 \in Position /\ ~(i - 1 >= p - 1)
    BY <1>1
  <2>2. u[i - 1] = t[i - 1]
    BY <1>2, <2>1
  <2> QED  BY <1>5, <1>6, <2>1, <2>2
<1>8. y = Text!Front(x)
  BY <1>4, <1>5, <1>6, <1>7, WithoutLast
<1>9. x # <<>>
  BY <1>5
<1>10. Slice(u, p - 1, n - 1) = Slice(t, p, n)
  <2>1. PICK a, b : a = p - 1 /\ b = n - 1
    OBVIOUS
  <2>2. a \in Nat /\ b \in Nat /\ a <= b /\ b < MAX_TEXT_SIZE /\ b - a = n - p
    BY <1>4, <2>1
  <2>3. ASSUME NEW i \in 1 .. (b - a) PROVE u[a + i - 1] = t[p + i - 1]
    BY <1>1, <1>2, <2>1
  <2>4. Slice(u, a, b) = Slice(t, p, n)
    BY <2>2, <2>3 DEF Slice
  <2> QED  BY <2>1, <2>4
<1> QED  BY <1>3, <1>8, <1>9, <1>10 DEF u, x, y

\* Inserting adds one before the cursor.
LEMMA InsertedBytes ==
  ASSUME NEW t \in Bytes, NEW n \in Nat, NEW p \in Nat, p <= n, n + 1 < MAX_TEXT_SIZE,
         NEW key \in Char
  PROVE  /\ Inserted(t, n, p, key) \in Bytes
         /\ Slice(Inserted(t, n, p, key), 0, p + 1) = Append(Slice(t, 0, p), key)
         /\ Slice(Inserted(t, n, p, key), p + 1, n + 1) = Slice(t, p, n)
<1> DEFINE u == Inserted(t, n, p, key)
           x == Slice(t, 0, p)
           y == Slice(u, 0, p + 1)
<1>1. MAX_TEXT_SIZE \in Nat /\ Position = 0 .. (MAX_TEXT_SIZE - 1)
  BY EditorAssumption DEF Position
<1>2. \A i \in Position :
           u[i] = IF i = p THEN key ELSE IF i > p /\ i <= n THEN t[i - 1] ELSE t[i]
  BY DEF Inserted
<1>3. u \in Bytes
  <2>1. ASSUME NEW i \in Position, i > p PROVE t[i - 1] \in Byte
    BY <1>1, <2>1 DEF Bytes
  <2> QED  BY <2>1 DEF Inserted, Bytes, Byte
<1>4. p + 1 \in Nat /\ n + 1 \in Nat /\ p + 1 <= n + 1 /\ p + 1 < MAX_TEXT_SIZE
        /\ n < MAX_TEXT_SIZE
  BY <1>1
<1> HIDE DEF u
<1>5. x \in Seq(Byte) /\ Len(x) = p /\ \A i \in 1 .. p : x[i] = t[i - 1]
  <2>1. p < MAX_TEXT_SIZE
    BY <1>1, <1>4
  <2> QED  BY <2>1, Start
<1>6. y \in Seq(Byte) /\ Len(y) = p + 1 /\ \A i \in 1 .. (p + 1) : y[i] = u[i - 1]
  <2>1. PICK m : m = p + 1
    OBVIOUS
  <2>2. /\ Slice(u, 0, m) \in Seq(Byte) /\ Len(Slice(u, 0, m)) = m
        /\ \A i \in 1 .. m : Slice(u, 0, m)[i] = u[i - 1]
    BY <1>3, <1>4, <2>1, Start
  <2> QED  BY <2>1, <2>2
<1> HIDE DEF x, y
<1>7. ASSUME NEW i \in 1 .. p PROVE y[i] = x[i]
  <2>1. i \in 1 .. (p + 1) /\ i - 1 \in Position /\ i - 1 # p /\ ~(i - 1 > p)
    BY <1>1, <1>4
  <2>2. u[i - 1] = t[i - 1]
    BY <1>2, <2>1
  <2> QED  BY <1>5, <1>6, <2>1, <2>2
<1>8. y[p + 1] = key
  <2>1. p + 1 \in 1 .. (p + 1) /\ (p + 1) - 1 = p /\ p \in Position
    BY <1>1, <1>4
  <2>2. u[p] = key
    BY <1>2, <2>1
  <2> QED  BY <1>6, <2>1, <2>2
<1>9. y = Append(x, key)
  BY <1>4, <1>5, <1>6, <1>7, <1>8, Appended DEF Byte
<1>10. Slice(u, p + 1, n + 1) = Slice(t, p, n)
  <2>1. PICK a, b : a = p + 1 /\ b = n + 1
    OBVIOUS
  <2>2. a \in Nat /\ b \in Nat /\ a <= b /\ b < MAX_TEXT_SIZE /\ b - a = n - p
    BY <1>4, <2>1
  <2>3. ASSUME NEW i \in 1 .. (b - a) PROVE u[a + i - 1] = t[p + i - 1]
    BY <1>1, <1>2, <2>1
  <2>4. Slice(u, a, b) = Slice(t, p, n)
    BY <2>2, <2>3 DEF Slice
  <2> QED  BY <2>1, <2>4
<1> QED  BY <1>3, <1>9, <1>10 DEF u, x, y

-----------------------------------------------------------------------------
(* The refinement.                                                         *)

\* What waits in the ring are characters, and what the reader has read, or
\* taken, is one: the first of them as long as the index has not moved.
QueueInv ==
  /\ Waiting \in Seq(Char)
  /\ reader = "read" => Waiting # <<>> /\ c = Head(Waiting)
  /\ reader = "got" => c \in Char

LEMMA RingFacts ==
  ASSUME RingTypeOK
  PROVE  /\ keyboard_buffer \in Cells
         /\ buffer_read_index \in Index /\ buffer_write_index \in Index
BY DEF RingTypeOK, Cells, Byte

\* A key puts its character behind the others, or nothing.
LEMMA PressPuts ==
  ASSUME RingTypeOK, NEW sc \in Code, Press(sc)
  PROVE  \/ UNCHANGED Waiting
         \/ \E ch \in Char :
               Waiting' = IF Len(Waiting) < Size - 1 THEN Append(Waiting, ch) ELSE Waiting
<1> DEFINE b == keyboard_buffer
           r == buffer_read_index
           w == buffer_write_index
<1>1. b \in Cells /\ r \in Index /\ w \in Index
  BY RingFacts
<1>2. CASE UNCHANGED <<b, r, w>>
  BY <1>2, IsWaiting
<1>3. CASE ~UNCHANGED <<b, r, w>>
  <2>1. PICK ch : ch = Lookup(sc)
    OBVIOUS
  <2>2. /\ ch \in Char /\ Following(w) # r /\ r' = r
        /\ b' = [b EXCEPT ![w] = ch] /\ w' = Following(w)
    <3>1. Lookup(sc) \in Char \cup {Nothing}
      BY KeyboardAssumption DEF Lookup, RingTypeOK
    <3> QED  BY <1>3, <2>1, <3>1 DEF Press, keyboard_buffer_add, Full
  <2>3. ch \in Byte
    BY <2>2 DEF Byte
  <2>4. Len(Waiting) = Count(r, w) /\ Waiting = Ring(b, r, w)
    BY <1>1, IsWaiting, RingSeq
  <2>5. Waiting' = Ring([b EXCEPT ![w] = ch], r, Following(w))
    BY <2>2, IsWaiting
  <2>6. Count(r, w) < Size - 1
          /\ Ring([b EXCEPT ![w] = ch], r, Following(w)) = Append(Ring(b, r, w), ch)
    BY <1>1, <2>2, <2>3, RingPut
  <2> QED  BY <2>2, <2>4, <2>5, <2>6
<1> QED  BY <1>2, <1>3

\* The first one is taken as the index moves.
LEMMA AdvanceTakes ==
  ASSUME RingTypeOK, QueueInv, AdvanceRead
  PROVE  /\ reader = "read" /\ reader' = "got" /\ c' = Head(Waiting) /\ Waiting # <<>>
         /\ Waiting' = Tail(Waiting)
<1>1. /\ reader = "read" /\ reader' = "got" /\ c' = c
           /\ buffer_read_index' = Following(buffer_read_index)
      /\ UNCHANGED <<keyboard_buffer, buffer_write_index>>
  BY DEF AdvanceRead
<1>2. Waiting # <<>> /\ c = Head(Waiting)
  BY <1>1 DEF QueueInv
<1>3. /\ keyboard_buffer \in Cells /\ buffer_read_index \in Index
           /\ buffer_write_index \in Index
  BY RingFacts
<1>4. buffer_read_index # buffer_write_index
  <2> SUFFICES ASSUME buffer_read_index = buffer_write_index PROVE FALSE
    OBVIOUS
  <2>1. Len(Waiting) = Count(buffer_read_index, buffer_write_index)
    BY <1>3, IsWaiting, RingSeq
  <2>2. Len(Waiting) = 0
    BY <1>3, <2>1, SizeType DEF Count
  <2>3. Waiting = <<>>
    BY <2>2 DEF QueueInv
  <2> QED  BY <1>2, <2>3
<1>5. Ring(keyboard_buffer, Following(buffer_read_index), buffer_write_index)
        = Tail(Ring(keyboard_buffer, buffer_read_index, buffer_write_index))
  BY <1>3, <1>4, RingTake
<1>6. Waiting' = Ring(keyboard_buffer, Following(buffer_read_index), buffer_write_index)
  BY <1>1, IsWaiting
<1>7. Waiting = Ring(keyboard_buffer, buffer_read_index, buffer_write_index)
  BY IsWaiting
<1> QED  BY <1>1, <1>2, <1>5, <1>6, <1>7

\* It is the one that was read.
LEMMA ReadIsFirst ==
  ASSUME RingTypeOK, ReadChar
  PROVE  /\ reader = "idle" /\ reader' = "read"
         /\ UNCHANGED Waiting /\ Waiting # <<>> /\ c' = Head(Waiting)
<1>1. /\ reader = "idle" /\ reader' = "read" /\ buffer_read_index # buffer_write_index
      /\ c' = keyboard_buffer[buffer_read_index]
      /\ UNCHANGED <<keyboard_buffer, buffer_read_index, buffer_write_index>>
  BY DEF ReadChar, keyboard_has_input
<1>2. keyboard_buffer \in Cells /\ buffer_read_index \in Index
        /\ buffer_write_index \in Index
  BY RingFacts
<1>3. PICK q : q = Ring(keyboard_buffer, buffer_read_index, buffer_write_index)
  OBVIOUS
<1>4. q # <<>> /\ Head(q) = keyboard_buffer[buffer_read_index]
  BY <1>1, <1>2, <1>3, RingTake
<1>5. Waiting = q /\ Waiting' = q
  BY <1>1, <1>3, IsWaiting
<1> QED  BY <1>1, <1>4, <1>5

LEMMA RingStill ==
  ASSUME UNCHANGED <<keyboard_buffer, buffer_read_index, buffer_write_index>>
  PROVE  UNCHANGED Waiting
BY IsWaiting

\* The steps keep the invariant.
LEMMA QueueStep == Inv /\ QueueInv /\ [Next]_vars => QueueInv'
<1> SUFFICES ASSUME Inv, QueueInv, [Next]_vars PROVE QueueInv'
  OBVIOUS
<1> USE DEF QueueInv
<1>0. RingTypeOK
  BY DEF Inv
<1>1. ASSUME NEW sc \in Code, Press(sc) PROVE QueueInv'
  <2>1. UNCHANGED <<reader, c>>
    BY <1>1 DEF Press
  <2>2. CASE UNCHANGED Waiting
    BY <2>1, <2>2
  <2>3. CASE \E ch \in Char :
               Waiting' = IF Len(Waiting) < Size - 1 THEN Append(Waiting, ch) ELSE Waiting
    <3>1. PICK ch \in Char, q \in Seq(Char) : q = Waiting
            /\ (Waiting' = Append(q, ch) \/ Waiting' = q)
      BY <2>3
    <3>2. /\ Append(q, ch) \in Seq(Char)
          /\ q # <<>> => Append(q, ch) # <<>> /\ Head(Append(q, ch)) = Head(q)
      OBVIOUS
    <3> QED  BY <2>1, <3>1, <3>2
  <2> QED  BY <1>0, <1>1, <2>2, <2>3, PressPuts
<1>2. ASSUME NEW sc \in Code, Release(sc) PROVE QueueInv'
  <2>1. UNCHANGED <<reader, c>> /\ UNCHANGED Waiting
    BY <1>2, RingStill DEF Release
  <2> QED  BY <2>1
<1>3. CASE ReadChar
  <2>1. reader' = "read" /\ UNCHANGED Waiting /\ Waiting # <<>> /\ c' = Head(Waiting)
    BY <1>0, <1>3, ReadIsFirst
  <2> QED  BY <2>1
<1>4. CASE AdvanceRead
  <2>1. PICK q \in Seq(Char) : q = Waiting /\ q # <<>> /\ reader' = "got"
          /\ c' = Head(q) /\ Waiting' = Tail(q)
    BY <1>0, <1>4, AdvanceTakes
  <2>2. Head(q) \in Char /\ Tail(q) \in Seq(Char)
    BY <2>1
  <2> QED  BY <2>1, <2>2
<1>5. CASE gui_handle_keyboard
  <2>1. reader' = "idle" /\ UNCHANGED Waiting
    BY <1>5, RingStill DEF gui_handle_keyboard
  <2> QED  BY <2>1
<1>6. CASE UNCHANGED ring
  <2>1. UNCHANGED <<reader, c>> /\ UNCHANGED Waiting
    BY <1>6, RingStill DEF ring
  <2> QED  BY <2>1
<1> QED  BY <1>1, <1>2, <1>3, <1>4, <1>5, <1>6 DEF Next, Key, TakeKey, OpenFile, vars

LEMMA QueueStarts == Init => QueueInv
<1> SUFFICES ASSUME Init PROVE QueueInv
  OBVIOUS
<1>1. keyboard_buffer \in Cells /\ buffer_read_index = 0 /\ buffer_write_index = 0
        /\ 0 \in Index /\ reader = "idle"
  BY SizeType DEF Init, RingInit, Cells, Byte
<1>2. Waiting \in Seq(Byte) /\ Len(Waiting) = Count(0, 0) /\ Count(0, 0) = 0
  BY <1>1, IsWaiting, RingSeq DEF Count
<1>3. Waiting = <<>>
  BY <1>2
<1> QED  BY <1>1, <1>3 DEF QueueInv

\* What the editor does with a character is what a text with a cursor does.
LEMMA KeyWrites ==
  ASSUME EditorInv, NEW key \in Char, text_editor_handle_key(key)
  PROVE  /\ UNCHANGED <<window, Part(cursor_pos, text_length)>>
         /\ Part(0, cursor_pos)' = IF window THEN Text!Typed(key) ELSE Part(0, cursor_pos)
<1>1. /\ text \in Bytes /\ text_length \in Nat /\ cursor_pos \in Nat
      /\ cursor_pos <= text_length /\ text_length < MAX_TEXT_SIZE /\ MAX_TEXT_SIZE \in Nat
      /\ window \in BOOLEAN
  BY EditorAssumption DEF EditorInv, EditorTypeOK, CursorInText, Bytes, Byte
<1>2. PICK t, n, p, before, after :
        /\ t = text /\ n = text_length /\ p = cursor_pos
        /\ before = Slice(t, 0, p) /\ after = Slice(t, p, n)
  OBVIOUS
<1>3. Part(0, cursor_pos) = before /\ Part(cursor_pos, text_length) = after
  BY <1>2, IsPart
<1>4. /\ t \in Bytes /\ n \in Nat /\ p \in Nat /\ p <= n /\ n < MAX_TEXT_SIZE
  BY <1>1, <1>2
<1>5. /\ before \in Seq(Byte) /\ Len(before) = p /\ after \in Seq(Byte)
           /\ Len(after) = n - p
      /\ before # <<>> <=> p > 0
  <2>1. p < MAX_TEXT_SIZE
    BY <1>1, <1>4
  <2>2. before \in Seq(Byte) /\ Len(before) = p
    BY <1>2, <1>4, <2>1, Start
  <2>3. after \in Seq(Byte) /\ Len(after) = n - p
    BY <1>2, <1>4, SliceSeq
  <2> QED  BY <1>4, <2>2, <2>3
<1>6. Text!Typed(key) =
        CASE key = Backspace /\ before # <<>> -> Text!Front(before)
          [] key \in Printable \cup {Newline}
            /\ Len(before) + Len(after) < MAX_TEXT_SIZE - 1 ->
               Append(before, key)
          [] OTHER -> before
  BY <1>3 DEF Text!Typed
<1>7. Len(before) + Len(after) = n
  BY <1>4, <1>5
<1>8. CASE window /\ CanErase(key) /\ UNCHANGED window
           /\ Settle(Erased(text, text_length, cursor_pos), text_length - 1, cursor_pos - 1)
  <2>1. /\ text' = Erased(t, n, p) /\ text_length' = n - 1 /\ cursor_pos' = p - 1
        /\ key = Backspace /\ p > 0
    BY <1>2, <1>8 DEF Settle, CanErase
  <2>2. Slice(Erased(t, n, p), 0, p - 1) = Text!Front(before)
          /\ Slice(Erased(t, n, p), p - 1, n - 1) = after
    BY <1>2, <1>4, <2>1, ErasedBytes
  <2>3. Part(0, cursor_pos)' = Text!Front(before) /\ Part(cursor_pos, text_length)' = after
    BY <2>1, <2>2, IsPart
  <2>4. Text!Typed(key) = Text!Front(before)
    <3>1. key \notin Printable \cup {Newline}
      BY <2>1, CharacterAssumption
    <3> QED  BY <1>5, <1>6, <2>1, <3>1
  <2> QED  BY <1>3, <1>8, <2>3, <2>4
<1>9. CASE window /\ CanInsert(key) /\ UNCHANGED window
           /\ Settle(Inserted(text, text_length, cursor_pos, key), text_length + 1, cursor_pos + 1)
  <2>1. /\ text' = Inserted(t, n, p, key) /\ text_length' = n + 1 /\ cursor_pos' = p + 1
        /\ key \in Printable \cup {Newline} /\ n < MAX_TEXT_SIZE - 1
    BY <1>2, <1>9 DEF Settle, CanInsert
  <2>2. n + 1 < MAX_TEXT_SIZE
    BY <1>1, <1>4, <2>1
  <2>3. Slice(Inserted(t, n, p, key), 0, p + 1) = Append(before, key)
        /\ Slice(Inserted(t, n, p, key), p + 1, n + 1) = after
    BY <1>2, <1>4, <2>2, InsertedBytes
  <2>4. Part(0, cursor_pos)' = Append(before, key) /\ Part(cursor_pos, text_length)' = after
    BY <2>1, <2>3, IsPart
  <2>5. Text!Typed(key) = Append(before, key)
    <3>1. key # Backspace
      BY <2>1, CharacterAssumption
    <3> QED  BY <1>6, <1>7, <2>1, <3>1
  <2> QED  BY <1>3, <1>9, <2>4, <2>5
<1>10. CASE window /\ ~CanErase(key) /\ ~CanInsert(key)
            /\ UNCHANGED <<window, text, text_length, cursor_pos>>
  <2>1. Part(0, cursor_pos)' = before /\ Part(cursor_pos, text_length)' = after
    BY <1>2, <1>10, IsPart
  <2>2. Text!Typed(key) = before
    <3>1. ~(key = Backspace /\ before # <<>>)
      BY <1>2, <1>5, <1>10 DEF CanErase
    <3>2. ~(key \in Printable \cup {Newline}
            /\ Len(before) + Len(after) < MAX_TEXT_SIZE - 1)
      BY <1>2, <1>7, <1>10 DEF CanInsert
    <3> QED  BY <1>6, <3>1, <3>2
  <2> QED  BY <1>3, <1>10, <2>1, <2>2
<1>11. CASE ~window /\ UNCHANGED editor
  <2>1. Part(0, cursor_pos)' = before /\ Part(cursor_pos, text_length)' = after
    BY <1>2, <1>11, IsPart DEF editor
  <2> QED  BY <1>3, <1>11, <2>1 DEF editor
<1> QED  BY <1>8, <1>9, <1>10, <1>11 DEF text_editor_handle_key

LEMMA PartsStill ==
  ASSUME UNCHANGED <<text, text_length, cursor_pos>>
  PROVE  UNCHANGED <<Part(0, cursor_pos), Part(cursor_pos, text_length)>>
BY IsPart

\* Opening puts the cursor before the file, when there is room for it.
LEMMA OpenShows ==
  ASSUME NEW f \in Files, NEW room \in BOOLEAN, text_editor_open(f, room)
  PROVE  /\ window' = room /\ Part(0, cursor_pos)' = <<>>
         /\ Part(cursor_pos, text_length)' = IF room
              /\ Len(f) <= MAX_TEXT_SIZE - 1 THEN f ELSE <<>>
<1> DEFINE loaded == IF room /\ Fits(f) THEN f ELSE <<>>
<1>1. f \in Seq(Char) /\ MAX_TEXT_SIZE \in Nat \ {0} /\ Len(f) \in Nat
  BY FilesAssumption, EditorAssumption
<1>2. loaded = IF room /\ Len(f) <= MAX_TEXT_SIZE - 1 THEN f ELSE <<>>
  BY <1>1 DEF Fits
<1>3. loaded \in Seq(Char) /\ Len(loaded) \in Nat /\ Len(loaded) < MAX_TEXT_SIZE
  BY <1>1 DEF Fits
<1>4. /\ window' = room /\ text_length' = Len(loaded) /\ cursor_pos' = 0
      /\ text' = [i \in Position |-> IF i < Len(loaded) THEN loaded[i + 1] ELSE Nothing]
  BY DEF text_editor_open
<1> HIDE DEF loaded
<1>5. PICK t, s, n : t = text' /\ s = loaded /\ n = Len(loaded)
  OBVIOUS
<1>6. s \in Seq(Char) /\ s \in Seq(Byte) /\ Len(s) = n /\ n \in Nat /\ n < MAX_TEXT_SIZE
  BY <1>3, <1>5, SeqMonotonic DEF Byte
<1>7. ASSUME NEW i \in 1 .. n PROVE s[i] \in Char
  BY <1>6
<1>8. t = [i \in Position |-> IF i < n THEN s[i + 1] ELSE Nothing]
        /\ Position = 0 .. (MAX_TEXT_SIZE - 1)
  BY <1>4, <1>5 DEF Position
<1>9. t \in Bytes
  <2>1. ASSUME NEW i \in Position, i < n PROVE s[i + 1] \in Byte
    BY <1>1, <1>6, <1>7, <1>8, <2>1 DEF Byte
  <2> QED  BY <1>8, <2>1 DEF Bytes, Byte
<1>10. /\ Slice(t, 0, n) \in Seq(Byte) /\ Len(Slice(t, 0, n)) = n
       /\ \A i \in 1 .. n : Slice(t, 0, n)[i] = t[i - 1]
  BY <1>6, <1>9, Start
<1>11. ASSUME NEW i \in 1 .. n PROVE Slice(t, 0, n)[i] = s[i]
  BY <1>1, <1>6, <1>8, <1>10
<1>12. Slice(t, 0, n) = s
  BY <1>6, <1>10, <1>11, SeqEqual
<1>13. Slice(t, 0, 0) = <<>>
  <2>1. 0 \in Nat /\ 0 < MAX_TEXT_SIZE
    BY <1>1
  <2>2. Slice(t, 0, 0) \in Seq(Byte) /\ Len(Slice(t, 0, 0)) = 0
    BY <1>9, <2>1, Start
  <2> QED  BY <2>2
<1> QED  BY <1>2, <1>4, <1>5, <1>12, <1>13, IsPart

\* Every step is one of the text's, or none of it.
LEMMA TextStep == Inv /\ QueueInv /\ [Next]_vars => [Text!Next]_(Text!vars)
<1> SUFFICES ASSUME Inv, QueueInv, [Next]_vars
             PROVE  Text!Next \/ UNCHANGED Text!vars
  OBVIOUS
<1>0. RingTypeOK /\ EditorInv
  BY DEF Inv
<1>1. ASSUME NEW sc \in Code, Press(sc), UNCHANGED editor
      PROVE  (\E ch \in Char : Text!Key(ch)) \/ UNCHANGED Text!vars
  <2>1. UNCHANGED <<reader, c>>
    BY <1>1 DEF Press
  <2>2. UNCHANGED <<window, Part(0, cursor_pos), Part(cursor_pos, text_length)>>
    BY <1>1, PartsStill DEF editor
  <2>3. CASE UNCHANGED Waiting
    BY <2>1, <2>2, <2>3 DEF Text!vars
  <2>4. CASE \E ch \in Char :
               Waiting' = IF Len(Waiting) < Size - 1 THEN Append(Waiting, ch) ELSE Waiting
    BY <2>1, <2>2, <2>4 DEF Text!Key, Size
  <2> QED  BY <1>0, <1>1, <2>3, <2>4, PressPuts
<1>2. ASSUME NEW sc \in Code, Release(sc), UNCHANGED editor PROVE UNCHANGED Text!vars
  <2>1. UNCHANGED <<reader, c, Waiting>>
    BY <1>2, RingStill DEF Release
  <2>2. UNCHANGED <<window, Part(0, cursor_pos), Part(cursor_pos, text_length)>>
    BY <1>2, PartsStill DEF editor
  <2> QED  BY <2>1, <2>2 DEF Text!vars
<1>3. ASSUME ReadChar, UNCHANGED editor PROVE UNCHANGED Text!vars
  <2>1. reader = "idle" /\ reader' = "read" /\ UNCHANGED Waiting
    BY <1>0, <1>3, ReadIsFirst
  <2>2. UNCHANGED <<window, Part(0, cursor_pos), Part(cursor_pos, text_length)>>
    BY <1>3, PartsStill DEF editor
  <2> QED  BY <2>1, <2>2 DEF Text!vars
<1>4. ASSUME AdvanceRead, UNCHANGED editor PROVE Text!Take
  <2>1. /\ reader = "read" /\ reader' = "got" /\ c' = Head(Waiting) /\ Waiting # <<>>
        /\ Waiting' = Tail(Waiting)
    BY <1>0, <1>4, AdvanceTakes
  <2>2. UNCHANGED <<window, Part(0, cursor_pos), Part(cursor_pos, text_length)>>
    BY <1>4, PartsStill DEF editor
  <2> QED  BY <2>1, <2>2 DEF Text!Take
<1>5. ASSUME gui_handle_keyboard PROVE Text!Write
  <2>1. reader = "got" /\ reader' = "idle" /\ text_editor_handle_key(c) /\ UNCHANGED Waiting
    BY <1>5, RingStill DEF gui_handle_keyboard
  <2>2. c \in Char /\ c # Nothing
    BY <2>1, CharacterAssumption DEF QueueInv
  <2>3. /\ UNCHANGED <<window, Part(cursor_pos, text_length)>>
        /\ Part(0, cursor_pos)' = IF window THEN Text!Typed(c) ELSE Part(0, cursor_pos)
    BY <1>0, <2>1, <2>2, KeyWrites
  <2> QED  BY <2>1, <2>2, <2>3 DEF Text!Write
<1>6. ASSUME OpenFile PROVE Text!OpenFile
  <2>1. PICK f \in Files, room \in BOOLEAN : text_editor_open(f, room)
    BY <1>6 DEF OpenFile
  <2>2. reader = "idle" /\ UNCHANGED <<reader, c, Waiting>>
    BY <1>6, RingStill DEF OpenFile, ring
  <2>3. /\ window' = room /\ Part(0, cursor_pos)' = <<>>
        /\ Part(cursor_pos, text_length)' = IF room
             /\ Len(f) <= MAX_TEXT_SIZE - 1 THEN f ELSE <<>>
    BY <2>1, OpenShows
  <2> QED  BY <2>2, <2>3 DEF Text!OpenFile
<1>7. ASSUME UNCHANGED vars PROVE UNCHANGED Text!vars
  <2>1. UNCHANGED <<reader, c, Waiting>>
    BY <1>7, RingStill DEF vars, ring
  <2>2. UNCHANGED <<window, Part(0, cursor_pos), Part(cursor_pos, text_length)>>
    BY <1>7, PartsStill DEF vars, editor
  <2> QED  BY <2>1, <2>2 DEF Text!vars
<1> QED  BY <1>1, <1>2, <1>3, <1>4, <1>5, <1>6, <1>7 DEF Next, Key, TakeKey, Text!Next

LEMMA TextStarts == Init => Text!Init
<1> SUFFICES ASSUME Init PROVE Text!Init
  OBVIOUS
<1>1. Waiting = <<>>
  <2>1. keyboard_buffer \in Cells /\ buffer_read_index = 0 /\ buffer_write_index = 0
          /\ 0 \in Index
    BY SizeType DEF Init, RingInit, Cells, Byte
  <2>2. Waiting \in Seq(Byte) /\ Len(Waiting) = Count(0, 0) /\ Count(0, 0) = 0
    BY <2>1, IsWaiting, RingSeq DEF Count
  <2> QED  BY <2>2
<1>2. text \in Bytes /\ text_length = 0 /\ cursor_pos = 0
  BY DEF Init, EditorInit, Empty, Bytes, Byte
<1>3. Slice(text, 0, 0) = <<>>
  <2>1. PICK t : t = text
    OBVIOUS
  <2>2. 0 \in Nat /\ 0 < MAX_TEXT_SIZE /\ t \in Bytes
    BY <1>2, <2>1, EditorAssumption
  <2>3. Slice(t, 0, 0) \in Seq(Byte) /\ Len(Slice(t, 0, 0)) = 0
    BY <2>2, Start
  <2> QED  BY <2>1, <2>3
<1>4. Part(0, cursor_pos) = <<>> /\ Part(cursor_pos, text_length) = <<>>
  BY <1>2, <1>3, IsPart
<1> QED  BY <1>1, <1>4 DEF Init, RingInit, EditorInit, Text!Init

\* keyboard.c, gui.c:80-102 and text_editor.c:133-168: every key that finds room in
\* the ring reaches the text, once and in order, and nothing else does, for every
\* size of the ring and of the text, every map of the keys and every file.
THEOREM TypingIsText == Spec => Text!Init /\ [][Text!Next]_(Text!vars)
<1>1. Init => Inv /\ QueueInv /\ Text!Init
  BY InitInv, QueueStarts, TextStarts
<1> QED  BY <1>1, NextInv, QueueStep, TextStep, PTL DEF Spec
=============================================================================
