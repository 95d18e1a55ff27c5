----------------------------- MODULE ShellProofs ------------------------------
(***************************************************************************)
(* Theorems about Shell, for every size of the ring and every number a     *)
(* user may type: how deep execute can nest.                               *)
(***************************************************************************)
EXTENDS Shell, SequenceTheorems, TLAPS

\* Two numbers less than a ring apart have different slots.
LEMMA SlotsApart ==
  ASSUME NEW a \in Nat, NEW b \in Nat, a < b, b < a + MAX_HISTORY
  PROVE  Slot(a) # Slot(b)
<1> DEFINE H == MAX_HISTORY  qa == a \div H  qb == b \div H
<1>1. H \in Nat /\ H > 0
  BY HistoryAssumption
<1>2. qa \in Int /\ qb \in Int /\ a = H * qa + (a % H) /\ b = H * qb + (b % H)
  BY <1>1, SMT
<1>3. SUFFICES ASSUME a % H = b % H PROVE FALSE
  BY DEF Slot
<1>4. b - a = H * (qb - qa) /\ 0 < b - a /\ b - a < H
  BY <1>1, <1>2, <1>3, SMT
<1>5. CASE qb - qa <= 0
  BY <1>1, <1>2, <1>4, <1>5, SMT
<1>6. CASE qb - qa >= 1
  <2>1. H * (qb - qa) >= H
    BY <1>1, <1>2, <1>6, SMT
  <2> QED BY <1>1, <1>4, <2>1, SMT
<1> QED BY <1>2, <1>5, <1>6, SMT

\* Of the first count lines, those the ring still has.
InRing(k, count) == k \in Nat /\ k < count /\ count <= k + MAX_HISTORY

ShellTypeOK ==
  /\ linebuf \in Command \cup {NoLine} /\ (depth > 0 => linebuf # NoLine)
  /\ history \in [Slots -> Command \cup {NoLine}]
  /\ hist_count \in Nat /\ depth \in Nat /\ depth <= hist_count + 1
  /\ \A k : InRing(k, hist_count) => history[Slot(k)] \in Command

\* While a recall goes on: the number of the line the user typed, and what
\* bounds the numbers the recalled lines hold. A line that recalls a line of
\* before can hold a number behind it, but only as long as one of these is in
\* the ring.
Typed == hist_count - depth + 1
Low(c, typed) == c.n % Word < typed + MAX_HISTORY
NestInv ==
  depth > 0 =>
    /\ \A k : InRing(k, hist_count) /\ k >= Typed => Low(history[Slot(k)], Typed)
    /\ depth > MAX_HISTORY /\ linebuf.op = "recall" => Low(linebuf, Typed)

LEMMA SlotIsSlot ==
  ASSUME NEW k \in Nat
  PROVE  Slot(k) \in Slots
BY HistoryAssumption, SMT DEF Slot, Slots

LEMMA NumberIsNumber ==
  ASSUME NEW c \in Command
  PROVE  c.n % Word \in Nat
<1>1. c.n \in Int
  <2>1. CASE c \in [op : {"recall"}, n : Number]
    BY <2>1, HistoryAssumption
  <2>2. CASE c \in [op : {"other", "leaves"}, n : {0}]
    BY <2>2
  <2> QED BY <2>1, <2>2 DEF Command
<1>2. \A i, w \in Int : w > 0 => i % w \in Nat
  BY SMT
<1>3. Word \in Int /\ Word > 0
  BY HistoryAssumption
<1> QED BY <1>1, <1>2, <1>3, Zenon

LEMMA NoLineIsNoCommand == NoLine \notin Command
BY DEF NoLine, Command

\* What execute saves takes the slot of the line that leaves the ring.
LEMMA SaveKeepsRing ==
  ASSUME ShellTypeOK, history' = Saved, hist_count' = hist_count + 1
  PROVE  /\ history'[Slot(hist_count)] = linebuf
         /\ \A k : InRing(k, hist_count') => k = hist_count \/ (InRing(k, hist_count) /\ history'[Slot(k)] = history[Slot(k)])
<1>1. Slot(hist_count) \in Slots
  BY SlotIsSlot DEF ShellTypeOK
<1>2. ASSUME NEW k, InRing(k, hist_count'), k # hist_count
      PROVE  InRing(k, hist_count) /\ history'[Slot(k)] = history[Slot(k)]
  <2>1. k \in Nat /\ k < hist_count /\ hist_count < k + MAX_HISTORY
    BY <1>2, HistoryAssumption DEF InRing, ShellTypeOK
  <2>2. Slot(k) # Slot(hist_count) /\ Slot(k) \in Slots
    BY <2>1, SlotsApart, SlotIsSlot DEF ShellTypeOK
  <2> QED BY <2>1, <2>2, <1>1, HistoryAssumption DEF InRing, Saved, ShellTypeOK
<1> QED BY <1>1, <1>2 DEF Saved, ShellTypeOK

LEMMA ListedInRing ==
  ASSUME ShellTypeOK, NEW n \in Nat, Listed(n, hist_count)
  PROVE  InRing(n, hist_count)
BY HistoryAssumption DEF Listed, Start, InRing, ShellTypeOK

\* Types, and the line a recall runs.
LEMMA TypeStep ==
  ASSUME ShellTypeOK, [Next]_vars
  PROVE  ShellTypeOK'
<1> USE NoLineIsNoCommand
<1>1. CASE Enter
  BY <1>1 DEF Enter, ShellTypeOK, InRing
<1>2. ASSUME NEW c \in Command \cup {NoLine}, Type(c) PROVE ShellTypeOK'
  BY <1>2 DEF Type, ShellTypeOK, InRing
<1>3. CASE execute
  <2>1. history' = Saved /\ hist_count' = hist_count + 1 /\ depth \in Nat /\ depth > 0
    BY <1>3 DEF execute, ShellTypeOK
  <2>2. linebuf \in Command
    BY <2>1 DEF ShellTypeOK
  <2>3. history' \in [Slots -> Command \cup {NoLine}]
    BY <2>1, <2>2 DEF Saved, ShellTypeOK
  <2>4. \A k : InRing(k, hist_count') => history'[Slot(k)] \in Command
    BY <2>1, <2>2, SaveKeepsRing DEF ShellTypeOK
  <2>5. hist_count' \in Nat
    BY <2>1 DEF ShellTypeOK
  <2>6. CASE Recall(hist_count')
    <3>1. linebuf.n % Word \in Nat
      BY <2>2, NumberIsNumber
    <3>2. InRing(linebuf.n % Word, hist_count')
      BY <2>6, <2>5, <3>1, HistoryAssumption DEF Recall, Listed, Start, InRing
    <3>3. linebuf' \in Command
      BY <2>6, <2>4, <3>2 DEF Recall
    <3> QED BY <2>1, <2>3, <2>4, <2>5, <2>6, <3>3 DEF Recall, ShellTypeOK
  <2>7. CASE Refuse(hist_count') \/ Return \/ Leave
    BY <2>1, <2>3, <2>4, <2>5, <2>7, <2>2 DEF Refuse, Return, Leave, ShellTypeOK
  <2> QED BY <1>3, <2>6, <2>7 DEF execute
<1>4. CASE UNCHANGED vars
  BY <1>4 DEF vars, ShellTypeOK, InRing
<1> QED BY <1>1, <1>2, <1>3, <1>4 DEF Next

\* A line that is recalled in the ring's second turn has a low number: it is
\* one of those run since the user typed.
LEMMA NestStep ==
  ASSUME ShellTypeOK, NestInv, NestingBounded, [Next]_vars
  PROVE  NestInv' /\ NestingBounded'
<1>1. CASE Enter
  BY <1>1, HistoryAssumption DEF Enter, ShellTypeOK, NestInv, NestingBounded, InRing, Typed
<1>2. ASSUME NEW c \in Command \cup {NoLine}, Type(c) PROVE NestInv' /\ NestingBounded'
  BY <1>2, HistoryAssumption DEF Type, ShellTypeOK, NestInv, NestingBounded
<1>3. CASE execute
  <2>1. history' = Saved /\ hist_count' = hist_count + 1 /\ depth \in Nat /\ depth > 0 /\ hist_count \in Nat
    BY <1>3 DEF execute, ShellTypeOK
  <2>2. linebuf \in Command /\ linebuf.n % Word \in Nat
    BY <2>1, NumberIsNumber DEF ShellTypeOK
  <2>3. CASE Recall(hist_count')
    <3>1. depth' = depth + 1 /\ Typed' = Typed /\ Typed \in Int
      BY <2>1, <2>3 DEF Recall, Typed
    <3>2. InRing(linebuf.n % Word, hist_count') /\ linebuf.op = "recall"
      BY <2>1, <2>2, <2>3, HistoryAssumption DEF Recall, Listed, Start, InRing
    <3>3. Low(linebuf, Typed)
      <4>1. CASE depth > MAX_HISTORY
        BY <2>1, <3>2, <4>1 DEF NestInv
      <4>2. CASE depth <= MAX_HISTORY
        BY <2>1, <2>2, <3>2, <4>2, HistoryAssumption DEF InRing, Low, Typed
      <4> QED BY <2>1, <4>1, <4>2, HistoryAssumption
    <3>4. ASSUME NEW k, InRing(k, hist_count'), k >= Typed' PROVE Low(history'[Slot(k)], Typed')
      <4>1. CASE k = hist_count
        BY <2>1, <3>1, <3>3, <4>1, SaveKeepsRing DEF Low
      <4>2. CASE InRing(k, hist_count) /\ history'[Slot(k)] = history[Slot(k)]
        BY <2>1, <3>1, <3>4, <4>2 DEF Low, NestInv
      <4> QED BY <2>1, <3>4, <4>1, <4>2, SaveKeepsRing
    <3>5. ASSUME depth' > MAX_HISTORY PROVE Low(linebuf', Typed')
      <4>1. linebuf.n % Word >= Typed'
        BY <2>1, <2>2, <3>1, <3>2, <3>5, HistoryAssumption DEF InRing, Typed
      <4> QED BY <2>3, <3>2, <3>4, <4>1 DEF Recall
    <3>6. depth + 1 <= 2 * MAX_HISTORY
      BY <2>1, <2>2, <3>2, <3>3, HistoryAssumption DEF InRing, Low, Typed
    <3> QED BY <3>1, <3>4, <3>5, <3>6 DEF NestInv, NestingBounded
  <2>4. CASE Refuse(hist_count') \/ Return \/ Leave
    BY <2>4, HistoryAssumption DEF Refuse, Return, Leave, NestInv, NestingBounded
  <2> QED BY <1>3, <2>3, <2>4 DEF execute
<1>4. CASE UNCHANGED vars
  BY <1>4 DEF vars, ShellTypeOK, InRing, NestInv, NestingBounded, Typed, Low
<1> QED BY <1>1, <1>2, <1>3, <1>4 DEF Next

\* shell.c:17-21, 32-55, 87-94, 177-188: the lines and numbers keep their types,
\* and every number !n accepts names a line that was run.
THEOREM ShellTypeCorrect == Spec => []ShellTypeOK
<1>1. Init => ShellTypeOK
  BY HistoryAssumption DEF Init, ShellTypeOK, InRing, Slots
<1> QED BY <1>1, TypeStep, PTL DEF Spec

\* shell.c:181-184: however the lines recall each other, execute calls itself
\* less than twice as often as the ring has lines.
THEOREM RecallsEnd == Spec => []NestingBounded
<1>1. Init => NestInv /\ NestingBounded
  BY HistoryAssumption DEF Init, NestInv, NestingBounded
<1> QED BY <1>1, NestStep, ShellTypeCorrect, PTL DEF Spec

\* The ring as a list.
First == Start(hist_count)
ListOf(h, count) == [k \in 1 .. (count - Start(count)) |-> h[Slot(Start(count) + k - 1)]]
Ring == ListOf(history, hist_count)

LEMMA StartBounds ==
  ASSUME NEW c \in Nat
  PROVE  /\ Start(c) \in Nat /\ Start(c) <= c /\ c - Start(c) <= MAX_HISTORY
         /\ (c < MAX_HISTORY => Start(c) = 0 /\ Start(c + 1) = 0)
         /\ (c >= MAX_HISTORY => Start(c) = c - MAX_HISTORY /\ Start(c + 1) = Start(c) + 1)
BY HistoryAssumption DEF Start

LEMMA RingIsList ==
  ASSUME ShellTypeOK
  PROVE  /\ Ring \in Seq(Command) /\ Len(Ring) = hist_count - Start(hist_count)
         /\ \A n \in Nat : n >= Start(hist_count) /\ n < hist_count =>
              Ring[n - Start(hist_count) + 1] = history[Slot(n)]
<1> DEFINE c == hist_count
<1>1. c \in Nat /\ Start(c) \in Nat /\ c - Start(c) \in Nat /\ c - Start(c) <= MAX_HISTORY
  BY StartBounds DEF ShellTypeOK
<1>2. ASSUME NEW n \in Nat, n >= Start(c), n < c PROVE history[Slot(n)] \in Command
  BY <1>1, <1>2, HistoryAssumption DEF ShellTypeOK, InRing
<1>3. ASSUME NEW k \in 1 .. (c - Start(c)) PROVE history[Slot(Start(c) + k - 1)] \in Command
  BY <1>1, <1>2, <1>3
<1>4. Ring \in [1 .. (c - Start(c)) -> Command]
  BY <1>3 DEF Ring, ListOf
<1>5. Ring \in Seq(Command) /\ Len(Ring) = c - Start(c)
  BY <1>1, <1>4
<1>6. ASSUME NEW n \in Nat, n >= Start(c), n < c
      PROVE  Ring[n - Start(c) + 1] = history[Slot(n)]
  <2>1. n - Start(c) + 1 \in 1 .. (c - Start(c)) /\ Start(c) + (n - Start(c) + 1) - 1 = n
    BY <1>1, <1>6
  <2> QED BY <2>1 DEF Ring, ListOf
<1> QED BY <1>5, <1>6

\* Saving a line puts it at the end of the list and, when that is full, takes
\* the first away.
LEMMA SaveAppends ==
  ASSUME ShellTypeOK, depth > 0, history' = Saved, hist_count' = hist_count + 1
  PROVE  Ring' = Append(IF Len(Ring) = MAX_HISTORY THEN Tail(Ring) ELSE Ring, linebuf)
<1> DEFINE c == hist_count
           kept == IF Len(Ring) = MAX_HISTORY THEN Tail(Ring) ELSE Ring
           new == Start(c + 1)
<1>1. c \in Nat /\ linebuf \in Command
  BY DEF ShellTypeOK
<1>2. new \in Nat /\ new <= c /\ c + 1 - new <= MAX_HISTORY
  BY <1>1, StartBounds, HistoryAssumption DEF Start
<1>3. /\ kept \in Seq(Command) /\ Len(kept) = c - new
      /\ \A k \in 1 .. (c - new) : kept[k] = history[Slot(new + k - 1)]
  <2>1. CASE c < MAX_HISTORY
    <3>1. Start(c) = 0 /\ new = 0
      BY <1>1, <2>1, StartBounds
    <3>2. kept = Ring /\ Len(Ring) = c /\ Ring \in Seq(Command)
      BY <1>1, <2>1, <3>1, RingIsList
    <3>3. ASSUME NEW k \in 1 .. (c - new) PROVE kept[k] = history[Slot(new + k - 1)]
      <4>1. new + k - 1 \in Nat /\ new + k - 1 < c /\ (new + k - 1) - Start(c) + 1 = k
        BY <1>1, <3>1
      <4> QED BY <3>1, <3>2, <4>1, RingIsList
    <3>4. Len(kept) = c - new
      BY <1>1, <3>1, <3>2
    <3> QED BY <3>2, <3>3, <3>4
  <2>2. CASE c >= MAX_HISTORY
    <3>1. new = Start(c) + 1 /\ Start(c) = c - MAX_HISTORY /\ Start(c) \in Nat
      BY <1>1, <2>2, StartBounds
    <3>2. Ring \in Seq(Command) /\ Len(Ring) = MAX_HISTORY
      BY <1>1, <3>1, RingIsList, HistoryAssumption
    <3>3. kept = Tail(Ring) /\ kept \in Seq(Command) /\ Len(kept) = c - new
      BY <1>1, <3>1, <3>2, HistoryAssumption
    <3>4. ASSUME NEW k \in 1 .. (c - new) PROVE kept[k] = history[Slot(new + k - 1)]
      <4>1. kept[k] = Ring[k + 1]
        BY <1>1, <3>1, <3>2, <3>3, HistoryAssumption
      <4>2. new + k - 1 \in Nat /\ new + k - 1 >= Start(c) /\ new + k - 1 < c
            /\ (new + k - 1) - Start(c) + 1 = k + 1
        BY <1>1, <3>1, HistoryAssumption
      <4> QED BY <4>1, <4>2, RingIsList
    <3> QED BY <3>3, <3>4
  <2> QED BY <1>1, <2>1, <2>2, HistoryAssumption
<1>4. /\ history'[Slot(c)] = linebuf
      /\ \A k \in 1 .. (c - new) : history'[Slot(new + k - 1)] = history[Slot(new + k - 1)]
  <2>1. ASSUME NEW k \in 1 .. (c - new) PROVE InRing(new + k - 1, c + 1) /\ new + k - 1 # c
    BY <1>1, <1>2, HistoryAssumption DEF InRing
  <2> QED BY <2>1, SaveKeepsRing
<1>5. hist_count' - Start(hist_count') = c - new + 1 /\ Start(hist_count') = new
  BY <1>1, <1>2
<1> HIDE DEF kept, new
<1>6. Ring' = [k \in 1 .. (c - new + 1) |-> history'[Slot(new + k - 1)]]
  BY <1>5, Zenon DEF Ring, ListOf
<1>7. /\ Append(kept, linebuf) \in Seq(Command) /\ Len(Append(kept, linebuf)) = c - new + 1
      /\ Append(kept, linebuf)[c - new + 1] = linebuf
      /\ \A k \in 1 .. (c - new) : Append(kept, linebuf)[k] = kept[k]
  BY <1>1, <1>3, AppendProperties
<1>8. ASSUME NEW k \in 1 .. (c - new + 1)
      PROVE  history'[Slot(new + k - 1)] = Append(kept, linebuf)[k] /\ Append(kept, linebuf)[k] \in Command
  <2>1. history'[Slot(new + k - 1)] = Append(kept, linebuf)[k]
    <3>1. CASE k = c - new + 1
      BY <1>1, <1>2, <1>4, <1>7, <3>1, new + k - 1 = c
    <3>2. CASE k # c - new + 1
      BY <1>1, <1>2, <1>3, <1>4, <1>7, <3>2, k \in 1 .. (c - new)
    <3> QED BY <3>1, <3>2
  <2>2. Append(kept, linebuf)[k] \in Command
    BY <1>1, <1>2, <1>7
  <2> QED BY <2>1, <2>2
<1>9. Ring' \in Seq(Command) /\ Len(Ring') = c - new + 1
  <2>1. c - new + 1 \in Nat
    BY <1>1, <1>2
  <2>2. Ring' \in [1 .. (c - new + 1) -> Command]
    BY <1>6, <1>8
  <2> QED BY <2>1, <2>2
<1>10. \A k \in 1 .. Len(Ring') : Ring'[k] = Append(kept, linebuf)[k]
  BY <1>6, <1>8, <1>9
<1>11. Ring' = Append(kept, linebuf)
  BY <1>7, <1>9, <1>10, SeqEqual
<1> QED BY <1>11 DEF kept

\* What execute does with a line is what the list does with it.
LEMMA RunsLine ==
  ASSUME ShellTypeOK, execute
  PROVE  Log!RunLine(linebuf)
<1> DEFINE n == linebuf.n % Word
<1>1. /\ depth > 0 /\ depth \in Nat /\ hist_count \in Nat
      /\ history' = Saved /\ hist_count' = hist_count + 1
  BY DEF execute, ShellTypeOK
<1>2. linebuf \in Command /\ n \in Nat
  BY <1>1, NumberIsNumber DEF ShellTypeOK
<1>3. Ring' = Append(IF Len(Ring) = MAX_HISTORY THEN Tail(Ring) ELSE Ring, linebuf)
  BY <1>1, SaveAppends
<1>4. Ring' = Append(Log!Kept, linebuf)
  BY <1>3 DEF Log!Kept, Ring, ListOf
<1>5. history'[Slot(hist_count)] = linebuf
  BY <1>1, SaveKeepsRing
<1>6. Len(Ring) = hist_count - Start(hist_count) /\ Start(hist_count) \in Nat
  BY <1>1, RingIsList, StartBounds
<1>7. Log!Oldest = hist_count - Len(Ring)
  BY DEF Log!Oldest, Ring, ListOf
<1>8. Log!Oldest = Start(hist_count)
  BY <1>1, <1>6, <1>7
<1>9. Log!Recalled(linebuf) = IF n = hist_count THEN {linebuf}
        ELSE {Ring[k] : k \in {k \in DOMAIN Ring : Start(hist_count) + k - 1 = n /\ (k = 1 => Len(Ring) < MAX_HISTORY)}}
  BY <1>8 DEF Log!Recalled, Ring, ListOf
<1>10. DOMAIN Ring = 1 .. Len(Ring)
  BY RingIsList, LenProperties
<1>11. Listed(n, hist_count') <=> n <= hist_count /\ n >= Start(hist_count')
  BY <1>1, <1>2 DEF Listed
<1>12. ASSUME Listed(n, hist_count') PROVE history'[Slot(n)] \in Log!Recalled(linebuf)
  <2>1. CASE n = hist_count
    BY <1>5, <1>9, <2>1
  <2>2. CASE n # hist_count
    <3> DEFINE k == n - Start(hist_count) + 1
    <3>1. n < hist_count /\ n >= Start(hist_count) /\ InRing(n, hist_count')
      BY <1>1, <1>2, <1>11, <1>12, <2>2, HistoryAssumption DEF Start, InRing
    <3>2. history'[Slot(n)] = history[Slot(n)]
      BY <1>1, <3>1, <2>2, SaveKeepsRing
    <3>3. Ring[k] = history[Slot(n)]
      BY <1>2, <3>1, RingIsList
    <3>4. k \in DOMAIN Ring /\ Start(hist_count) + k - 1 = n
      BY <1>1, <1>2, <1>6, <1>10, <3>1
    <3>5. k = 1 => Len(Ring) < MAX_HISTORY
      BY <1>1, <1>2, <1>6, <1>11, <1>12, HistoryAssumption DEF Start
    <3> HIDE DEF k
    <3> QED BY <1>9, <2>2, <3>2, <3>3, <3>4, <3>5
  <2> QED BY <2>1, <2>2
<1>13. ASSUME ~Listed(n, hist_count') PROVE Log!Recalled(linebuf) = {}
  <2>1. n # hist_count
    BY <1>1, <1>11, <1>13, HistoryAssumption DEF Start
  <2>2. ASSUME NEW k \in DOMAIN Ring, Start(hist_count) + k - 1 = n, k = 1 => Len(Ring) < MAX_HISTORY
        PROVE  FALSE
    BY <1>1, <1>6, <1>10, <1>11, <1>13, <2>2, HistoryAssumption DEF Start
  <2> QED BY <1>9, <2>1, <2>2
<1>14. CASE Recall(hist_count')
  BY <1>14, <1>1, <1>4, <1>12 DEF Recall, Log!RunLine, Ring, ListOf
<1>15. CASE Refuse(hist_count')
  BY <1>15, <1>1, <1>4, <1>13 DEF Refuse, Log!RunLine, Ring, ListOf
<1>16. CASE Return \/ Leave
  BY <1>16, <1>1, <1>4 DEF Return, Leave, Log!RunLine, Ring, ListOf
<1> QED BY <1>14, <1>15, <1>16 DEF execute

\* shell.c:92-94, 169-188: the ring is the list of the last lines with their
\* numbers, and a recall runs the line its number names in that list, whatever
\* was recalled before.
THEOREM ShellIsLog == Spec => ImplementsLog
<1>1. ASSUME Init PROVE Log!Init
  <2>1. ShellTypeOK /\ hist_count = 0 /\ depth = 0
    BY <1>1, HistoryAssumption DEF Init, ShellTypeOK, InRing, Slots
  <2>2. Start(hist_count) = 0
    BY <2>1, HistoryAssumption DEF Start
  <2>3. Ring \in Seq(Command) /\ Len(Ring) = 0
    BY <2>1, <2>2, RingIsList
  <2>4. Ring = << >>
    BY <2>3
  <2> QED BY <2>1, <2>4 DEF Log!Init, Ring, ListOf
<1>2. ASSUME ShellTypeOK, [Next]_vars PROVE [Log!Next]_(Log!vars)
  <2>1. CASE Enter
    BY <1>2, <2>1 DEF Enter, Log!vars, ShellTypeOK, Start, Slot
  <2>2. ASSUME NEW c \in Command \cup {NoLine}, Type(c) PROVE UNCHANGED Log!vars
    BY <2>2 DEF Type, Log!vars, Start, Slot
  <2>3. CASE execute
    <3>1. Log!RunLine(linebuf) /\ linebuf \in Command /\ depth > 0
      BY <1>2, <2>3, RunsLine DEF execute, ShellTypeOK
    <3>2. CASE depth > 1
      BY <3>1, <3>2, NoLineIsNoCommand DEF Log!GoOn, Log!Next
    <3>3. CASE ~(depth > 1)
      BY <3>1, <3>3, NoLineIsNoCommand DEF Log!Enter, Log!Next
    <3> QED BY <3>2, <3>3
  <2>4. CASE UNCHANGED vars
    BY <2>4 DEF vars, Log!vars, Start, Slot
  <2> QED BY <1>2, <2>1, <2>2, <2>3, <2>4 DEF Next
<1> QED BY <1>1, <1>2, ShellTypeCorrect, PTL DEF Spec, ImplementsLog, Log!Spec
=============================================================================
