----------------------------- MODULE MouseProofs -----------------------------
(***************************************************************************)
(* Theorems about Mouse: until a byte has gone to the wrong reader, all    *)
(* answers reach mouse_init and all reports the packet, and the driver is  *)
(* a pointing device; the dialogue is bounded; for every size of screen,   *)
(* every set of reports and key codes and every number of bytes that wait. *)
(***************************************************************************)
EXTENDS Mouse, WellFoundedInduction, SequenceTheorems, TLAPS

-----------------------------------------------------------------------------
(* Parts of a sequence of bytes.                                          *)

\* A set of numbers that is not empty has a least one.
LEMMA Least ==
  ASSUME NEW T, T \subseteq Nat, T # {}
  PROVE  \E m \in T : \A n \in T : m <= n
<1> DEFINE R == OpToRel(<, Nat)
<1>1. \A m, n \in Nat : m < n => <<m, n>> \in R
  BY Zenon DEF OpToRel
<1>2. IsWellFoundedOn(R, Nat)
  BY NatLessThanWellFounded, Zenon
<1> HIDE DEF R
<1>3. PICK m \in T : \A n \in T : <<n, m>> \notin R
  BY <1>2, WFMin, Zenon
<1>4. \A n \in T : ~(n < m)
  BY <1>1, <1>3, Zenon
<1> QED  BY <1>4, m \in Nat, SMT

\* Induction on the numbers from a to z.
LEMMA Induct ==
  ASSUME NEW T, NEW a \in Nat, NEW z \in Nat, a \in T,
         \A i \in Nat : (a <= i /\ i < z /\ i \in T) => i + 1 \in T
  PROVE  \A i \in Nat : (a <= i /\ i <= z) => i \in T
<1> DEFINE Missing == {i \in Nat : a <= i /\ i <= z /\ i \notin T}
<1> SUFFICES ASSUME Missing # {} PROVE FALSE
  OBVIOUS
<1>1. PICK m \in Missing : \A k \in Missing : m <= k
  BY Least
<1>2. m \in Nat /\ a <= m /\ m <= z /\ m # a /\ m - 1 \in Nat /\ (m - 1) + 1 = m /\ a <= m - 1
  BY <1>1
<1>3. m - 1 \in T
  BY <1>1, <1>2
<1> QED  BY <1>1, <1>2, <1>3

\* One byte more, if it is of the kinds.
Take(k, b, kinds) == IF b.of \in kinds THEN Append(k, b) ELSE k

\* The recursion that defines Kept has a solution.
LEMMA KeptDefined ==
  ASSUME NEW q, NEW kinds, Len(q) \in Nat
  PROVE  Kept(q, kinds) = [i \in 0 .. Len(q) |->
           IF i = 0 THEN <<>> ELSE Take(Kept(q, kinds)[i - 1], q[i], kinds)]
<1> DEFINE Solves(f, m) ==
             f = [i \in 0 .. m |-> IF i = 0 THEN <<>> ELSE Take(f[i - 1], q[i], kinds)]
           T == {m \in Nat : \E f : Solves(f, m)}
<1>1. 0 \in T
  <2>1. Solves([i \in 0 .. 0 |-> <<>>], 0)
    OBVIOUS
  <2> QED  BY <2>1
<1>2. ASSUME NEW m \in Nat, m \in T PROVE m + 1 \in T
  <2>1. PICK w : Solves(w, m)
    BY <1>2
  <2> DEFINE u == [i \in 0 .. m + 1 |-> IF i = 0 THEN <<>> ELSE Take(w[i - 1], q[i], kinds)]
  <2>2. \A j \in 0 .. m : w[j] = IF j = 0 THEN <<>> ELSE Take(w[j - 1], q[j], kinds)
    BY <2>1
  <2>3. \A i \in 1 .. m + 1 : i - 1 \in 0 .. m /\ u[i - 1] = w[i - 1]
    BY <2>2
  <2> HIDE DEF u
  <2>4. ASSUME NEW i \in 0 .. m + 1
        PROVE  (IF i = 0 THEN <<>> ELSE Take(w[i - 1], q[i], kinds))
                 = (IF i = 0 THEN <<>> ELSE Take(u[i - 1], q[i], kinds))
    BY <2>3
  <2>5. u = [i \in 0 .. m + 1 |-> IF i = 0 THEN <<>> ELSE Take(u[i - 1], q[i], kinds)]
    BY <2>4 DEF u
  <2>6. Solves(u, m + 1)
    BY <2>5
  <2> HIDE DEF Solves
  <2> QED  BY <2>6
<1>3. \E f : Solves(f, Len(q))
  <2>1. \A i \in Nat : i \in T => i + 1 \in T
    BY <1>2
  <2>2. \A m \in Nat : (0 <= m /\ m <= Len(q)) => m \in T
    <3> HIDE DEF T
    <3>1. 0 \in Nat
      OBVIOUS
    <3> QED  BY <1>1, <2>1, <3>1, Induct
  <2>3. Len(q) \in T
    <3> HIDE DEF T
    <3> QED  BY <2>2
  <2> QED  BY <2>3
<1>4. Solves(Kept(q, kinds), Len(q))
  BY <1>3 DEF Kept, Take
<1> QED  BY <1>4

\* So each step of it is one of the recursion.
LEMMA KeptSteps ==
  ASSUME NEW q, NEW kinds, Len(q) \in Nat
  PROVE  /\ Kept(q, kinds)[0] = <<>>
         /\ \A i \in 1 .. Len(q) :
              Kept(q, kinds)[i] = Take(Kept(q, kinds)[i - 1], q[i], kinds)
<1>1. PICK f, n : f = Kept(q, kinds) /\ n = Len(q)
  OBVIOUS
<1>2. f = [i \in 0 .. n |-> IF i = 0 THEN <<>> ELSE Take(f[i - 1], q[i], kinds)]
  BY <1>1, KeptDefined
<1>3. \A i \in 0 .. n : f[i] = IF i = 0 THEN <<>> ELSE Take(f[i - 1], q[i], kinds)
  BY <1>2
<1>4. 0 \in 0 .. n /\ \A i \in 1 .. n : i \in 0 .. n /\ i # 0
  BY <1>1
<1> QED  BY <1>1, <1>3, <1>4

\* What is kept are bytes of the sequence that are of the kinds.
LEMMA KeptSeq ==
  ASSUME NEW R, NEW q \in Seq(R), NEW kinds
  PROVE  \A i \in Nat : (0 <= i /\ i <= Len(q)) => Kept(q, kinds)[i] \in Seq(R)
<1> DEFINE T == {i \in Nat : Kept(q, kinds)[i] \in Seq(R)}
<1>0. Len(q) \in Nat /\ 0 \in Nat
  OBVIOUS
<1>1. 0 \in T
  <2>1. Kept(q, kinds)[0] = <<>>
    BY <1>0, KeptSteps
  <2>2. <<>> \in Seq(R)
    OBVIOUS
  <2> QED  BY <1>0, <2>1, <2>2
<1>2. ASSUME NEW i \in Nat, 0 <= i, i < Len(q), i \in T PROVE i + 1 \in T
  <2>1. i + 1 \in 1 .. Len(q) /\ (i + 1) - 1 = i /\ q[i + 1] \in R /\ i + 1 \in Nat
    BY <1>0, <1>2
  <2>2. Kept(q, kinds)[i + 1] = Take(Kept(q, kinds)[i], q[i + 1], kinds)
    BY <1>0, <2>1, KeptSteps
  <2>3. \A k \in Seq(R), b \in R : Take(k, b, kinds) \in Seq(R)
    BY DEF Take
  <2>4. Kept(q, kinds)[i + 1] \in Seq(R)
    BY <1>2, <2>1, <2>2, <2>3
  <2> QED  BY <2>1, <2>4
<1>3. \A i \in Nat : (0 <= i /\ i <= Len(q)) => i \in T
  <2> HIDE DEF T
  <2> QED  BY <1>0, <1>1, <1>2, Induct
<1> QED  BY <1>3

\* Sequences that begin alike.
LEMMA KeptAlike ==
  ASSUME NEW q, NEW r, NEW kinds, NEW a \in Nat, Len(q) \in Nat, Len(r) \in Nat,
         a <= Len(q), a <= Len(r), \A j \in 1 .. a : r[j] = q[j]
  PROVE  \A i \in Nat : (0 <= i /\ i <= a) => Kept(r, kinds)[i] = Kept(q, kinds)[i]
<1> DEFINE T == {i \in Nat : Kept(r, kinds)[i] = Kept(q, kinds)[i]}
<1>0. 0 \in Nat
  OBVIOUS
<1>1. 0 \in T
  BY KeptSteps
<1>2. ASSUME NEW i \in Nat, 0 <= i, i < a, i \in T PROVE i + 1 \in T
  <2>1. i + 1 \in 1 .. Len(q) /\ i + 1 \in 1 .. Len(r) /\ (i + 1) - 1 = i /\ r[i + 1] = q[i + 1]
    BY <1>2
  <2>2. /\ Kept(q, kinds)[i + 1] = Take(Kept(q, kinds)[i], q[i + 1], kinds)
        /\ Kept(r, kinds)[i + 1] = Take(Kept(r, kinds)[i], r[i + 1], kinds)
    BY <2>1, KeptSteps
  <2> QED  BY <1>2, <2>1, <2>2
<1>3. \A i \in Nat : (0 <= i /\ i <= a) => i \in T
  <2> HIDE DEF T
  <2> QED  BY <1>0, <1>1, <1>2, Induct
<1> QED  BY <1>3

\* A byte behind the others.
LEMMA OnlyAppend ==
  ASSUME NEW R, NEW q \in Seq(R), NEW b \in R, NEW kinds
  PROVE  Only(Append(q, b), kinds) = Take(Only(q, kinds), b, kinds)
<1>1. PICK r, n : r = Append(q, b) /\ n = Len(q)
  OBVIOUS
<1>2. /\ n \in Nat /\ Len(r) = n + 1 /\ Len(r) \in Nat /\ n <= Len(r) /\ r[n + 1] = b
      /\ \A j \in 1 .. n : r[j] = q[j]
  BY <1>1
<1>3. Kept(r, kinds)[n] = Kept(q, kinds)[n]
  <2>1. 0 <= n /\ n <= n /\ n <= Len(q) /\ Len(q) \in Nat
    BY <1>1, <1>2
  <2> QED  BY <1>2, <2>1, KeptAlike
<1>4. Kept(r, kinds)[n + 1] = Take(Kept(r, kinds)[n], b, kinds)
  <2>1. n + 1 \in 1 .. Len(r) /\ (n + 1) - 1 = n
    BY <1>2
  <2> QED  BY <1>2, <2>1, KeptSteps
<1> QED  BY <1>1, <1>2, <1>3, <1>4 DEF Only

\* The first byte.
LEMMA OnlyTail ==
  ASSUME NEW R, NEW q \in Seq(R), q # <<>>, NEW kinds
  PROVE  Only(q, kinds) = Take(<<>>, Head(q), kinds) \o Only(Tail(q), kinds)
<1>1. PICK r, n, h : r = Tail(q) /\ n = Len(r) /\ h = Take(<<>>, Head(q), kinds)
  OBVIOUS
<1>2. /\ n \in Nat /\ Len(q) = n + 1 /\ Len(q) \in Nat /\ r \in Seq(R) /\ Head(q) = q[1]
      /\ q[1] \in R /\ \A j \in 1 .. n : r[j] = q[j + 1]
  BY <1>1
<1>3. h \in Seq(R)
  BY <1>1, <1>2 DEF Take
<1> DEFINE T == {i \in Nat : Kept(q, kinds)[i + 1] = h \o Kept(r, kinds)[i]}
<1>4. 0 \in T
  <2>1. 1 \in 1 .. Len(q) /\ 1 - 1 = 0 /\ 0 + 1 = 1
    BY <1>2
  <2>2. Kept(q, kinds)[1] = Take(<<>>, q[1], kinds)
    BY <1>2, <2>1, KeptSteps
  <2>3. Kept(r, kinds)[0] = <<>>
    BY <1>1, <1>2, KeptSteps
  <2>4. h \o <<>> = h
    BY <1>3
  <2> QED  BY <1>1, <1>2, <2>1, <2>2, <2>3, <2>4
<1>5. ASSUME NEW i \in Nat, 0 <= i, i < n, i \in T PROVE i + 1 \in T
  <2>1. PICK k, b, u : k = i + 1 /\ b = q[k + 1] /\ u = Kept(r, kinds)[i]
    OBVIOUS
  <2>2. /\ k \in Nat /\ k \in 1 .. Len(r) /\ k - 1 = i /\ k + 1 \in 1 .. Len(q)
        /\ (k + 1) - 1 = k /\ r[k] = b /\ b \in R
    BY <1>1, <1>2, <1>5, <2>1
  <2>3. u \in Seq(R)
    <3>1. i <= Len(r)
      BY <1>1, <1>5, <1>2
    <3> QED  BY <1>2, <1>5, <2>1, <3>1, KeptSeq
  <2>4. Kept(q, kinds)[k + 1] = Take(Kept(q, kinds)[k], b, kinds)
    <3>1. \A j \in 1 .. Len(q) : Kept(q, kinds)[j] = Take(Kept(q, kinds)[j - 1], q[j], kinds)
      BY <1>2, KeptSteps
    <3> QED  BY <2>1, <2>2, <3>1
  <2>5. Kept(r, kinds)[k] = Take(u, b, kinds)
    <3>1. Len(r) \in Nat
      BY <1>1, <1>2
    <3>2. \A j \in 1 .. Len(r) : Kept(r, kinds)[j] = Take(Kept(r, kinds)[j - 1], r[j], kinds)
      BY <3>1, KeptSteps
    <3> QED  BY <2>1, <2>2, <3>2
  <2>6. Kept(q, kinds)[k] = h \o u
    BY <1>5, <2>1
  <2>7. Append(h \o u, b) = h \o Append(u, b)
    <3>1. <<b>> \in Seq(R) /\ h \o u \in Seq(R) /\ b \in R
      BY <1>3, <2>2, <2>3
    <3>2. (h \o u) \o <<b>> = h \o (u \o <<b>>)
      BY <1>3, <2>3, <3>1, ConcatAssociative
    <3>3. Append(h \o u, b) = (h \o u) \o <<b>> /\ Append(u, b) = u \o <<b>>
      BY <2>3, <3>1, AppendIsConcat
    <3> QED  BY <3>2, <3>3
  <2>8. Take(h \o u, b, kinds) = h \o Take(u, b, kinds)
    BY <2>7 DEF Take
  <2> QED  BY <2>1, <2>2, <2>4, <2>5, <2>6, <2>8
<1>6. \A i \in Nat : (0 <= i /\ i <= n) => i \in T
  <2> HIDE DEF T
  <2>1. 0 \in Nat
    OBVIOUS
  <2> QED  BY <1>2, <1>4, <1>5, <2>1, Induct
<1>7. Kept(q, kinds)[n + 1] = h \o Kept(r, kinds)[n]
  BY <1>2, <1>6
<1> QED  BY <1>1, <1>2, <1>7 DEF Only

\* A byte of another kind, wherever it goes.
LEMMA OnlyInsert ==
  ASSUME NEW R, NEW q \in Seq(R), NEW r \in Seq(R), NEW p \in 1 .. (Len(q) + 1), NEW kinds,
         Len(r) = Len(q) + 1, r[p].of \notin kinds,
         \A j \in 1 .. (p - 1) : r[j] = q[j],
         \A j \in p .. Len(q) : r[j + 1] = q[j]
  PROVE  Only(r, kinds) = Only(q, kinds)
<1>0. PICK n, a : n = Len(q) /\ a = p - 1
  OBVIOUS
<1>1. /\ n \in Nat /\ a \in Nat /\ a <= n /\ a + 1 = p /\ Len(r) = n + 1 /\ Len(r) \in Nat
      /\ Len(q) \in Nat /\ p \in 1 .. Len(r) /\ a <= Len(r)
  BY <1>0
<1> DEFINE T == {i \in Nat : Kept(r, kinds)[i + 1] = Kept(q, kinds)[i]}
<1>2. a \in T
  <2>1. Kept(r, kinds)[a] = Kept(q, kinds)[a]
    <3>1. \A j \in 1 .. a : r[j] = q[j]
      BY <1>0
    <3>2. 0 <= a /\ a <= a /\ a <= Len(q)
      BY <1>0, <1>1
    <3> QED  BY <1>1, <3>1, <3>2, KeptAlike
  <2>2. Kept(r, kinds)[p] = Take(Kept(r, kinds)[a], r[p], kinds)
    BY <1>0, <1>1, KeptSteps
  <2> QED  BY <1>1, <2>1, <2>2 DEF Take
<1>3. ASSUME NEW i \in Nat, a <= i, i < n, i \in T PROVE i + 1 \in T
  <2>1. PICK k : k = i + 1
    OBVIOUS
  <2>2. /\ k \in Nat /\ k - 1 = i /\ (k + 1) - 1 = k /\ k \in 1 .. Len(q) /\ k + 1 \in 1 .. Len(r)
        /\ r[k + 1] = q[k]
    BY <1>0, <1>1, <1>3, <2>1
  <2>3. /\ Kept(r, kinds)[k + 1] = Take(Kept(r, kinds)[k], r[k + 1], kinds)
        /\ Kept(q, kinds)[k] = Take(Kept(q, kinds)[i], q[k], kinds)
    <3>1. \A j \in 1 .. Len(q) : Kept(q, kinds)[j] = Take(Kept(q, kinds)[j - 1], q[j], kinds)
      BY <1>1, KeptSteps, Zenon
    <3>2. \A j \in 1 .. Len(r) : Kept(r, kinds)[j] = Take(Kept(r, kinds)[j - 1], r[j], kinds)
      BY <1>1, KeptSteps, Zenon
    <3> QED  BY <2>2, <3>1, <3>2
  <2>4. Kept(r, kinds)[k] = Kept(q, kinds)[i]
    BY <1>3, <2>1
  <2> QED  BY <2>1, <2>2, <2>3, <2>4
<1>4. \A i \in Nat : (a <= i /\ i <= n) => i \in T
  <2> HIDE DEF T
  <2> QED  BY <1>1, <1>2, <1>3, Induct
<1>5. Kept(r, kinds)[n + 1] = Kept(q, kinds)[n]
  BY <1>1, <1>4
<1> QED  BY <1>0, <1>1, <1>5 DEF Only

\* When nothing is kept, there was nothing of the kinds.
LEMMA OnlyNone ==
  ASSUME NEW R, NEW q \in Seq(R), NEW kinds, Only(q, kinds) = <<>>
  PROVE  \A i \in DOMAIN q : q[i].of \notin kinds
<1> SUFFICES ASSUME NEW a \in 1 .. Len(q), q[a].of \in kinds PROVE FALSE
  OBVIOUS
<1> DEFINE T == {i \in Nat : Kept(q, kinds)[i] # <<>>}
<1>0. Len(q) \in Nat /\ a \in Nat /\ a <= Len(q)
  OBVIOUS
<1>1. a \in T
  <2>1. PICK g : g = a - 1
    OBVIOUS
  <2>2. g \in Nat /\ 0 <= g /\ g <= Len(q)
    BY <1>0, <2>1
  <2>3. Kept(q, kinds)[g] \in Seq(R) /\ q[a] \in R
    BY <2>2, KeptSeq
  <2>4. Kept(q, kinds)[a] = Append(Kept(q, kinds)[g], q[a])
    BY <1>0, <2>1, KeptSteps DEF Take
  <2> QED  BY <1>0, <2>3, <2>4
<1>2. ASSUME NEW i \in Nat, a <= i, i < Len(q), i \in T PROVE i + 1 \in T
  <2>1. i + 1 \in 1 .. Len(q) /\ (i + 1) - 1 = i /\ q[i + 1] \in R
    BY <1>0, <1>2
  <2>2. Kept(q, kinds)[i + 1] = Take(Kept(q, kinds)[i], q[i + 1], kinds)
    BY <1>0, <2>1, KeptSteps
  <2>3. Kept(q, kinds)[i] \in Seq(R)
    BY <1>2, KeptSeq
  <2>4. \A k \in Seq(R), b \in R : k # <<>> => Take(k, b, kinds) # <<>>
    BY DEF Take
  <2>5. i + 1 \in Nat /\ Kept(q, kinds)[i + 1] # <<>>
    BY <1>2, <2>1, <2>2, <2>3, <2>4
  <2> QED  BY <2>5
<1>3. \A i \in Nat : (a <= i /\ i <= Len(q)) => i \in T
  <2> HIDE DEF T
  <2> QED  BY <1>0, <1>1, <1>2, Induct
<1>4. Kept(q, kinds)[Len(q)] # <<>>
  BY <1>0, <1>3
<1> QED  BY <1>4 DEF Only

-----------------------------------------------------------------------------
(* The bytes, the invariant, and what the devices send.                    *)

\* The bytes on the wire, and those the driver holds.
Wire  == [val : Byte, of : Reported \cup {"reply", "key"}]
Piece == [val : Byte, of : Reported \cup {"reply", "key", "none"}]

\* The types of the variables, with the bounds of the packet and of the replies.
MouseTypes ==
  /\ due \in Seq(Wire) /\ out \in Seq(Wire) /\ port \in Piece /\ data \in Piece
  /\ pc \in {"flush", "send", "read", "poll", "full", "got", "hlt"}
  /\ step \in 1 .. Identify /\ todo \in 0 .. 3
  /\ pc = "read" => 1 <= todo /\ todo <= Reads(step)
  /\ packet \in Seq(Piece) /\ Len(packet) <= 2
  /\ x \in 0 .. (VGA_WIDTH - 1) /\ y \in 0 .. (VGA_HEIGHT - 1)
  /\ buttons \in 0 .. 7 /\ prev_buttons \in 0 .. 7
  /\ disturbed \in BOOLEAN

\* What the bytes of a sequence report, three by three.
Reports(s) == [k \in 1 .. (Len(s) \div 3) |-> [i \in 1 .. 3 |-> s[3 * (k - 1) + i].val]]
\* Whole reports of the mouse, and nothing else.
Reported3(s) == Whole(s) /\ \A k \in 1 .. (Len(s) \div 3) : Reports(s)[k] \in Packet

\* The reports, from the mouse to the packet.
Aligned ==
  /\ Reported3(InTransit)
  /\ pc = "flush" => Only(out, Reported) = <<>>
  /\ ~Polling => packet = <<>>

\* The answers that are still to be read, of those the devices have to give.
Coming == Only(out, {"reply"}) \o due
\* Of the command it is at, what mouse_init has still to read.
Rest == [i \in 1 .. todo |-> Tagged(Replies(step)[Reads(step) - todo + i], "reply")]
Answering ==
  /\ pc = "flush" => step = GetConfig
  /\ Polling => step = Identify
  /\ step # GetConfig => config = Enabled(ConfigByte)
  /\ Coming = IF pc = "read" /\ (plugged \/ step = GetConfig) THEN Rest ELSE <<>>
  /\ \A i \in DOMAIN due : due[i].of = "reply"

\* The invariant.
MouseInv == MouseTypes /\ (~disturbed => Aligned /\ Answering)

\* A function on 1 .. n is a sequence.
LEMMA AsSeq ==
  ASSUME NEW S, NEW n \in Nat, NEW f \in [1 .. n -> S]
  PROVE  f \in Seq(S) /\ Len(f) = n
OBVIOUS

\* What mouse_init reads of each command.
LEMMA RepliesAre ==
  ASSUME NEW k \in 1 .. Identify
  PROVE  /\ Replies(k) \in Seq(Byte) /\ Len(Replies(k)) = Reads(k) /\ Reads(k) \in 1 .. 3
         /\ DOMAIN Replies(k) = 1 .. Reads(k)
         /\ Reads(k) = 3 => k = Reset /\ Replies(k)[1] = ACK
         /\ k = GetConfig => Reads(k) = 1 /\ Replies(k)[1] = ConfigByte
<1>a. Identify = 9 /\ GetConfig = 1 /\ Reset = 2 /\ ACK = 250
  BY DEF Identify, GetConfig, Reset, ACK
<1>0. ConfigByte \in Byte /\ 250 \in Byte /\ 170 \in Byte /\ 0 \in Byte
  BY MouseAssumption DEF Byte
<1>b. PICK r : r = Replies(k)
  OBVIOUS
<1>1. CASE k = 1
  <2>1. r = <<ConfigByte>>
    BY <1>b, <1>1 DEF Replies, GetConfig, Reset, Identify, ACK
  <2>2. r \in Seq(Byte) /\ Len(r) = 1 /\ DOMAIN r = 1 .. 1 /\ r[1] = ConfigByte
    BY <1>0, <2>1
  <2>3. Reads(k) = 1
    BY <1>b, <2>2 DEF Reads
  <2>4. Len(r) = Reads(k) /\ Reads(k) \in 1 .. 3 /\ DOMAIN r = 1 .. Reads(k)
    BY <2>2, <2>3
  <2>5. Reads(k) = 3 => k = Reset /\ r[1] = ACK
    BY <1>a, <1>1, <2>2, <2>3
  <2>6. k = GetConfig => Reads(k) = 1 /\ r[1] = ConfigByte
    BY <1>a, <1>1, <2>2, <2>3
  <2> QED BY <1>b, <2>2, <2>4, <2>5, <2>6, Zenon
<1>2. CASE k = 2
  <2>1. r = <<250, 170, 0>>
    BY <1>b, <1>2 DEF Replies, GetConfig, Reset, Identify, ACK
  <2>2. r \in Seq(Byte) /\ Len(r) = 3 /\ DOMAIN r = 1 .. 3 /\ r[1] = 250
    BY <1>0, <2>1
  <2>3. Reads(k) = 3
    BY <1>b, <2>2 DEF Reads
  <2>4. Len(r) = Reads(k) /\ Reads(k) \in 1 .. 3 /\ DOMAIN r = 1 .. Reads(k)
    BY <2>2, <2>3
  <2>5. Reads(k) = 3 => k = Reset /\ r[1] = ACK
    BY <1>a, <1>2, <2>2, <2>3
  <2>6. k = GetConfig => Reads(k) = 1 /\ r[1] = ConfigByte
    BY <1>a, <1>2, <2>2, <2>3
  <2> QED BY <1>b, <2>2, <2>4, <2>5, <2>6, Zenon
<1>3. CASE k = 9
  <2>1. r = <<250, 0>>
    BY <1>b, <1>3 DEF Replies, GetConfig, Reset, Identify, ACK
  <2>2. r \in Seq(Byte) /\ Len(r) = 2 /\ DOMAIN r = 1 .. 2 /\ r[1] = 250
    BY <1>0, <2>1
  <2>3. Reads(k) = 2
    BY <1>b, <2>2 DEF Reads
  <2>4. Len(r) = Reads(k) /\ Reads(k) \in 1 .. 3 /\ DOMAIN r = 1 .. Reads(k)
    BY <2>2, <2>3
  <2>5. Reads(k) = 3 => k = Reset /\ r[1] = ACK
    BY <1>a, <1>3, <2>2, <2>3
  <2>6. k = GetConfig => Reads(k) = 1 /\ r[1] = ConfigByte
    BY <1>a, <1>3, <2>2, <2>3
  <2> QED BY <1>b, <2>2, <2>4, <2>5, <2>6, Zenon
<1>4. CASE k \notin {1, 2, 9}
  <2>1. r = <<250>>
    BY <1>b, <1>4 DEF Replies, GetConfig, Reset, Identify, ACK
  <2>2. r \in Seq(Byte) /\ Len(r) = 1 /\ DOMAIN r = 1 .. 1 /\ r[1] = 250
    BY <1>0, <2>1
  <2>3. Reads(k) = 1
    BY <1>b, <2>2 DEF Reads
  <2> QED BY <1>a, <1>b, <1>4, <2>2, <2>3
<1> QED BY <1>1, <1>2, <1>3, <1>4

\* They come as answers.
LEMMA RepliesComing ==
  ASSUME NEW k \in 1 .. Identify,
         NEW s, s = [i \in DOMAIN Replies(k) |-> Tagged(Replies(k)[i], "reply")]
  PROVE  /\ s \in Seq(Wire) /\ Len(s) = Reads(k)
         /\ \A i \in 1 .. Reads(k) : s[i] = Tagged(Replies(k)[i], "reply")
<1>1. Reads(k) \in Nat /\ DOMAIN Replies(k) = 1 .. Reads(k)
  BY RepliesAre
<1>2. ASSUME NEW i \in 1 .. Reads(k) PROVE Tagged(Replies(k)[i], "reply") \in Wire
  BY RepliesAre DEF Tagged, Wire
<1>3. s = [i \in 1 .. Reads(k) |-> Tagged(Replies(k)[i], "reply")]
  BY <1>1
<1>4. s \in [1 .. Reads(k) -> Wire]
  BY <1>2, <1>3
<1> QED BY <1>1, <1>3, <1>4

\* The first of a sequence and the rest.
LEMMA HeadThenTail ==
  ASSUME NEW R, NEW q \in Seq(R), q # <<>>
  PROVE  /\ Head(q) \in R /\ Tail(q) \in Seq(R) /\ Len(Tail(q)) = Len(q) - 1
         /\ Head(q) = q[1] /\ \A i \in 1 .. (Len(q) - 1) : Tail(q)[i] = q[i + 1]
OBVIOUS

\* A report is three bytes of the wire.
LEMMA ReportOnWire ==
  ASSUME NEW p \in Packet
  PROVE  /\ Report(p) = <<Tagged(p[1], "first"), Tagged(p[2], "dx"), Tagged(p[3], "dy")>>
         /\ Report(p) \in Seq(Wire) /\ Len(Report(p)) = 3
         /\ \A i \in 1 .. 3 : Report(p)[i] = Tagged(p[i], Parts[i]) /\ Report(p)[i] \in Wire
                              /\ Report(p)[i].of \in Reported
<1>1. p \in Byte \X Byte \X Byte
  BY MouseAssumption
<1>2. p[1] \in Byte /\ p[2] \in Byte /\ p[3] \in Byte
  BY <1>1
<1>3. Parts[1] = "first" /\ Parts[2] = "dx" /\ Parts[3] = "dy"
  BY DEF Parts
<1>4. ASSUME NEW i \in 1 .. 3
      PROVE  /\ Tagged(p[i], Parts[i]) \in Wire /\ Parts[i] \in Reported
             /\ Tagged(p[i], Parts[i]).of = Parts[i]
  <2>1. i = 1 \/ i = 2 \/ i = 3
    OBVIOUS
  <2> QED BY <1>2, <1>3, <2>1 DEF Tagged, Wire, Reported
<1>5. Report(p) \in [1 .. 3 -> Wire]
  BY <1>4 DEF Report
<1>6. Report(p) \in Seq(Wire) /\ Len(Report(p)) = 3
  <2>1. PICK r : r = Report(p)
    OBVIOUS
  <2>2. r \in [1 .. 3 -> Wire] /\ 3 \in Nat
    BY <1>5, <2>1
  <2>3. r \in Seq(Wire) /\ Len(r) = 3
    BY <2>2, AsSeq
  <2> QED BY <2>1, <2>3
<1>7. \A i \in 1 .. 3 : Report(p)[i] = Tagged(p[i], Parts[i])
  BY DEF Report
<1>8. Report(p) = <<Tagged(p[1], "first"), Tagged(p[2], "dx"), Tagged(p[3], "dy")>>
  <2>1. PICK t : t = <<Tagged(p[1], "first"), Tagged(p[2], "dx"), Tagged(p[3], "dy")>>
    OBVIOUS
  <2>2. t \in Seq(Wire) /\ Len(t) = 3
    BY <1>3, <1>4, <2>1
  <2>3. t[1] = Report(p)[1] /\ t[2] = Report(p)[2] /\ t[3] = Report(p)[3]
    BY <1>3, <1>7, <2>1
  <2>4. \A i \in 1 .. Len(t) : t[i] = Report(p)[i]
    BY <2>2, <2>3
  <2> QED BY <1>6, <2>1, <2>2, <2>4, SeqEqual
<1> QED BY <1>4, <1>6, <1>7, <1>8

\* What the mouse reports comes behind what is on the wire.
LEMMA OnlyReport ==
  ASSUME NEW q \in Seq(Wire), NEW p \in Packet
  PROVE  /\ q \o Report(p) \in Seq(Wire)
         /\ Only(q \o Report(p), Reported) = Only(q, Reported) \o Report(p)
         /\ Only(q \o Report(p), {"reply"}) = Only(q, {"reply"})
<1>1. PICK a, b, c : a = Report(p)[1] /\ b = Report(p)[2] /\ c = Report(p)[3]
  OBVIOUS
<1>2. /\ a \in Wire /\ b \in Wire /\ c \in Wire
      /\ a.of \in Reported /\ b.of \in Reported /\ c.of \in Reported
  BY <1>1, ReportOnWire
<1>3. Report(p) = <<a, b, c>> /\ Report(p) \in Seq(Wire)
  BY <1>1, ReportOnWire
<1>5. PICK q1, q2, q3 : q1 = Append(q, a) /\ q2 = Append(q1, b) /\ q3 = Append(q2, c)
  OBVIOUS
<1>6. q1 \in Seq(Wire) /\ q2 \in Seq(Wire) /\ q3 \in Seq(Wire)
  BY <1>2, <1>5
<1>a. \A u \in Seq(Wire) : u \o Report(p) = Append(Append(Append(u, a), b), c)
  <2> TAKE u \in Seq(Wire)
  <2>1. PICK t, n, g : t = Report(p) /\ n = Len(u) /\ g = u \o t
    BY Zenon
  <2>2. t \in Seq(Wire) /\ Len(t) = 3 /\ t[1] = a /\ t[2] = b /\ t[3] = c /\ n \in Nat
    BY <1>1, <2>1, ReportOnWire
  <2>3. /\ g \in Seq(Wire) /\ Len(g) = n + 3
        /\ \A i \in 1 .. (n + 3) : g[i] = IF i <= n THEN u[i] ELSE t[i - n]
    <3>1. /\ u \o t \in Seq(Wire) /\ Len(u \o t) = Len(u) + Len(t)
          /\ \A i \in 1 .. Len(u) + Len(t) : (u \o t)[i] =
                IF i <= Len(u) THEN u[i] ELSE t[i - Len(u)]
      BY <2>2, ConcatProperties
    <3> QED BY <2>1, <2>2, <3>1
  <2>4. PICK u1 : u1 = Append(u, a)
    BY Zenon
  <2>5. u1 \in Seq(Wire) /\ Len(u1) = n + 1 /\ u1[n + 1] = a /\ \A i \in 1 .. n : u1[i] = u[i]
    BY <1>2, <2>1, <2>2, <2>4
  <2>6. PICK u2 : u2 = Append(u1, b)
    BY Zenon
  <2>7. /\ u2 \in Seq(Wire) /\ Len(u2) = n + 2 /\ u2[n + 2] = b
        /\ \A i \in 1 .. (n + 1) : u2[i] = u1[i]
    BY <1>2, <2>2, <2>5, <2>6
  <2>8. PICK u3 : u3 = Append(u2, c)
    BY Zenon
  <2>9. /\ u3 \in Seq(Wire) /\ Len(u3) = n + 3 /\ u3[n + 3] = c
        /\ \A i \in 1 .. (n + 2) : u3[i] = u2[i]
    BY <1>2, <2>2, <2>7, <2>8
  <2>10. ASSUME NEW i \in 1 .. (n + 3) PROVE g[i] = u3[i]
    <3>1. CASE i <= n
      <4>1. i \in 1 .. n /\ i \in 1 .. (n + 1) /\ i \in 1 .. (n + 2)
        BY <2>2, <3>1
      <4> QED BY <2>3, <2>5, <2>7, <2>9, <3>1, <4>1
    <3>2. CASE i = n + 1
      <4>1. i \in 1 .. (n + 1) /\ i \in 1 .. (n + 2) /\ i - n = 1 /\ ~(i <= n)
        BY <2>2, <3>2
      <4> QED BY <2>2, <2>3, <2>5, <2>7, <2>9, <3>2, <4>1
    <3>3. CASE i = n + 2
      <4>1. i \in 1 .. (n + 2) /\ i - n = 2 /\ ~(i <= n)
        BY <2>2, <3>3
      <4> QED BY <2>2, <2>3, <2>7, <2>9, <3>3, <4>1
    <3>4. CASE i = n + 3
      <4>1. i - n = 3 /\ ~(i <= n)
        BY <2>2, <3>4
      <4> QED BY <2>2, <2>3, <2>9, <3>4, <4>1
    <3> QED BY <2>2, <3>1, <3>2, <3>3, <3>4
  <2>11. g = u3
    BY <2>3, <2>9, <2>10, SeqEqual
  <2> QED BY <2>1, <2>4, <2>6, <2>8, <2>11
<1>b. q \o Report(p) = q3
  BY <1>5, <1>a
<1>7. \A kinds : /\ Only(q1, kinds) = Take(Only(q, kinds), a, kinds)
                 /\ Only(q2, kinds) = Take(Only(q1, kinds), b, kinds)
                 /\ Only(q3, kinds) = Take(Only(q2, kinds), c, kinds)
  BY <1>2, <1>5, <1>6, OnlyAppend
<1>8. Only(q, Reported) \in Seq(Wire)
  <2>1. Len(q) \in Nat /\ 0 <= Len(q) /\ Len(q) <= Len(q)
    OBVIOUS
  <2> QED BY <2>1, KeptSeq DEF Only
<1>9. Only(q3, Reported) = Append(Append(Append(Only(q, Reported), a), b), c)
  BY <1>2, <1>7 DEF Take
<1>10. "reply" \notin Reported
  BY DEF Reported
<1>11. Only(q3, {"reply"}) = Only(q, {"reply"})
  BY <1>2, <1>7, <1>10 DEF Take
<1>12. Only(q, Reported) \o Report(p) = Append(Append(Append(Only(q, Reported), a), b), c)
  BY <1>8, <1>a
<1> QED BY <1>6, <1>b, <1>9, <1>11, <1>12

\* What is kept of a sequence on the wire is on the wire.
LEMMA OnlySeq ==
  ASSUME NEW q \in Seq(Wire), NEW kinds
  PROVE  Only(q, kinds) \in Seq(Wire)
<1>1. Len(q) \in Nat /\ 0 <= Len(q) /\ Len(q) <= Len(q)
  OBVIOUS
<1> QED BY <1>1, KeptSeq DEF Only

\* Reading takes the first byte.
LEMMA ReadKept ==
  ASSUME NEW q \in Seq(Wire), q # <<>>, NEW kinds
  PROVE  /\ Only(Tail(q), kinds) \in Seq(Wire)
         /\ Head(q).of \notin kinds => Only(Tail(q), kinds) = Only(q, kinds)
         /\ Head(q).of \in kinds => Only(q, kinds) = <<Head(q)>> \o Only(Tail(q), kinds)
<1>1. PICK h, t, u : h = Head(q) /\ t = Tail(q) /\ u = Only(t, kinds)
  BY Zenon
<1>2. h \in Wire /\ t \in Seq(Wire)
  BY <1>1, HeadThenTail
<1>3. u \in Seq(Wire)
  BY <1>1, <1>2, OnlySeq
<1>4. Only(q, kinds) = Take(<<>>, h, kinds) \o u
  BY <1>1, OnlyTail
<1>5. <<>> \o u = u
  BY <1>3, ConcatEmptySeq
<1>6. Append(<<>>, h) = <<h>>
  BY <1>2
<1>7. h.of \notin kinds => u = Only(q, kinds)
  BY <1>4, <1>5 DEF Take
<1>8. h.of \in kinds => Only(q, kinds) = <<h>> \o u
  BY <1>4, <1>6 DEF Take
<1> QED BY <1>1, <1>3, <1>7, <1>8

\* A key may come between any two bytes.
LEMMA KeyInserted ==
  ASSUME NEW q \in Seq(Wire), NEW p \in 1 .. (Len(q) + 1), NEW c \in KeyCode
  PROVE  LET r == InsertAt(q, p, Tagged(c, "key"))
         IN  /\ r \in Seq(Wire)
             /\ Only(r, Reported) = Only(q, Reported)
             /\ Only(r, {"reply"}) = Only(q, {"reply"})
<1>1. PICK k, n, a : k = Tagged(c, "key") /\ n = Len(q) /\ a = p - 1
  BY Zenon
<1>2. k \in Wire /\ k.of = "key" /\ "key" \notin Reported /\ "key" \notin {"reply"}
  BY <1>1, MouseAssumption DEF Tagged, Wire, Reported
<1>3. n \in Nat /\ a \in Nat /\ a <= n /\ p = a + 1 /\ p \in Nat
  BY <1>1
<1>4. PICK u, v, w, r : u = SubSeq(q, 1, a) /\ v = <<k>> /\ w = SubSeq(q, p, n) /\ r = (u \o v) \o w
  BY Zenon
<1>5. u \in Seq(Wire) /\ Len(u) = a /\ \A i \in 1 .. a : u[i] = q[i]
  <2>1. \A i \in 1 .. a : q[i] \in Wire
    BY <1>1, <1>3
  <2>2. 1 \in Int /\ a \in Int
    BY <1>3
  <2>3. /\ SubSeq(q, 1, a) \in Seq(Wire) /\ Len(SubSeq(q, 1, a)) = IF 1 <= a THEN a - 1 + 1 ELSE 0
        /\ \A i \in 1 .. (a - 1 + 1) : SubSeq(q, 1, a)[i] = q[1 + i - 1]
    BY <2>1, <2>2, SubSeqProperties
  <2> QED BY <1>3, <1>4, <2>3
<1>6. w \in Seq(Wire) /\ Len(w) = n - a /\ \A i \in 1 .. (n - a) : w[i] = q[a + i]
  <2>1. \A i \in p .. n : q[i] \in Wire
    BY <1>1, <1>3
  <2>2. p \in Int /\ n \in Int
    BY <1>3
  <2>3. /\ SubSeq(q, p, n) \in Seq(Wire) /\ Len(SubSeq(q, p, n)) = IF p <= n THEN n - p + 1 ELSE 0
        /\ \A i \in 1 .. (n - p + 1) : SubSeq(q, p, n)[i] = q[p + i - 1]
    BY <2>1, <2>2, SubSeqProperties
  <2>4. n - p + 1 = n - a /\ (IF p <= n THEN n - p + 1 ELSE 0) = n - a
    BY <1>3
  <2>5. \A i \in 1 .. (n - a) : p + i - 1 = a + i
    BY <1>3
  <2>6. w \in Seq(Wire) /\ Len(w) = n - a
    BY <1>4, <2>3, <2>4
  <2>7. \A i \in 1 .. (n - a) : w[i] = q[p + i - 1]
    BY <1>4, <2>3, <2>4
  <2> QED BY <2>5, <2>6, <2>7
<1>7. v \in Seq(Wire) /\ Len(v) = 1 /\ v[1] = k
  BY <1>2, <1>4
<1>8. PICK z : z = u \o v
  BY Zenon
<1>9. /\ z \in Seq(Wire) /\ Len(z) = a + 1
      /\ \A i \in 1 .. (a + 1) : z[i] = IF i <= a THEN u[i] ELSE v[i - a]
  <2>1. /\ u \o v \in Seq(Wire) /\ Len(u \o v) = Len(u) + Len(v)
        /\ \A i \in 1 .. Len(u) + Len(v) : (u \o v)[i] = IF i <= Len(u) THEN u[i] ELSE v[i - Len(u)]
    BY <1>5, <1>7, ConcatProperties
  <2> QED BY <1>5, <1>7, <1>8, <2>1
<1>10. /\ r \in Seq(Wire) /\ Len(r) = n + 1
       /\ \A i \in 1 .. (n + 1) : r[i] = IF i <= a + 1 THEN z[i] ELSE w[i - (a + 1)]
  <2>1. /\ z \o w \in Seq(Wire) /\ Len(z \o w) = Len(z) + Len(w)
        /\ \A i \in 1 .. Len(z) + Len(w) : (z \o w)[i] = IF i <= Len(z) THEN z[i] ELSE w[i - Len(z)]
    BY <1>6, <1>9, ConcatProperties
  <2>2. Len(z) + Len(w) = n + 1 /\ Len(z) = a + 1 /\ r = z \o w
    BY <1>3, <1>4, <1>6, <1>8, <1>9
  <2> QED BY <2>1, <2>2
<1>11. r[p] = k
  <2>1. p \in 1 .. (n + 1) /\ p \in 1 .. (a + 1) /\ p <= a + 1 /\ ~(p <= a) /\ p - a = 1
    BY <1>3
  <2> QED BY <1>7, <1>9, <1>10, <2>1
<1>12. \A j \in 1 .. (p - 1) : r[j] = q[j]
  <2> TAKE j \in 1 .. (p - 1)
  <2>1. j \in 1 .. a /\ j \in 1 .. (a + 1) /\ j \in 1 .. (n + 1) /\ j <= a + 1 /\ j <= a
    BY <1>3
  <2> QED BY <1>5, <1>9, <1>10, <2>1
<1>13. \A j \in p .. n : r[j + 1] = q[j]
  <2> TAKE j \in p .. n
  <2>1. /\ j + 1 \in 1 .. (n + 1) /\ ~(j + 1 <= a + 1) /\ (j + 1) - (a + 1) = j - a
        /\ j - a \in 1 .. (n - a) /\ a + (j - a) = j
    BY <1>3
  <2>2. r[j + 1] = w[j - a] /\ w[j - a] = q[a + (j - a)]
    BY <1>6, <1>10, <2>1
  <2> QED BY <2>1, <2>2
<1>14. \A kinds : "key" \notin kinds => Only(r, kinds) = Only(q, kinds)
  <2> TAKE kinds
  <2> SUFFICES ASSUME "key" \notin kinds PROVE Only(r, kinds) = Only(q, kinds)
    OBVIOUS
  <2>1. r[p].of \notin kinds
    BY <1>2, <1>11
  <2>2. Len(r) = Len(q) + 1 /\ \A j \in p .. Len(q) : r[j + 1] = q[j]
    BY <1>1, <1>10, <1>13
  <2> QED BY <1>10, <1>12, <2>1, <2>2, OnlyInsert
<1>15. InsertAt(q, p, Tagged(c, "key")) = r
  BY <1>1, <1>3, <1>4 DEF InsertAt
<1> QED BY <1>2, <1>10, <1>14, <1>15

-----------------------------------------------------------------------------
(* Types.                                                                  *)

\* The pointer stays on the screen.
LEMMA ClampOnScreen ==
  ASSUME NEW v \in Int, NEW size \in Nat \ {0}
  PROVE  Clamp(v, size) \in 0 .. (size - 1)
BY DEF Clamp

\* The types of what the readers of packets write.
PointerTypes ==
  /\ packet \in Seq(Piece) /\ Len(packet) <= 2
  /\ x \in 0 .. (VGA_WIDTH - 1) /\ y \in 0 .. (VGA_HEIGHT - 1)
  /\ buttons \in 0 .. 7 /\ prev_buttons \in 0 .. 7

\* The switch.
LEMMA PutTypes ==
  ASSUME MouseTypes, NEW b \in Piece, Put(b)
  PROVE  PointerTypes' /\ prev_buttons' \in {prev_buttons, buttons}
<1>0. /\ packet \in Seq(Piece) /\ Len(packet) \in Nat /\ Len(packet) <= 2
      /\ x \in Int /\ y \in Int /\ VGA_WIDTH \in Nat \ {0} /\ VGA_HEIGHT \in Nat \ {0}
  BY MouseAssumption DEF MouseTypes
<1>1. CASE packet = <<>>
  <2>1. packet' = (IF MayBegin(b) THEN <<b>> ELSE <<>>) /\ UNCHANGED <<x, y, buttons, prev_buttons>>
    BY <1>1 DEF Put
  <2>2. <<b>> \in Seq(Piece) /\ Len(<<b>>) = 1 /\ <<>> \in Seq(Piece) /\ Len(<<>>) = 0
    OBVIOUS
  <2>3. packet' \in Seq(Piece) /\ Len(packet') <= 2
    BY <2>1, <2>2
  <2> QED BY <2>1, <2>3 DEF MouseTypes, PointerTypes
<1>2. CASE Len(packet) = 1
  <2>1. packet' = Append(packet, b) /\ UNCHANGED <<x, y, buttons, prev_buttons>>
    BY <1>2 DEF Put
  <2>a. PICK p : p = Append(packet, b)
    BY Zenon
  <2>b. p \in Seq(Piece) /\ Len(p) = 2
    <3>1. b \in Piece /\ packet \in Seq(Piece) /\ Len(packet) = 1
      BY <1>0, <1>2
    <3> QED BY <2>a, <3>1
  <2>2. packet' \in Seq(Piece) /\ Len(packet') <= 2
    BY <2>1, <2>a, <2>b
  <2> QED BY <2>1, <2>2 DEF MouseTypes, PointerTypes
<1>3. CASE Len(packet) = 2
  <2>1. packet' = <<>> /\ process_packet(Append(packet, b))
    BY <1>3 DEF Put
  <2>2. PICK p : p = Append(packet, b)
    BY Zenon
  <2>3. p \in Seq(Piece) /\ Len(p) = 3
    <3>1. b \in Piece /\ packet \in Seq(Piece) /\ Len(packet) = 2
      BY <1>0, <1>3
    <3>2. p \in Seq(Piece) /\ Len(p) = Len(packet) + 1
      BY <2>2, <3>1, AppendProperties, Zenon
    <3> QED BY <3>1, <3>2
  <2>4. p[1] \in Piece /\ p[2] \in Piece /\ p[3] \in Piece
    BY <2>3
  <2>5. p[1].val \in 0 .. 255 /\ p[2].val \in 0 .. 255 /\ p[3].val \in 0 .. 255
    BY <2>4 DEF Piece, Byte
  <2>a. \A d \in 0 .. 255 : Signed(d) \in Int
    BY DEF Signed
  <2>b. \A d \in 0 .. 255 : d % 8 \in 0 .. 7
    OBVIOUS
  <2>c. PICK dx, dy : dx = Signed(p[2].val) /\ dy = Signed(p[3].val)
    BY Zenon
  <2>d. dx \in Int /\ dy \in Int
    BY <2>5, <2>a, <2>c
  <2>e. x + dx \in Int /\ y - dy \in Int
    BY <1>0, <2>d
  <2>6. x + Signed(p[2].val) \in Int /\ y - Signed(p[3].val) \in Int /\ p[1].val % 8 \in 0 .. 7
    BY <2>5, <2>b, <2>c, <2>e
  <2>7. /\ prev_buttons' = buttons /\ buttons' = p[1].val % 8
        /\ x' = Clamp(x + Signed(p[2].val), VGA_WIDTH)
        /\ y' = Clamp(y - Signed(p[3].val), VGA_HEIGHT)
    BY <2>1, <2>2 DEF process_packet
  <2>8. x' \in 0 .. (VGA_WIDTH - 1) /\ y' \in 0 .. (VGA_HEIGHT - 1)
    BY <1>0, <2>6, <2>7, ClampOnScreen
  <2>9. packet' \in Seq(Piece) /\ Len(packet') <= 2
    BY <2>1
  <2> QED BY <2>6, <2>7, <2>8, <2>9 DEF MouseTypes, PointerTypes
<1>4. packet = <<>> \/ Len(packet) = 1 \/ Len(packet) = 2
  <2>1. Len(packet) = 0 => packet = <<>>
    BY <1>0, EmptySeq
  <2>2. PICK n : n = Len(packet)
    BY Zenon
  <2>3. n \in Nat /\ n <= 2
    BY <1>0, <2>2
  <2>4. n = 0 \/ n = 1 \/ n = 2
    BY <2>3
  <2> QED BY <2>1, <2>2, <2>4
<1> QED BY <1>1, <1>2, <1>3, <1>4

\* The bytes between the devices and the driver, and the dialogue.
WireTypes ==
  /\ due \in Seq(Wire) /\ out \in Seq(Wire) /\ port \in Piece
DialogueTypes ==
  /\ pc \in {"flush", "send", "read", "poll", "full", "got", "hlt"}
  /\ step \in 1 .. Identify /\ todo \in 0 .. 3
  /\ pc = "read" => 1 <= todo /\ todo <= Reads(step)

\* The types, by the part of the program they belong to.
LEMMA TypesAre ==
  MouseTypes <=> /\ WireTypes /\ DialogueTypes /\ PointerTypes
                 /\ data \in Piece /\ disturbed \in BOOLEAN
BY DEF MouseTypes, WireTypes, DialogueTypes, PointerTypes

\* Reads of the port.
LEMMA ReadTypes ==
  ASSUME MouseTypes, Read \/ ReadAgain
  PROVE  out' \in Seq(Wire) /\ port' \in Piece
<1>1. CASE Read
  <2>1. out # <<>> /\ out \in Seq(Wire) /\ port' = Head(out) /\ out' = Tail(out)
    BY <1>1 DEF Read, MouseTypes
  <2>2. Head(out) \in Wire /\ Tail(out) \in Seq(Wire)
    BY <2>1, HeadThenTail
  <2>3. Wire \subseteq Piece
    BY DEF Wire, Piece
  <2> QED BY <2>1, <2>2, <2>3
<1>2. CASE ReadAgain
  BY <1>2 DEF ReadAgain, MouseTypes
<1> QED BY <1>1, <1>2

\* Understanding a byte in mouse_init.
LEMMA UnderstoodTypes ==
  ASSUME MouseTypes, pc = "read", NEW b \in Byte, Understood(b)
  PROVE  /\ DialogueTypes' /\ todo' < todo
         /\ todo' > 0 => pc' = pc /\ step' = step
         /\ todo' = 0 => \/ step < Identify /\ pc' = "send" /\ step' = step + 1
                         \/ step = Identify /\ pc' = "poll" /\ step' = step
<1>1. /\ step \in 1 .. 9 /\ todo \in 1 .. 3 /\ todo <= Reads(step) /\ Identify = 9
      /\ Reads(step) \in 1 .. 3
  <2>1. step \in 1 .. Identify /\ todo \in 0 .. 3 /\ 1 <= todo /\ todo <= Reads(step)
    BY DEF MouseTypes
  <2>2. Reads(step) \in 1 .. 3
    BY <2>1, RepliesAre
  <2> QED BY <2>1, <2>2 DEF Identify
<1>2. todo' = ReadsAfter(b) /\ todo' \in 0 .. 2 /\ todo' < todo
  BY <1>1 DEF Understood, ReadsAfter
<1>3. CASE todo' > 0
  <2>1. UNCHANGED <<pc, step>>
    <3>1. (CASE todo' > 0 -> UNCHANGED <<pc, step>>
            [] todo' = 0 /\ step < Identify -> pc' = "send" /\ step' = step + 1
            [] todo' = 0 /\ step = Identify -> pc' = "poll" /\ UNCHANGED step )
      BY DEF Understood
    <3>2. ~(todo' = 0)
      BY <1>2, <1>3
    <3> QED BY <1>3, <3>1, <3>2
  <2>2. Reads(step)' = Reads(step)
    BY <2>1 DEF Reads
  <2>3. pc' = "read" /\ step' \in 1 .. 9 /\ 1 <= todo' /\ todo' <= Reads(step)' /\ todo' \in 0 .. 3
    BY <1>1, <1>2, <1>3, <2>1, <2>2
  <2> QED BY <1>1, <1>2, <1>3, <2>1, <2>3 DEF DialogueTypes
<1>4. CASE todo' = 0 /\ step < Identify
  <2>1. pc' = "send" /\ step' = step + 1
    <3>1. (CASE todo' > 0 -> UNCHANGED <<pc, step>>
            [] todo' = 0 /\ step < Identify -> pc' = "send" /\ step' = step + 1
            [] todo' = 0 /\ step = Identify -> pc' = "poll" /\ UNCHANGED step )
      BY DEF Understood
    <3>2. ~(todo' > 0) /\ ~(step = Identify)
      BY <1>1, <1>4
    <3> QED BY <1>4, <3>1, <3>2
  <2> QED BY <1>1, <1>2, <1>4, <2>1 DEF DialogueTypes
<1>5. CASE todo' = 0 /\ step = Identify
  <2>1. pc' = "poll" /\ step' = step
    BY <1>1, <1>2, <1>5 DEF Understood
  <2> QED BY <1>1, <1>2, <1>5, <2>1 DEF DialogueTypes
<1> QED BY <1>1, <1>2, <1>3, <1>4, <1>5

\* What a step may do to the history, and to the buttons.
Onward == disturbed => disturbed'
ButtonStep == prev_buttons' \in {prev_buttons, buttons}
TypesKept == MouseTypes' /\ Onward /\ ButtonStep

\* mouse_init begins.
LEMMA InitTypes == Init => MouseTypes
<1> SUFFICES ASSUME Init PROVE MouseTypes
  OBVIOUS
<1>1. /\ VGA_WIDTH \in Nat \ {0} /\ VGA_HEIGHT \in Nat \ {0}
      /\ VGA_WIDTH \div 2 \in 0 .. (VGA_WIDTH - 1) /\ VGA_HEIGHT \div 2 \in 0 .. (VGA_HEIGHT - 1)
  BY MouseAssumption
<1>2. NoByte \in Piece
  BY DEF NoByte, Tagged, Piece, Byte
<1>3. <<>> \in Seq(Wire) /\ <<>> \in Seq(Piece) /\ Len(<<>>) = 0
  OBVIOUS
<1>4. GetConfig \in 1 .. Identify
  BY DEF GetConfig, Identify
<1>5. pc = "flush" /\ step \in 1 .. Identify /\ todo \in 0 .. 3
  BY <1>4 DEF Init
<1>6. /\ due \in Seq(Wire) /\ out \in Seq(Wire) /\ port \in Piece /\ data \in Piece
      /\ packet \in Seq(Piece) /\ Len(packet) <= 2 /\ disturbed \in BOOLEAN
  <2>1. /\ due = <<>> /\ out = <<>> /\ port = NoByte /\ data = NoByte /\ packet = <<>>
        /\ disturbed = FALSE
    BY DEF Init
  <2>2. Len(packet) <= 2
    BY <1>3, <2>1
  <2> QED BY <1>2, <1>3, <2>1, <2>2, Zenon
<1>7. /\ x \in 0 .. (VGA_WIDTH - 1) /\ y \in 0 .. (VGA_HEIGHT - 1)
      /\ buttons \in 0 .. 7 /\ prev_buttons \in 0 .. 7
  <2>1. x = VGA_WIDTH \div 2 /\ y = VGA_HEIGHT \div 2 /\ buttons = 0 /\ prev_buttons = 0
    BY DEF Init
  <2>2. 0 \in 0 .. 7
    OBVIOUS
  <2> QED BY <1>1, <2>1, <2>2
<1> QED BY <1>5, <1>6, <1>7 DEF MouseTypes

\* Every step keeps the types, disturbs for good, and keeps the buttons of before.
LEMMA TypesStep ==
  ASSUME MouseTypes, [Next]_vars
  PROVE  TypesKept
<1>0. /\ due \in Seq(Wire) /\ out \in Seq(Wire) /\ WireTypes /\ DialogueTypes /\ PointerTypes
      /\ data \in Piece /\ disturbed \in BOOLEAN
  BY TypesAre DEF MouseTypes
<1>a. ASSUME UNCHANGED <<packet, x, y, buttons, prev_buttons>> PROVE PointerTypes' /\ ButtonStep
  BY <1>0, <1>a DEF PointerTypes, ButtonStep
<1>b. ASSUME UNCHANGED <<pc, step, todo>> PROVE DialogueTypes'
  BY <1>0, <1>b DEF DialogueTypes, Reads
<1>c. ASSUME due' \in Seq(Wire), out' \in Seq(Wire), port' \in Piece, DialogueTypes', PointerTypes',
             data' \in Piece, disturbed' \in BOOLEAN, Onward, ButtonStep
      PROVE  TypesKept
  BY <1>c DEF MouseTypes, DialogueTypes, PointerTypes, TypesKept
<1>d. Onward <=> (disturbed => disturbed')
  BY DEF Onward
<1>e. port \in Piece
  BY DEF MouseTypes
<1>1. CASE Answer
  <2>1. due # <<>> /\ out' = Append(out, Head(due)) /\ due' = Tail(due)
    BY <1>1 DEF Answer
  <2>2. out' \in Seq(Wire) /\ due' \in Seq(Wire)
    BY <1>0, <2>1, HeadThenTail
  <2>3. UNCHANGED <<port, pc, step, todo, data, packet, x, y, buttons, prev_buttons, disturbed>>
    BY <1>1 DEF Answer, dialogue, pointer, history
  <2> QED BY <1>0, <1>a, <1>b, <1>c, <1>d, <1>e, <2>2, <2>3
<1>2. CASE Move
  <2>1. PICK p \in Packet : out' = out \o Report(p)
    BY <1>2 DEF Move
  <2>2. out' \in Seq(Wire)
    BY <1>0, <2>1, OnlyReport
  <2>3. UNCHANGED <<due, port, pc, step, todo, data, packet, x, y, buttons, prev_buttons,
                    disturbed>>
    BY <1>2 DEF Move, dialogue, pointer, history
  <2> QED BY <1>0, <1>a, <1>b, <1>c, <1>d, <1>e, <2>2, <2>3
<1>3. CASE Key
  <2>1. PICK c \in KeyCode, i \in 1 .. (Len(out) + 1) : out' = InsertAt(out, i, Tagged(c, "key"))
    BY <1>3 DEF Key
  <2>2. out' \in Seq(Wire)
    BY <1>0, <2>1, KeyInserted
  <2>3. UNCHANGED <<due, port, pc, step, todo, data, packet, x, y, buttons, prev_buttons,
                    disturbed>>
    BY <1>3 DEF Key, dialogue, pointer
  <2> QED BY <1>0, <1>a, <1>b, <1>c, <1>d, <1>e, <2>2, <2>3
<1>4. CASE Flush
  <2>1. out' \in Seq(Wire) /\ port' \in Piece
    BY <1>4, ReadTypes DEF Flush
  <2>2. DialogueTypes'
    BY <1>0, <1>4 DEF Flush, DialogueTypes
  <2>3. UNCHANGED <<due, data, packet, x, y, buttons, prev_buttons, disturbed>>
    BY <1>4 DEF Flush, pointer, history
  <2> QED BY <1>0, <1>a, <1>c, <1>d, <2>1, <2>2, <2>3
<1>5. CASE Send
  <2>1. /\ pc' = "read" /\ todo' = Reads(step) /\ step' = step
        /\ UNCHANGED <<out, port, data, packet, x, y, buttons, prev_buttons, disturbed>>
    BY <1>5 DEF Send, pointer, history
  <2>2. step \in 1 .. Identify /\ Reads(step) \in 1 .. 3
    BY RepliesAre DEF MouseTypes
  <2>3. DialogueTypes'
    BY <2>1, <2>2 DEF DialogueTypes, Reads
  <2>4. due' \in Seq(Wire)
    <3>1. PICK s : s = [i \in DOMAIN Replies(step) |-> Tagged(Replies(step)[i], "reply")]
      BY Zenon
    <3>2. s \in Seq(Wire)
      BY <2>2, <3>1, RepliesComing
    <3>3. due' = due \o s \/ due' = due
      BY <1>5, <3>1 DEF Send
    <3>4. due \o s \in Seq(Wire)
      BY <1>0, <3>2, ConcatProperties
    <3> QED BY <1>0, <3>3, <3>4
  <2> QED BY <1>0, <1>a, <1>c, <1>d, <1>e, <2>1, <2>3, <2>4
<1>6. CASE ReadReply
  <2>1. pc = "read" /\ Read /\ Understood(port'.val) /\ disturbed' \in BOOLEAN /\ Onward
    BY <1>0, <1>6 DEF ReadReply, Onward
  <2>2. out' \in Seq(Wire) /\ port' \in Piece /\ port'.val \in Byte
    BY <2>1, ReadTypes DEF Piece
  <2>3. DialogueTypes'
    BY <2>1, <2>2, UnderstoodTypes
  <2>4. UNCHANGED <<due, data, packet, x, y, buttons, prev_buttons>>
    BY <2>1 DEF Understood, pointer
  <2> QED BY <1>0, <1>a, <1>c, <2>1, <2>2, <2>3, <2>4
<1>7. CASE GiveUp
  <2>1. pc = "read" /\ ReadAgain /\ Understood(port.val) /\ disturbed' \in BOOLEAN /\ Onward
    BY <1>0, <1>7 DEF GiveUp, Onward
  <2>2. port.val \in Byte /\ out' \in Seq(Wire) /\ port' \in Piece
    BY <1>e, <2>1, ReadTypes DEF Piece
  <2>3. DialogueTypes'
    BY <2>1, <2>2, UnderstoodTypes
  <2>4. UNCHANGED <<due, data, packet, x, y, buttons, prev_buttons>>
    BY <2>1 DEF Understood, pointer
  <2> QED BY <1>0, <1>a, <1>c, <2>1, <2>2, <2>3, <2>4
<1>8. CASE PollCheck
  <2>1. DialogueTypes'
    BY <1>0, <1>8 DEF PollCheck, DialogueTypes
  <2>2. UNCHANGED <<due, out, port, data, packet, x, y, buttons, prev_buttons, disturbed>>
    BY <1>8 DEF PollCheck, wires, pointer, history
  <2> QED BY <1>0, <1>a, <1>c, <1>d, <1>e, <2>1, <2>2
<1>9. CASE PollRead
  <2>1. out' \in Seq(Wire) /\ port' \in Piece /\ data' = port'
    BY <1>9, ReadTypes DEF PollRead
  <2>2. DialogueTypes'
    BY <1>0, <1>9 DEF PollRead, DialogueTypes
  <2>3. UNCHANGED <<due, packet, x, y, buttons, prev_buttons>>
    BY <1>9 DEF PollRead, pointer
  <2>4. disturbed' \in BOOLEAN /\ Onward
    BY <1>0, <1>9 DEF PollRead, Onward
  <2> QED BY <1>0, <1>a, <1>c, <2>1, <2>2, <2>3, <2>4
<1>10. CASE PollPut
  <2>1. PointerTypes' /\ ButtonStep
    BY <1>0, <1>10, PutTypes DEF PollPut, ButtonStep
  <2>2. DialogueTypes'
    BY <1>0, <1>10 DEF PollPut, DialogueTypes
  <2>3. data' \in Piece
    BY <1>10 DEF PollPut, NoByte, Tagged, Piece, Byte
  <2>4. UNCHANGED <<due, out, port, disturbed>>
    BY <1>10 DEF PollPut, wires, history
  <2> QED BY <1>0, <1>c, <1>d, <1>e, <2>1, <2>2, <2>3, <2>4
<1>11. CASE mouse_handler
  <2>1. Read /\ Put(port') /\ disturbed' \in BOOLEAN /\ Onward
    BY <1>0, <1>11 DEF mouse_handler, Onward
  <2>2. out' \in Seq(Wire) /\ port' \in Piece
    BY <2>1, ReadTypes
  <2>3. PointerTypes' /\ ButtonStep
    BY <2>1, <2>2, PutTypes DEF ButtonStep
  <2>4. UNCHANGED <<due, pc, step, todo, data>>
    BY <1>11 DEF mouse_handler, dialogue
  <2> QED BY <1>0, <1>b, <1>c, <2>1, <2>2, <2>3, <2>4
<1>12. CASE keyboard_handler
  <2>1. out' \in Seq(Wire) /\ port' \in Piece
    BY <1>12, ReadTypes DEF keyboard_handler
  <2>2. UNCHANGED <<due, pc, step, todo, data, packet, x, y, buttons, prev_buttons, disturbed>>
    BY <1>12 DEF keyboard_handler, dialogue, pointer, history
  <2> QED BY <1>0, <1>a, <1>b, <1>c, <1>d, <2>1, <2>2
<1>13. CASE UNCHANGED vars
  <2>1. UNCHANGED <<due, out, port, pc, step, todo, data, packet, x, y, buttons, prev_buttons,
                    disturbed>>
    BY <1>13 DEF vars, wires, dialogue, pointer, history
  <2> QED BY <1>0, <1>a, <1>b, <1>c, <1>d, <1>e, <2>1
<1>14. CASE PollEnd \/ Wake
  <2>1. DialogueTypes'
    BY <1>0, <1>14 DEF PollEnd, Wake, DialogueTypes
  <2>2. UNCHANGED <<due, out, port, data, packet, x, y, buttons, prev_buttons, disturbed>>
    BY <1>14 DEF PollEnd, Wake, wires, pointer, history
  <2> QED BY <1>0, <1>a, <1>c, <1>d, <1>e, <2>1, <2>2
<1> QED BY <1>1, <1>2, <1>3, <1>4, <1>5, <1>6, <1>7, <1>8, <1>9, <1>10, <1>11, <1>12, <1>13, <1>14
        DEF Next, mouse_init, mouse_poll

-----------------------------------------------------------------------------
(* Reports, three bytes each.                                              *)

\* Counting by threes.
LEMMA Threes ==
  /\ \A n \in Nat : n % 3 = 0 =>
       /\ n \div 3 \in Nat /\ n = 3 * (n \div 3)
       /\ (n + 3) % 3 = 0 /\ (n + 3) \div 3 = n \div 3 + 1
  /\ \A m \in Nat : \A j \in 1 .. 3 : (3 * m + j - 1) % 3 = j - 1
<1>1. ASSUME NEW n \in Nat, n % 3 = 0
      PROVE  /\ n \div 3 \in Nat /\ n = 3 * (n \div 3)
             /\ (n + 3) % 3 = 0 /\ (n + 3) \div 3 = n \div 3 + 1
  BY <1>1
<1>2. ASSUME NEW m \in Nat, NEW j \in 1 .. 3
      PROVE  (3 * m + j - 1) % 3 = j - 1
  OBVIOUS
<1> QED BY <1>1, <1>2

\* Whole reports, three by three.
LEMMA WholeAre ==
  ASSUME NEW s \in Seq(Piece), NEW m \in Nat, Len(s) = 3 * m
  PROVE  /\ Len(s) \div 3 = m
         /\ Whole(s) <=> \A k \in 1 .. m : \A i \in 1 .. 3 : s[3 * (k - 1) + i].of = Parts[i]
         /\ Reports(s) = [k \in 1 .. m |-> [i \in 1 .. 3 |-> s[3 * (k - 1) + i].val]]
<1>1. Len(s) % 3 = 0 /\ Len(s) \div 3 = m /\ DOMAIN s = 1 .. (3 * m)
  OBVIOUS
<1>2. ASSUME Whole(s), NEW k \in 1 .. m, NEW i \in 1 .. 3
      PROVE  s[3 * (k - 1) + i].of = Parts[i]
  <2>1. PICK j : j = 3 * (k - 1) + i
    BY Zenon
  <2>2. j \in 1 .. (3 * m) /\ (j - 1) % 3 = i - 1
    BY <2>1
  <2>3. s[j].of = Parts[((j - 1) % 3) + 1]
    BY <1>1, <1>2, <2>2 DEF Whole
  <2>4. (i - 1) + 1 = i
    OBVIOUS
  <2> QED BY <2>1, <2>2, <2>3, <2>4
<1>3. ASSUME \A k \in 1 .. m : \A i \in 1 .. 3 : s[3 * (k - 1) + i].of = Parts[i],
             NEW j \in 1 .. (3 * m)
      PROVE  s[j].of = Parts[((j - 1) % 3) + 1]
  <2>1. PICK k, i : k = ((j - 1) \div 3) + 1 /\ i = ((j - 1) % 3) + 1
    BY Zenon
  <2>2. k \in 1 .. m /\ i \in 1 .. 3 /\ j = 3 * (k - 1) + i
    BY <2>1
  <2> QED BY <1>3, <2>1, <2>2
<1>4. Whole(s) <=> \A k \in 1 .. m : \A i \in 1 .. 3 : s[3 * (k - 1) + i].of = Parts[i]
  BY <1>1, <1>2, <1>3 DEF Whole
<1>5. Reports(s) = [k \in 1 .. m |-> [i \in 1 .. 3 |-> s[3 * (k - 1) + i].val]]
  BY <1>1 DEF Reports
<1> QED BY <1>1, <1>4, <1>5

\* The number of reports in whole ones.
LEMMA HowMany ==
  ASSUME NEW s \in Seq(Piece), Whole(s)
  PROVE  \E m \in Nat : Len(s) = 3 * m
<1>1. Len(s) \in Nat /\ Len(s) % 3 = 0
  BY DEF Whole
<1>2. Len(s) \div 3 \in Nat /\ Len(s) = 3 * (Len(s) \div 3)
  BY <1>1, Threes
<1> QED BY <1>2

\* Three numbers make a report.
LEMMA AReport ==
  ASSUME NEW p \in Packet
  PROVE  [i \in 1 .. 3 |-> p[i]] = p
<1>1. p \in Byte \X Byte \X Byte
  BY MouseAssumption
<1> QED BY <1>1

\* The reports of whole ones are a sequence.
LEMMA ReportsSeq ==
  ASSUME NEW s \in Seq(Piece), Reported3(s), NEW m \in Nat, Len(s) = 3 * m
  PROVE  Reports(s) \in Seq(Packet) /\ Len(Reports(s)) = m
<1>1. Len(s) \div 3 = m /\ Reports(s) = [k \in 1 .. m |-> [i \in 1 .. 3 |-> s[3 * (k - 1) + i].val]]
  BY WholeAre
<1>2. PICK f : f = Reports(s)
  BY Zenon
<1>3. \A k \in 1 .. m : f[k] \in Packet
  BY <1>1, <1>2 DEF Reported3
<1>4. f = [k \in 1 .. m |-> f[k]]
  BY <1>1, <1>2
<1>5. f \in [1 .. m -> Packet]
  BY <1>3, <1>4
<1>6. f \in Seq(Packet) /\ Len(f) = m
  BY <1>5, AsSeq
<1> QED BY <1>2, <1>6

\* One more report.
LEMMA ReportedMore ==
  ASSUME NEW s \in Seq(Piece), Reported3(s), NEW p \in Packet
  PROVE  /\ s \o Report(p) \in Seq(Piece)
         /\ Reported3(s \o Report(p))
         /\ Reports(s \o Report(p)) = Append(Reports(s), p)
<1>1. PICK m \in Nat : Len(s) = 3 * m
  BY HowMany DEF Reported3
<1>2. PICK c, r : c = Report(p) /\ r = s \o c
  BY Zenon
<1>a. Wire \subseteq Piece
  BY DEF Wire, Piece
<1>3. /\ c \in Seq(Piece) /\ Len(c) = 3
      /\ \A i \in 1 .. 3 : c[i].val = p[i] /\ c[i].of = Parts[i]
  <2>1. \A i \in 1 .. 3 : c[i] = Tagged(p[i], Parts[i]) /\ c[i] \in Wire
    BY <1>2, ReportOnWire
  <2>2. c \in Seq(Wire) /\ Len(c) = 3
    BY <1>2, ReportOnWire
  <2>3. c \in Seq(Piece)
    BY <1>a, <2>1, <2>2
  <2> QED BY <2>1, <2>2, <2>3 DEF Tagged
<1>4. /\ r \in Seq(Piece) /\ Len(r) = 3 * (m + 1)
      /\ \A i \in 1 .. (3 * m) : r[i] = s[i]
      /\ \A i \in 1 .. 3 : r[3 * m + i] = c[i]
  <2>1. /\ s \o c \in Seq(Piece) /\ Len(s \o c) = Len(s) + Len(c)
        /\ \A i \in 1 .. Len(s) + Len(c) : (s \o c)[i] = IF i <= Len(s) THEN s[i] ELSE c[i - Len(s)]
    BY <1>3, ConcatProperties
  <2>2. /\ r \in Seq(Piece) /\ Len(r) = 3 * m + 3
        /\ \A i \in 1 .. (3 * m + 3) : r[i] = IF i <= 3 * m THEN s[i] ELSE c[i - 3 * m]
    BY <1>1, <1>2, <1>3, <2>1
  <2>3. \A i \in 1 .. (3 * m) : r[i] = s[i]
    BY <2>2
  <2>4. ASSUME NEW i \in 1 .. 3 PROVE r[3 * m + i] = c[i]
    <3>1. 3 * m + i \in 1 .. (3 * m + 3) /\ ~(3 * m + i <= 3 * m) /\ (3 * m + i) - 3 * m = i
      OBVIOUS
    <3> QED BY <2>2, <3>1
  <2>5. r \in Seq(Piece) /\ Len(r) = 3 * (m + 1)
    BY <2>2
  <2> QED BY <2>3, <2>4, <2>5, Zenon
<1>5. ASSUME NEW k \in 1 .. m, NEW i \in 1 .. 3
      PROVE  r[3 * (k - 1) + i] = s[3 * (k - 1) + i]
  <2>1. 3 * (k - 1) + i \in 1 .. (3 * m)
    OBVIOUS
  <2> QED BY <1>4, <2>1
<1>6. ASSUME NEW k, k = m + 1, NEW i \in 1 .. 3
      PROVE  r[3 * (k - 1) + i] = c[i]
  <2>1. 3 * (k - 1) + i = 3 * m + i
    BY <1>6
  <2> QED BY <1>4, <2>1
<1>7. /\ Whole(s) <=> \A k \in 1 .. m : \A i \in 1 .. 3 : s[3 * (k - 1) + i].of = Parts[i]
      /\ Reports(s) = [k \in 1 .. m |-> [i \in 1 .. 3 |-> s[3 * (k - 1) + i].val]]
      /\ Len(s) \div 3 = m
  BY <1>1, WholeAre
<1>8. /\ Whole(r) <=> \A k \in 1 .. (m + 1) : \A i \in 1 .. 3 : r[3 * (k - 1) + i].of = Parts[i]
      /\ Reports(r) = [k \in 1 .. (m + 1) |-> [i \in 1 .. 3 |-> r[3 * (k - 1) + i].val]]
      /\ Len(r) \div 3 = m + 1
  <2>1. m + 1 \in Nat
    OBVIOUS
  <2> QED BY <1>4, <2>1, WholeAre
<1>9. \A k \in 1 .. (m + 1) : k \in 1 .. m \/ k = m + 1
  OBVIOUS
<1>10. Whole(r)
  <2>1. ASSUME NEW k \in 1 .. (m + 1), NEW i \in 1 .. 3 PROVE r[3 * (k - 1) + i].of = Parts[i]
    <3>1. CASE k \in 1 .. m
      BY <1>5, <1>7, <3>1 DEF Reported3
    <3>2. CASE k = m + 1
      BY <1>3, <1>6, <3>2
    <3> QED BY <1>9, <3>1, <3>2
  <2> QED BY <1>8, <2>1
<1>11. ASSUME NEW k \in 1 .. m PROVE Reports(r)[k] = Reports(s)[k]
  <2>1. k \in 1 .. (m + 1)
    OBVIOUS
  <2>2. Reports(r)[k] = [i \in 1 .. 3 |-> r[3 * (k - 1) + i].val]
    BY <1>8, <2>1
  <2>3. Reports(s)[k] = [i \in 1 .. 3 |-> s[3 * (k - 1) + i].val]
    BY <1>7
  <2> QED BY <1>5, <2>2, <2>3
<1>12. Reports(r)[m + 1] = p
  <2>1. m + 1 \in 1 .. (m + 1)
    OBVIOUS
  <2>2. PICK k : k = m + 1
    BY Zenon
  <2>3. Reports(r)[k] = [i \in 1 .. 3 |-> r[3 * (k - 1) + i].val]
    BY <1>8, <2>1, <2>2
  <2>4. \A i \in 1 .. 3 : r[3 * (k - 1) + i].val = p[i]
    BY <1>3, <1>6, <2>2
  <2>5. Reports(r)[k] = [i \in 1 .. 3 |-> p[i]]
    BY <2>3, <2>4
  <2> QED BY <2>2, <2>5, AReport
<1>13. Reported3(r)
  <2>1. ASSUME NEW k \in 1 .. (m + 1) PROVE Reports(r)[k] \in Packet
    <3>1. CASE k \in 1 .. m
      BY <1>7, <1>11, <3>1 DEF Reported3
    <3>2. CASE k = m + 1
      BY <1>12, <3>2
    <3> QED BY <1>9, <3>1, <3>2
  <2> QED BY <1>8, <1>10, <2>1 DEF Reported3
<1>14. Reports(r) = Append(Reports(s), p)
  <2>1. PICK f, g : f = Reports(s) /\ g = Reports(r)
    BY Zenon
  <2>2. m + 1 \in Nat
    OBVIOUS
  <2>3. f \in Seq(Packet) /\ Len(f) = m /\ g \in Seq(Packet) /\ Len(g) = m + 1
    BY <1>1, <1>4, <1>13, <2>1, <2>2, ReportsSeq
  <2>4. PICK a : a = Append(f, p)
    BY Zenon
  <2>5. /\ a \in Seq(Packet) /\ Len(a) = m + 1 /\ a[m + 1] = p
        /\ \A i \in 1 .. m : a[i] = f[i]
    <3>1. /\ Append(f, p) \in Seq(Packet) /\ Len(Append(f, p)) = Len(f) + 1
          /\ \A i \in 1 .. Len(f) : Append(f, p)[i] = f[i]
          /\ Append(f, p)[Len(f) + 1] = p
      BY <2>3, AppendProperties
    <3> QED BY <2>3, <2>4, <3>1
  <2>6. \A i \in 1 .. (m + 1) : g[i] = a[i]
    BY <1>9, <1>11, <1>12, <2>1, <2>5
  <2>7. g = a
    BY <2>3, <2>5, <2>6, SeqEqual
  <2> QED BY <2>1, <2>4, <2>7
<1> QED BY <1>2, <1>4, <1>13, <1>14

\* The report that comes first.
LEMMA FirstReport ==
  ASSUME NEW s \in Seq(Piece), Reported3(s), s # <<>>
  PROVE  /\ Len(s) >= 3 /\ Reports(s) # <<>> /\ Reports(s) \in Seq(Packet)
         /\ Head(Reports(s)) \in Packet
         /\ \A i \in 1 .. 3 : s[i] \in Piece /\ Head(Reports(s))[i] = s[i].val
         /\ Bit(s[1].val, 8)
<1>1. PICK m \in Nat : Len(s) = 3 * m
  BY HowMany DEF Reported3
<1>2. Len(s) \in Nat \ {0}
  BY EmptySeq
<1>3. m >= 1 /\ Len(s) >= 3
  BY <1>1, <1>2
<1>4. PICK f : f = Reports(s)
  BY Zenon
<1>5. f \in Seq(Packet) /\ Len(f) = m
  BY <1>1, <1>4, ReportsSeq
<1>6. f # <<>> /\ Head(f) = f[1] /\ f[1] \in Packet
  BY <1>3, <1>5
<1>7. f = [k \in 1 .. m |-> [i \in 1 .. 3 |-> s[3 * (k - 1) + i].val]]
  BY <1>1, <1>4, WholeAre
<1>8. f[1] = [i \in 1 .. 3 |-> s[3 * (1 - 1) + i].val]
  BY <1>3, <1>7
<1>9. \A i \in 1 .. 3 : 3 * (1 - 1) + i = i
  OBVIOUS
<1>10. \A i \in 1 .. 3 : f[1][i] = s[i].val
  BY <1>8, <1>9
<1>11. \A i \in 1 .. 3 : s[i] \in Piece
  BY <1>3
<1>12. Bit(f[1][1], 8)
  BY <1>6, MouseAssumption
<1> QED BY <1>3, <1>4, <1>5, <1>6, <1>10, <1>11, <1>12

\* And those behind it.
LEMMA ReportsRest ==
  ASSUME NEW u \in Seq(Piece), NEW t \in Seq(Piece), Len(u) = 3, Reported3(u \o t)
  PROVE  Reported3(t) /\ Reports(t) = Tail(Reports(u \o t))
<1>1. PICK r : r = u \o t
  BY Zenon
<1>2. /\ r \in Seq(Piece) /\ Len(r) = 3 + Len(t) /\ Len(t) \in Nat
      /\ \A i \in 1 .. Len(t) : r[3 + i] = t[i]
  <2>1. /\ u \o t \in Seq(Piece) /\ Len(u \o t) = Len(u) + Len(t)
        /\ \A i \in 1 .. Len(u) + Len(t) : (u \o t)[i] = IF i <= Len(u) THEN u[i] ELSE t[i - Len(u)]
    BY ConcatProperties
  <2>2. PICK n : n = Len(t)
    BY Zenon
  <2>3. /\ r \in Seq(Piece) /\ Len(r) = 3 + n /\ n \in Nat
        /\ \A i \in 1 .. 3 + n : r[i] = IF i <= 3 THEN u[i] ELSE t[i - 3]
    BY <1>1, <2>1, <2>2
  <2>4. ASSUME NEW i \in 1 .. n PROVE r[3 + i] = t[i]
    <3>1. 3 + i \in 1 .. 3 + n /\ ~(3 + i <= 3) /\ (3 + i) - 3 = i
      BY <2>3
    <3> QED BY <2>3, <3>1
  <2> QED BY <2>2, <2>3, <2>4
<1>3. Reported3(r)
  BY <1>1
<1>4. PICK l \in Nat : Len(r) = 3 * l
  BY <1>2, <1>3, HowMany DEF Reported3
<1>5. PICK m : m = l - 1
  BY Zenon
<1>6. m \in Nat /\ Len(t) = 3 * m /\ Len(r) = 3 * (m + 1) /\ m + 1 \in Nat
  BY <1>2, <1>4, <1>5
<1>7. /\ Whole(t) <=> \A k \in 1 .. m : \A i \in 1 .. 3 : t[3 * (k - 1) + i].of = Parts[i]
      /\ Reports(t) = [k \in 1 .. m |-> [i \in 1 .. 3 |-> t[3 * (k - 1) + i].val]]
      /\ Len(t) \div 3 = m
  BY <1>6, WholeAre
<1>8. /\ Whole(r) <=> \A k \in 1 .. (m + 1) : \A i \in 1 .. 3 : r[3 * (k - 1) + i].of = Parts[i]
      /\ Reports(r) = [k \in 1 .. (m + 1) |-> [i \in 1 .. 3 |-> r[3 * (k - 1) + i].val]]
      /\ Len(r) \div 3 = m + 1
  BY <1>2, <1>6, WholeAre
<1>9. ASSUME NEW k \in 1 .. m, NEW i \in 1 .. 3
      PROVE  r[3 * ((k + 1) - 1) + i] = t[3 * (k - 1) + i]
  <2>1. 3 * (k - 1) + i \in 1 .. (3 * m) /\ 3 * ((k + 1) - 1) + i = 3 + (3 * (k - 1) + i)
    BY <1>6
  <2> QED BY <1>2, <1>6, <2>1
<1>10. \A k \in 1 .. m : k + 1 \in 1 .. (m + 1)
  BY <1>6
<1>11. Whole(t)
  <2>1. Whole(r)
    BY <1>3 DEF Reported3
  <2>2. ASSUME NEW k \in 1 .. m, NEW i \in 1 .. 3 PROVE t[3 * (k - 1) + i].of = Parts[i]
    <3>1. PICK l2 : l2 = k + 1
      BY Zenon
    <3>2. r[3 * (l2 - 1) + i].of = Parts[i]
      BY <1>8, <1>10, <2>1, <3>1
    <3>3. r[3 * (l2 - 1) + i] = t[3 * (k - 1) + i]
      BY <1>9, <3>1
    <3> QED BY <3>2, <3>3
  <2> QED BY <1>7, <2>2
<1>12. ASSUME NEW k \in 1 .. m PROVE Reports(t)[k] = Reports(r)[k + 1]
  <2>1. Reports(r)[k + 1] = [i \in 1 .. 3 |-> r[3 * ((k + 1) - 1) + i].val]
    BY <1>8, <1>10
  <2>2. Reports(t)[k] = [i \in 1 .. 3 |-> t[3 * (k - 1) + i].val]
    BY <1>7
  <2> QED BY <1>9, <2>1, <2>2
<1>13. Reported3(t)
  BY <1>3, <1>7, <1>8, <1>10, <1>11, <1>12 DEF Reported3
<1>14. Reports(t) = Tail(Reports(r))
  <2>1. PICK f, g, h : f = Reports(t) /\ g = Reports(r) /\ h = Tail(g)
    BY Zenon
  <2>2. f \in Seq(Packet) /\ Len(f) = m /\ g \in Seq(Packet) /\ Len(g) = m + 1
    BY <1>2, <1>3, <1>6, <1>13, <2>1, ReportsSeq
  <2>3. g # <<>>
    BY <1>6, <2>2
  <2>4. /\ h \in Seq(Packet) /\ Len(h) = Len(g) - 1
        /\ \A i \in 1 .. (Len(g) - 1) : h[i] = g[i + 1]
    BY <2>1, <2>2, <2>3, HeadThenTail
  <2>5. Len(h) = m /\ \A i \in 1 .. m : h[i] = g[i + 1]
    BY <1>6, <2>2, <2>4
  <2>6. \A i \in 1 .. m : f[i] = h[i]
    BY <1>12, <2>1, <2>5
  <2>7. f = h
    BY <2>2, <2>4, <2>5, <2>6, SeqEqual
  <2> QED BY <2>1, <2>7
<1> QED BY <1>1, <1>13, <1>14

\* Where the bytes of the mouse are, with and without one in the poll's hands.
LEMMA Joined ==
  ASSUME NEW u \in Seq(Piece), NEW q \in Seq(Wire), NEW b \in Piece
  PROVE  /\ Only(q, Reported) \in Seq(Piece)
         /\ u \o <<>> = u /\ (u \o <<>>) \o Only(q, Reported) \in Seq(Piece)
         /\ (u \o <<b>>) \o Only(q, Reported) \in Seq(Piece)
<1>1. Wire \subseteq Piece
  BY DEF Wire, Piece
<1>2. PICK m : m = Only(q, Reported)
  BY Zenon
<1>3. m \in Seq(Wire)
  BY <1>2, OnlySeq
<1>4. m \in Seq(Piece)
  BY <1>1, <1>3
<1>5. u \o <<>> = u
  BY ConcatEmptySeq
<1>6. u \o m \in Seq(Piece)
  BY <1>4, ConcatProperties
<1>7. <<b>> \in Seq(Piece)
  OBVIOUS
<1>8. u \o <<b>> \in Seq(Piece)
  BY <1>7, ConcatProperties
<1>9. (u \o <<b>>) \o m \in Seq(Piece)
  BY <1>4, <1>8, ConcatProperties
<1> QED BY <1>2, <1>4, <1>5, <1>6, <1>9

\* A byte in hand and the same byte on the wire.
LEMMA InHand ==
  ASSUME NEW u \in Seq(Piece), NEW q \in Seq(Wire), q # <<>>, Head(q).of \in Reported
  PROVE  (u \o <<>>) \o Only(q, Reported) = (u \o <<Head(q)>>) \o Only(Tail(q), Reported)
<1>1. PICK h, t : h = Head(q) /\ t = Only(Tail(q), Reported)
  BY Zenon
<1>2. Wire \subseteq Piece
  BY DEF Wire, Piece
<1>3. h \in Wire /\ t \in Seq(Wire) /\ Only(q, Reported) = <<h>> \o t
  BY <1>1, HeadThenTail, ReadKept
<1>4. <<h>> \in Seq(Piece) /\ t \in Seq(Piece)
  BY <1>2, <1>3
<1>5. u \o (<<h>> \o t) = (u \o <<h>>) \o t
  BY <1>4, ConcatAssociative
<1>6. u \o <<>> = u
  BY ConcatEmptySeq
<1> QED BY <1>1, <1>3, <1>5, <1>6

\* The pointer goes to the nearest point.
LEMMA NearestIs ==
  ASSUME NEW v \in Int, NEW size \in Nat \ {0}
  PROVE  Device!Nearest(v, size) = Clamp(v, size)
<1>1. PICK c : c = Clamp(v, size)
  BY Zenon
<1>2. c \in 0 .. (size - 1)
  BY <1>1, ClampOnScreen
<1>3. \A d \in 0 .. (size - 1) : Device!Apart(c, v) <= Device!Apart(d, v)
  BY <1>1 DEF Clamp, Device!Apart
<1>4. ASSUME NEW e \in 0 .. (size - 1),
             \A d \in 0 .. (size - 1) : Device!Apart(e, v) <= Device!Apart(d, v)
      PROVE  e = c
  <2>1. Device!Apart(e, v) <= Device!Apart(c, v)
    BY <1>2, <1>4
  <2> QED BY <1>1, <1>2, <2>1 DEF Clamp, Device!Apart
<1> QED BY <1>1, <1>2, <1>3, <1>4 DEF Device!Nearest

\* The bytes of a report and the nine-bit numbers it stands for: a number that
\* fits in eight bits is the signed byte.
LEMMA MovesAre ==
  ASSUME NEW p \in Packet
  PROVE  /\ Device!Small(Device!DX(p)) => Device!DX(p) = Signed(p[2])
         /\ Device!Small(Device!DY(p)) => Device!DY(p) = Signed(p[3])
         /\ Signed(p[2]) \in Int /\ Signed(p[3]) \in Int
<1>1. p \in Byte \X Byte \X Byte
  BY MouseAssumption
<1>2. p[1] \in 0 .. 255 /\ p[2] \in 0 .. 255 /\ p[3] \in 0 .. 255
  BY <1>1 DEF Byte
<1>3. ASSUME NEW bit \in {16, 32}
      PROVE  Device!Sign(p, bit) \in {0, 1}
  <2>1. (p[1] \div bit) % 2 = 0 \/ (p[1] \div bit) % 2 = 1
    BY <1>2
  <2> QED BY <2>1 DEF Device!Sign
<1>4. PICK sx, sy : sx = Device!Sign(p, 16) /\ sy = Device!Sign(p, 32)
  BY Zenon
<1>5. sx \in {0, 1} /\ sy \in {0, 1}
  BY <1>3, <1>4
<1>6. Device!DX(p) = p[2] - 256 * sx /\ Device!DY(p) = p[3] - 256 * sy
  BY <1>4 DEF Device!DX, Device!DY
<1>7. ASSUME NEW b \in 0 .. 255, NEW sign \in {0, 1}
      PROVE  /\ Signed(b) \in Int
             /\ Device!Small(b - 256 * sign) => b - 256 * sign = Signed(b)
  BY DEF Device!Small, Signed
<1>8. PICK b2, b3 : b2 = p[2] /\ b3 = p[3]
  BY Zenon
<1>9. /\ Signed(b2) \in Int
      /\ Device!Small(b2 - 256 * sx) => b2 - 256 * sx = Signed(b2)
  BY <1>2, <1>5, <1>7, <1>8
<1>10. /\ Signed(b3) \in Int
       /\ Device!Small(b3 - 256 * sy) => b3 - 256 * sy = Signed(b3)
  BY <1>2, <1>5, <1>7, <1>8
<1> QED BY <1>6, <1>8, <1>9, <1>10

-----------------------------------------------------------------------------
(* The packet.                                                             *)

\* What a step is to the pointing device: nothing, a report, or the use of one.
Still == UNCHANGED <<x, y, buttons, prev_buttons>>
\* What process_packet makes of the first of the reports r.
UsesFirst(r) ==
  /\ r # <<>>
  /\ x' \in 0 .. (VGA_WIDTH - 1) /\ y' \in 0 .. (VGA_HEIGHT - 1)
  /\ Device!Small(Device!DX(Head(r))) => x' = Device!Nearest(x + Device!DX(Head(r)), VGA_WIDTH)
  /\ Device!Small(Device!DY(Head(r))) => y' = Device!Nearest(y - Device!DY(Head(r)), VGA_HEIGHT)
  /\ buttons' = Head(r)[1] % 8 /\ prev_buttons' = buttons

\* The switch puts one more byte of a report into the packet, or uses the report.
LEMMA PutSteps ==
  ASSUME MouseTypes, NEW b \in Piece, NEW m \in Seq(Piece),
         Reported3((packet \o <<b>>) \o m), Put(b)
  PROVE  LET s == (packet \o <<b>>) \o m
         IN  \/ packet' \o m = s /\ Still
             \/ /\ Reported3(packet' \o m) /\ Reports(packet' \o m) = Tail(Reports(s))
                /\ UsesFirst(Reports(s))
<1>0. PICK p, u, s : p = packet /\ u = p \o <<b>> /\ s = u \o m
  BY Zenon
<1>1. p \in Seq(Piece) /\ Len(p) \in Nat /\ Len(p) <= 2 /\ <<b>> \in Seq(Piece) /\ Len(<<b>>) = 1
  BY <1>0 DEF MouseTypes
<1>2. /\ u \in Seq(Piece) /\ Len(u) = Len(p) + 1 /\ u[Len(p) + 1] = b
      /\ \A i \in 1 .. Len(p) : u[i] = p[i]
  <2>1. PICK c : c = <<b>>
    BY Zenon
  <2>2. c \in Seq(Piece) /\ Len(c) = 1 /\ c[1] = b
    BY <2>1
  <2>3. /\ p \o c \in Seq(Piece) /\ Len(p \o c) = Len(p) + Len(c)
        /\ \A i \in 1 .. Len(p) + Len(c) : (p \o c)[i] = IF i <= Len(p) THEN p[i] ELSE c[i - Len(p)]
    BY <1>1, <2>2, ConcatProperties
  <2>4. PICK n : n = Len(p)
    BY Zenon
  <2>5. /\ u \in Seq(Piece) /\ Len(u) = n + 1 /\ n \in Nat
        /\ \A i \in 1 .. n + 1 : u[i] = IF i <= n THEN p[i] ELSE c[i - n]
    BY <1>0, <1>1, <2>1, <2>2, <2>3, <2>4
  <2>6. n + 1 \in 1 .. n + 1 /\ ~(n + 1 <= n) /\ (n + 1) - n = 1
    BY <2>5
  <2>7. u[n + 1] = b
    BY <2>2, <2>5, <2>6
  <2>8. \A i \in 1 .. n : u[i] = p[i]
    BY <2>5
  <2> QED BY <2>4, <2>5, <2>7, <2>8
<1>3. /\ s \in Seq(Piece) /\ Len(s) = Len(u) + Len(m)
      /\ \A i \in 1 .. Len(u) : s[i] = u[i]
  <2>1. /\ u \o m \in Seq(Piece) /\ Len(u \o m) = Len(u) + Len(m)
        /\ \A i \in 1 .. Len(u) + Len(m) : (u \o m)[i] = IF i <= Len(u) THEN u[i] ELSE m[i - Len(u)]
    BY <1>2, ConcatProperties
  <2>2. PICK n, l : n = Len(u) /\ l = Len(m)
    BY Zenon
  <2>3. n \in Nat /\ l \in Nat
    BY <1>2, <2>2
  <2>4. \A i \in 1 .. n + l : s[i] = IF i <= n THEN u[i] ELSE m[i - n]
    BY <1>0, <2>1, <2>2
  <2>5. \A i \in 1 .. n : s[i] = u[i]
    BY <2>3, <2>4
  <2> QED BY <1>0, <2>1, <2>2, <2>5
<1>4. Reported3(s)
  BY <1>0
<1>5. s # <<>>
  <2>1. Len(s) # 0
    BY <1>1, <1>2, <1>3
  <2> QED BY <2>1, EmptySeq
<1>6. /\ Len(s) >= 3 /\ Reports(s) # <<>> /\ Head(Reports(s)) \in Packet
      /\ \A i \in 1 .. 3 : s[i] \in Piece /\ Head(Reports(s))[i] = s[i].val
      /\ Bit(s[1].val, 8)
  BY <1>3, <1>4, <1>5, FirstReport
<1>7. CASE p = <<>>
  <2>1. packet' = (IF MayBegin(b) THEN <<b>> ELSE <<>>) /\ Still
    BY <1>0, <1>7 DEF Put, Still
  <2>2. s[1] = b
    <3>1. Len(p) = 0
      BY <1>7
    <3>2. Len(u) = 1 /\ u[1] = b
      BY <1>2, <3>1
    <3> QED BY <1>3, <3>2
  <2>3. MayBegin(b)
    BY <1>6, <2>2 DEF MayBegin
  <2>4. u = <<b>>
    <3>1. <<>> \o <<b>> = <<b>>
      BY <1>1, ConcatEmptySeq
    <3> QED BY <1>0, <1>7, <3>1
  <2>5. packet' = u
    BY <2>1, <2>3, <2>4
  <2> QED BY <1>0, <2>1, <2>5
<1>8. CASE Len(p) = 1
  <2>0. p # <<>>
    <3>1. ASSUME p = <<>> PROVE Len(p) = 0
      BY <3>1
    <3>2. Len(p) # 0
      BY <1>8
    <3> QED BY <3>1, <3>2
  <2>1. packet' = Append(p, b) /\ Still
    BY <1>0, <1>8, <2>0 DEF Put, Still
  <2>2. Append(p, b) = u
    BY <1>0, <1>1, AppendIsConcat
  <2> QED BY <1>0, <2>1, <2>2
<1>9. CASE Len(p) = 2
  <2>0. p # <<>>
    BY <1>9, EmptySeq
  <2>1. packet' = <<>> /\ process_packet(Append(p, b))
    BY <1>0, <1>9, <2>0 DEF Put
  <2>2. Append(p, b) = u
    BY <1>0, <1>1, AppendIsConcat
  <2>3. Len(u) = 3
    BY <1>2, <1>9
  <2>4. \A i \in 1 .. 3 : u[i] = s[i]
    BY <1>3, <2>3
  <2>5. PICK h : h = Head(Reports(s))
    BY Zenon
  <2>6. h \in Packet /\ \A i \in 1 .. 3 : u[i].val = h[i]
    BY <1>6, <2>4, <2>5
  <2>7. /\ prev_buttons' = buttons /\ buttons' = h[1] % 8
        /\ x' = Clamp(x + Signed(h[2]), VGA_WIDTH)
        /\ y' = Clamp(y - Signed(h[3]), VGA_HEIGHT)
    BY <2>1, <2>2, <2>6 DEF process_packet
  <2>8. /\ Device!Small(Device!DX(h)) => Device!DX(h) = Signed(h[2])
        /\ Device!Small(Device!DY(h)) => Device!DY(h) = Signed(h[3])
        /\ Signed(h[2]) \in Int /\ Signed(h[3]) \in Int
    BY <2>6, MovesAre
  <2>9. /\ x \in Int /\ y \in Int /\ VGA_WIDTH \in Nat \ {0} /\ VGA_HEIGHT \in Nat \ {0}
    BY MouseAssumption DEF MouseTypes
  <2>10. PICK dx, dy : dx = Signed(h[2]) /\ dy = Signed(h[3])
    BY Zenon
  <2>11. x + dx \in Int /\ y - dy \in Int
    BY <2>8, <2>9, <2>10
  <2>12. /\ x' = Device!Nearest(x + dx, VGA_WIDTH) /\ y' = Device!Nearest(y - dy, VGA_HEIGHT)
    BY <2>7, <2>9, <2>10, <2>11, NearestIs
  <2>13. x' \in 0 .. (VGA_WIDTH - 1) /\ y' \in 0 .. (VGA_HEIGHT - 1)
    BY <2>7, <2>9, <2>10, <2>11, ClampOnScreen
  <2>14. UsesFirst(Reports(s))
    BY <1>6, <2>5, <2>7, <2>8, <2>10, <2>12, <2>13 DEF UsesFirst
  <2>15. packet' \o m = m
    BY <2>1, ConcatEmptySeq
  <2>16. Reported3(m) /\ Reports(m) = Tail(Reports(s))
    BY <1>0, <1>2, <1>4, <2>3, ReportsRest
  <2> QED BY <1>0, <2>14, <2>15, <2>16
<1>10. p = <<>> \/ Len(p) = 1 \/ Len(p) = 2
  <2>1. Len(p) = 0 => p = <<>>
    BY <1>1, EmptySeq
  <2>2. PICK n : n = Len(p)
    BY Zenon
  <2>3. n \in Nat /\ n <= 2
    BY <1>1, <2>2
  <2>4. n = 0 \/ n = 1 \/ n = 2
    BY <2>3
  <2> QED BY <2>1, <2>2, <2>4
<1> QED BY <1>7, <1>8, <1>9, <1>10

-----------------------------------------------------------------------------
\* What holds before it.
Before == MouseTypes /\ TypesKept /\ Aligned /\ Answering
\* What the pointing device sees of a step that disturbs nothing.
Seen ==
  \/ Reports(InTransit)' = Reports(InTransit) /\ Still
  \/ \E p \in Packet : Reports(InTransit)' = Append(Reports(InTransit), p) /\ Still
  \/ Reports(InTransit)' = Tail(Reports(InTransit)) /\ UsesFirst(Reports(InTransit))

\* The bytes of the mouse before and after a step.
LEMMA TransitIs ==
  ASSUME Before
  PROVE  /\ packet \in Seq(Piece) /\ packet' \in Seq(Piece) /\ out \in Seq(Wire)
         /\ out' \in Seq(Wire)
         /\ data \in Piece /\ data' \in Piece
         /\ InTransit = (packet \o Held) \o Only(out, Reported) /\ InTransit \in Seq(Piece)
         /\ InTransit' = (packet' \o Held') \o Only(out', Reported) /\ (InTransit') \in Seq(Piece)
         /\ pc = "got" => Held = <<data>>
         /\ pc # "got" => Held = <<>>
         /\ pc' = "got" => Held' = <<data'>>
         /\ pc' # "got" => Held' = <<>>
<1>1. /\ packet \in Seq(Piece) /\ out \in Seq(Wire) /\ out' \in Seq(Wire) /\ packet' \in Seq(Piece)
      /\ data \in Piece /\ data' \in Piece
  BY DEF Before, MouseTypes, TypesKept
<1>2. /\ pc = "got" => Held = <<data>>
      /\ pc # "got" => Held = <<>>
      /\ pc' = "got" => Held' = <<data'>>
      /\ pc' # "got" => Held' = <<>>
  BY DEF Held
<1>3. /\ InTransit = (packet \o Held) \o Only(out, Reported)
      /\ InTransit' = (packet' \o Held') \o Only(out', Reported)
  BY DEF InTransit
<1>4. InTransit \in Seq(Piece)
  BY <1>1, <1>2, <1>3, Joined
<1>5. (InTransit') \in Seq(Piece)
  BY <1>1, <1>2, <1>3, Joined
<1> QED BY <1>1, <1>2, <1>3, <1>4, <1>5

\* What is left to show when the reports stay whole.
LEMMA AlignedThen ==
  ASSUME Reported3(InTransit'), pc' = "flush" => Only(out', Reported) = <<>>,
         Polling' \/ packet' = <<>>
  PROVE  Aligned'
BY DEF Aligned

\* When no byte of the mouse comes or goes.
LEMMA SameTransit ==
  ASSUME Before, InTransit' = InTransit, Still,
         pc' = "flush" => Only(out', Reported) = <<>>, Polling' \/ packet' = <<>>
  PROVE  Aligned' /\ Seen
<1>1. Reported3(InTransit')
  BY DEF Before, Aligned
<1>2. Aligned'
  BY <1>1, AlignedThen
<1>3. Reports(InTransit)' = Reports(InTransit)
  <2>1. Reports(InTransit)' = Reports(InTransit')
    BY DEF Reports
  <2> QED BY <2>1
<1> QED BY <1>2, <1>3 DEF Seen

-----------------------------------------------------------------------------
(* Each step, when it disturbs nothing.                                    *)

\* What is shown of each step.
Steady == Aligned' /\ Answering' /\ Seen

\* A device answers.
LEMMA AnswerSteady ==
  ASSUME Before, Answer
  PROVE  Steady
<1>1. /\ due # <<>> /\ out' = Append(out, Head(due)) /\ due' = Tail(due)
      /\ UNCHANGED <<machine, config, pc, step, todo, data, packet, x, y, buttons, prev_buttons>>
  BY DEF Answer, dialogue, pointer
<1>2. due \in Seq(Wire) /\ out \in Seq(Wire)
  BY DEF Before, MouseTypes
<1>3. PICK h, t, a, s : h = Head(due) /\ t = Tail(due) /\ a = Append(out, h)
                        /\ s = Only(out, {"reply"})
  BY Zenon
<1>4. /\ h \in Wire /\ t \in Seq(Wire) /\ h = due[1] /\ Len(t) = Len(due) - 1
      /\ \A i \in 1 .. (Len(due) - 1) : t[i] = due[i + 1]
  BY <1>1, <1>2, <1>3, HeadThenTail
<1>a. Len(due) \in Nat \ {0} /\ DOMAIN due = 1 .. Len(due) /\ DOMAIN t = 1 .. Len(t)
  BY <1>1, <1>2, <1>4
<1>5. h.of = "reply" /\ \A i \in DOMAIN t : t[i].of = "reply"
  <2>1. \A i \in DOMAIN due : due[i].of = "reply"
    BY DEF Before, Answering
  <2>2. 1 \in DOMAIN due /\ \A i \in DOMAIN t : i + 1 \in DOMAIN due /\ i \in 1 .. (Len(due) - 1)
    BY <1>4, <1>a
  <2> QED BY <1>4, <2>1, <2>2
<1>6. s \in Seq(Wire)
  BY <1>2, <1>3, OnlySeq
<1>7. \A kinds : Only(a, kinds) = Take(Only(out, kinds), h, kinds)
  BY <1>2, <1>3, <1>4, OnlyAppend
<1>8. Only(a, Reported) = Only(out, Reported)
  BY <1>5, <1>7 DEF Take, Reported
<1>9. Only(a, {"reply"}) = Append(s, h)
  BY <1>3, <1>5, <1>7 DEF Take
<1>10. Append(s, h) \o t = s \o due
  <2>1. <<h>> \in Seq(Wire) /\ Append(s, h) = s \o <<h>>
    BY <1>4, <1>6, AppendIsConcat
  <2>2. (s \o <<h>>) \o t = s \o (<<h>> \o t)
    BY <1>4, <1>6, <2>1, ConcatAssociative
  <2>3. <<h>> \o t = due
    BY <1>1, <1>2, <1>3, <1>4
  <2> QED BY <2>1, <2>2, <2>3
<1>11. Held' = Held
  BY <1>1 DEF Held
<1>12. InTransit' = InTransit
  BY <1>1, <1>3, <1>8, <1>11 DEF InTransit
<1>13. Coming' = Coming
  BY <1>1, <1>3, <1>9, <1>10 DEF Coming
<1>14. pc' = "flush" => Only(out', Reported) = <<>>
  BY <1>1, <1>3, <1>8 DEF Before, Aligned
<1>15. Polling' \/ packet' = <<>>
  BY <1>1 DEF Before, Aligned, Polling
<1>16. Aligned' /\ Seen
  BY <1>1, <1>12, <1>14, <1>15, SameTransit DEF Still
<1>17. Answering'
  BY <1>1, <1>3, <1>5, <1>13 DEF Before, Answering, Polling, Rest, Reads, machine
<1> QED BY <1>16, <1>17 DEF Steady

\* When neither the answers nor the dialogue move.
LEMMA SameAnswers ==
  ASSUME Before, Only(out', {"reply"}) = Only(out, {"reply"}),
         UNCHANGED <<machine, due, config, step, todo>>,
         pc' = pc \/ (Polling /\ Polling') \/ (pc = "flush" /\ pc' = "send")
  PROVE  Answering'
<1>1. Coming' = Coming
  BY DEF Coming
<1>2. pc' = "flush" => pc = "flush"
  BY DEF Polling
<1>3. Polling' => Polling
  BY DEF Polling
<1>4. pc' = "read" <=> pc = "read"
  BY DEF Polling
<1>5. Rest' = Rest
  BY DEF Rest, Reads
<1> QED BY <1>1, <1>2, <1>3, <1>4, <1>5 DEF Before, Answering, machine

\* The mouse reports.
LEMMA MoveSteady ==
  ASSUME Before, Move
  PROVE  Steady
<1>1. PICK p \in Packet : out' = out \o Report(p)
  BY DEF Move
<1>2. /\ Streaming
      /\ UNCHANGED <<machine, due, config, pc, step, todo, data, packet, x, y, buttons,
                     prev_buttons>>
  BY DEF Move, dialogue, pointer
<1>3. /\ Only(out', Reported) = Only(out, Reported) \o Report(p)
      /\ Only(out', {"reply"}) = Only(out, {"reply"})
  BY <1>1, OnlyReport DEF Before, MouseTypes
<1>4. Held' = Held
  BY <1>2 DEF Held
<1>5. InTransit' = InTransit \o Report(p)
  <2>1. PICK u, q, c : u = packet \o Held /\ q = Only(out, Reported) /\ c = Report(p)
    BY Zenon
  <2>2. u \in Seq(Piece)
    <3>1. packet \in Seq(Piece) /\ data \in Piece
      BY TransitIs
    <3>2. Held \in Seq(Piece)
      BY <3>1 DEF Held
    <3>3. packet \o Held \in Seq(Piece)
      BY <3>1, <3>2, ConcatProperties
    <3> QED BY <2>1, <3>3
  <2>3. q \in Seq(Piece) /\ c \in Seq(Piece)
    <3>1. out \in Seq(Wire) /\ NoByte \in Piece /\ packet \in Seq(Piece)
      BY TransitIs DEF NoByte, Tagged, Piece, Byte
    <3>2. q \in Seq(Piece)
      BY <2>1, <3>1, Joined
    <3>3. c \in Seq(Wire) /\ Wire \subseteq Piece
      BY <2>1, ReportOnWire DEF Wire, Piece
    <3> QED BY <3>2, <3>3
  <2>4. (u \o q) \o c = u \o (q \o c)
    BY <2>2, <2>3, ConcatAssociative
  <2>5. InTransit = u \o q
    BY <2>1 DEF InTransit
  <2>6. InTransit' = u \o (q \o c)
    BY <1>2, <1>3, <1>4, <2>1 DEF InTransit
  <2> QED BY <2>1, <2>4, <2>5, <2>6
<1>6. /\ Reported3(InTransit \o Report(p))
      /\ Reports(InTransit \o Report(p)) = Append(Reports(InTransit), p)
  <2>1. InTransit \in Seq(Piece) /\ Reported3(InTransit)
    BY TransitIs DEF Before, Aligned
  <2> QED BY <2>1, ReportedMore
<1>7. pc # "flush"
  <2>1. pc = "flush" => step = GetConfig
    BY DEF Before, Answering
  <2> QED BY <1>2, <2>1 DEF Streaming, Polling, GetConfig, Identify, Stream
<1>8. Aligned'
  <2>1. Reported3(InTransit')
    BY <1>5, <1>6
  <2>2. pc' # "flush" /\ (Polling' \/ packet' = <<>>)
    BY <1>2, <1>7 DEF Before, Aligned, Polling
  <2> QED BY <2>1, <2>2, AlignedThen
<1>9. Answering'
  BY <1>2, <1>3, SameAnswers
<1>10. Reports(InTransit)' = Append(Reports(InTransit), p)
  <2>1. Reports(InTransit)' = Reports(InTransit')
    BY DEF Reports
  <2> QED BY <1>5, <1>6, <2>1
<1>11. Still
  BY <1>2 DEF Still
<1> QED BY <1>8, <1>9, <1>10, <1>11 DEF Steady, Seen

\* Steps that take away a byte of neither kind, or add one.
LEMMA KeysSteady ==
  ASSUME Before, Only(out', Reported) = Only(out, Reported), Only(out', {"reply"}) = Only(out,
         {"reply"}),
         UNCHANGED <<machine, due, config, step, todo, data, packet, x, y, buttons, prev_buttons>>,
         \/ pc' = pc
         \/ Polling /\ Polling' /\ pc # "got" /\ pc' # "got"
         \/ pc = "flush" /\ pc' = "send"
  PROVE  Steady
<1>1. Held' = Held
  BY DEF Held
<1>2. InTransit' = InTransit
  BY <1>1 DEF InTransit
<1>3. pc' = "flush" => Only(out', Reported) = <<>>
  BY DEF Before, Aligned, Polling
<1>4. Polling' \/ packet' = <<>>
  BY DEF Before, Aligned, Polling
<1>5. Aligned' /\ Seen
  BY <1>2, <1>3, <1>4, SameTransit DEF Still
<1>6. Answering'
  BY SameAnswers
<1> QED BY <1>5, <1>6 DEF Steady

\* A key goes down.
LEMMA KeySteady ==
  ASSUME Before, Key
  PROVE  Steady
<1>1. PICK c \in KeyCode, i \in 1 .. (Len(out) + 1) : out' = InsertAt(out, i, Tagged(c, "key"))
  BY DEF Key
<1>2. UNCHANGED <<machine, due, config, pc, step, todo, data, packet, x, y, buttons, prev_buttons>>
  BY DEF Key, dialogue, pointer
<1>3. Only(out', Reported) = Only(out, Reported) /\ Only(out', {"reply"}) = Only(out, {"reply"})
  BY <1>1, KeyInserted DEF Before, MouseTypes
<1> QED BY <1>2, <1>3, KeysSteady

\* mouse_init empties the port.
LEMMA FlushSteady ==
  ASSUME Before, Flush
  PROVE  Steady
<1>1. /\ pc = "flush"
      /\ UNCHANGED <<machine, due, config, step, todo, data, packet, x, y, buttons, prev_buttons>>
  BY DEF Flush, pointer
<1>2. Only(out, Reported) = <<>>
  BY <1>1 DEF Before, Aligned
<1>3. out \in Seq(Wire)
  BY DEF Before, MouseTypes
<1>4. Coming = <<>> /\ Only(out, {"reply"}) = <<>>
  <2>1. Coming = <<>>
    BY <1>1 DEF Before, Answering
  <2>2. PICK s, d : s = Only(out, {"reply"}) /\ d = due
    BY Zenon
  <2>3. s \in Seq(Wire) /\ d \in Seq(Wire) /\ s \o d = <<>>
    BY <1>3, <2>1, <2>2, OnlySeq DEF Before, MouseTypes, Coming
  <2>4. s = <<>>
    BY <2>3, ConcatEqualIffEmpty
  <2> QED BY <2>1, <2>2, <2>4
<1>5. CASE Read /\ UNCHANGED pc
  <2>1. out # <<>> /\ out' = Tail(out)
    BY <1>5 DEF Read
  <2>2. Len(out) \in Nat \ {0} /\ 1 \in DOMAIN out /\ Head(out) = out[1]
    BY <1>3, <2>1
  <2>3. Head(out).of \notin Reported /\ Head(out).of \notin {"reply"}
    <3>1. \A i \in DOMAIN out : out[i].of \notin Reported
      BY <1>2, <1>3, OnlyNone
    <3>2. \A i \in DOMAIN out : out[i].of \notin {"reply"}
      BY <1>3, <1>4, OnlyNone
    <3> QED BY <2>2, <3>1, <3>2
  <2>4. Only(out', Reported) = Only(out, Reported) /\ Only(out', {"reply"}) = Only(out, {"reply"})
    BY <1>3, <2>1, <2>3, ReadKept
  <2> QED BY <1>1, <1>5, <2>4, KeysSteady
<1>6. CASE ReadAgain /\ pc' = "send"
  <2>1. out' = out
    BY <1>6 DEF ReadAgain
  <2>2. Only(out', Reported) = Only(out, Reported) /\ Only(out', {"reply"}) = Only(out, {"reply"})
    BY <2>1
  <2> QED BY <1>1, <1>6, <2>2, KeysSteady
<1> QED BY <1>5, <1>6 DEF Flush

\* What mouse_init still reads of a command, and one less.
LEMMA RestIs ==
  ASSUME NEW k \in 1 .. Identify, NEW n \in 1 .. Reads(k), NEW s,
         s = [i \in 1 .. n |-> Tagged(Replies(k)[Reads(k) - n + i], "reply")]
  PROVE  /\ s \in Seq(Wire) /\ s # <<>> /\ Head(s) = Tagged(Replies(k)[Reads(k) - n + 1], "reply")
         /\ Tail(s) = [i \in 1 .. (n - 1) |-> Tagged(Replies(k)[Reads(k) - (n - 1) + i], "reply")]
<1>0. PICK r, m : r = Replies(k) /\ m = Reads(k)
  BY Zenon
<1>1. r \in Seq(Byte) /\ m \in 1 .. 3 /\ DOMAIN r = 1 .. m /\ n \in 1 .. m
  BY <1>0, RepliesAre
<1>2. ASSUME NEW i \in 1 .. n PROVE Tagged(r[m - n + i], "reply") \in Wire
  <2>1. m - n + i \in DOMAIN r
    BY <1>1
  <2> QED BY <1>1, <2>1 DEF Tagged, Wire
<1>3. s = [i \in 1 .. n |-> Tagged(r[m - n + i], "reply")]
  BY <1>0
<1>4. s \in [1 .. n -> Wire] /\ n \in Nat /\ n >= 1
  BY <1>1, <1>2, <1>3
<1>5. s \in Seq(Wire) /\ Len(s) = n
  BY <1>4, AsSeq
<1>6. s # <<>> /\ Head(s) = s[1]
  BY <1>4, <1>5
<1>7. s[1] = Tagged(r[m - n + 1], "reply")
  BY <1>3, <1>4
<1>8. PICK t, u : t = Tail(s) /\ u = [i \in 1 .. (n - 1) |-> Tagged(r[m - (n - 1) + i], "reply")]
  BY Zenon
<1>9. t \in Seq(Wire) /\ Len(t) = n - 1 /\ \A i \in 1 .. (n - 1) : t[i] = s[i + 1]
  BY <1>5, <1>6, <1>8, HeadThenTail
<1>10. ASSUME NEW i \in 1 .. (n - 1) PROVE u[i] = s[i + 1] /\ u[i] \in Wire
  <2>1. i + 1 \in 1 .. n /\ m - n + (i + 1) = m - (n - 1) + i
    BY <1>1
  <2>2. u[i] = Tagged(r[m - (n - 1) + i], "reply")
    BY <1>8
  <2>3. s[i + 1] = Tagged(r[m - n + (i + 1)], "reply")
    BY <1>3, <2>1
  <2>4. s[i + 1] \in Wire
    BY <1>5, <2>1
  <2> QED BY <2>1, <2>2, <2>3, <2>4
<1>11. u \in Seq(Wire) /\ Len(u) = n - 1
  <2>1. u \in [1 .. (n - 1) -> Wire]
    <3>1. u = [i \in 1 .. (n - 1) |-> u[i]]
      BY <1>8
    <3> QED BY <1>10, <3>1
  <2>2. n - 1 \in Nat
    BY <1>4
  <2> QED BY <2>1, <2>2, AsSeq
<1>12. \A i \in 1 .. Len(t) : t[i] = u[i]
  BY <1>9, <1>10
<1>13. t = u
  BY <1>9, <1>11, <1>12, SeqEqual
<1> QED BY <1>0, <1>5, <1>6, <1>7, <1>8, <1>13

\* The commands of mouse_init.
LEMMA SendSteady ==
  ASSUME Before, Send
  PROVE  Steady
<1>1. /\ pc = "send" /\ pc' = "read" /\ todo' = Reads(step)
      /\ UNCHANGED <<machine, out, config, step, data, packet, x, y, buttons, prev_buttons>>
  BY DEF Send, pointer
<1>2. step \in 1 .. Identify
  BY DEF Before, MouseTypes
<1>3. InTransit' = InTransit
  BY <1>1 DEF InTransit, Held
<1>4. packet = <<>>
  BY <1>1 DEF Before, Aligned, Polling
<1>5. Aligned' /\ Seen
  BY <1>1, <1>3, <1>4, SameTransit DEF Still
<1>6. Only(out, {"reply"}) = <<>> /\ due = <<>>
  <2>1. Coming = <<>>
    BY <1>1 DEF Before, Answering
  <2>2. PICK s, d : s = Only(out, {"reply"}) /\ d = due
    BY Zenon
  <2>3. s \in Seq(Wire) /\ d \in Seq(Wire) /\ s \o d = <<>>
    BY <2>1, <2>2, OnlySeq DEF Before, MouseTypes, Coming
  <2>4. s = <<>> /\ d = <<>>
    BY <2>3, ConcatEqualIffEmpty
  <2> QED BY <2>2, <2>4
<1>7. PICK s : s = [i \in DOMAIN Replies(step) |-> Tagged(Replies(step)[i], "reply")]
  BY Zenon
<1>8. /\ s \in Seq(Wire) /\ Len(s) = Reads(step)
      /\ \A i \in 1 .. Reads(step) : s[i] = Tagged(Replies(step)[i], "reply")
  BY <1>2, <1>7, RepliesComing
<1>9. /\ Reads(step) \in 1 .. 3 /\ DOMAIN Replies(step) = 1 .. Reads(step)
  BY <1>2, RepliesAre
<1>10. Coming' = due'
  <2>1. due' \in Seq(Wire)
    BY DEF Before, TypesKept, MouseTypes
  <2>2. Coming' = <<>> \o due'
    BY <1>1, <1>6 DEF Coming
  <2> QED BY <2>1, <2>2, ConcatEmptySeq
<1>11. CASE plugged \/ step = GetConfig
  <2>1. due' = s
    <3>1. due' = due \o s
      BY <1>7, <1>11 DEF Send
    <3> QED BY <1>6, <1>8, <3>1, ConcatEmptySeq
  <2>2. Rest' = s
    <3>1. PICK m : m = Reads(step)
      BY Zenon
    <3>2. Rest' = [i \in 1 .. m |-> Tagged(Replies(step)[m - m + i], "reply")]
      BY <1>1, <3>1 DEF Rest, Reads
    <3>3. \A i \in 1 .. m : m - m + i = i
      BY <1>9, <3>1
    <3>4. Rest' = [i \in 1 .. m |-> Tagged(Replies(step)[i], "reply")]
      BY <3>2, <3>3
    <3> QED BY <1>7, <1>9, <3>1, <3>4
  <2>3. \A i \in DOMAIN due' : due'[i].of = "reply"
    BY <1>7, <2>1 DEF Tagged
  <2> QED BY <1>1, <1>5, <1>10, <1>11, <2>1, <2>2, <2>3
          DEF Steady, Before, Answering, machine, Polling
<1>12. CASE ~(plugged \/ step = GetConfig)
  <2>1. due' = <<>>
    BY <1>6, <1>12 DEF Send
  <2> QED BY <1>1, <1>5, <1>10, <1>12, <2>1 DEF Steady, Before, Answering, machine, Polling
<1> QED BY <1>11, <1>12

\* An answer mouse_init takes in is the next one of the command it is at.
LEMMA ReadReplySteady ==
  ASSUME Before, ReadReply, ~disturbed'
  PROVE  Steady
<1>1. pc = "read" /\ Read /\ Understood(port'.val) /\ port'.of = "reply"
  BY DEF ReadReply
<1>2. /\ out # <<>> /\ port' = Head(out) /\ out' = Tail(out)
      /\ UNCHANGED <<machine, due, data, packet, x, y, buttons, prev_buttons>>
  BY <1>1 DEF Read, Understood, pointer
<1>3. /\ out \in Seq(Wire) /\ due \in Seq(Wire) /\ step \in 1 .. Identify
      /\ todo \in 1 .. Reads(step) /\ Reads(step) \in 1 .. 3
  <2>1. step \in 1 .. Identify /\ todo \in 0 .. 3 /\ 1 <= todo /\ todo <= Reads(step)
    BY <1>1 DEF Before, MouseTypes
  <2>2. Reads(step) \in 1 .. 3
    BY <2>1, RepliesAre
  <2> QED BY <2>1, <2>2 DEF Before, MouseTypes
<1>4. PICK h, t : h = Head(out) /\ t = Only(Tail(out), {"reply"})
  BY Zenon
<1>5. h \in Wire /\ h.of = "reply" /\ h.val \in Byte /\ port' = h
  <2>1. Head(out) \in Wire
    BY <1>2, <1>3, HeadThenTail
  <2>2. h \in Wire /\ port' = h
    BY <1>2, <1>4, <2>1
  <2> QED BY <1>1, <2>2 DEF Wire
<1>6. /\ Only(out', Reported) = Only(out, Reported)
      /\ t \in Seq(Wire) /\ Only(out, {"reply"}) = <<h>> \o t
  <2>1. h.of \notin Reported /\ h.of \in {"reply"}
    BY <1>5 DEF Reported
  <2> QED BY <1>2, <1>3, <1>4, <2>1, ReadKept
<1>7. <<h>> \in Seq(Wire) /\ t \o due \in Seq(Wire) /\ Coming = <<h>> \o (t \o due)
  <2>1. <<h>> \in Seq(Wire)
    BY <1>5
  <2>2. (<<h>> \o t) \o due = <<h>> \o (t \o due)
    BY <1>3, <1>6, <2>1, ConcatAssociative
  <2>3. t \o due \in Seq(Wire)
    BY <1>3, <1>6, ConcatProperties
  <2> QED BY <1>6, <2>1, <2>2, <2>3 DEF Coming
<1>8. Head(Coming) = h /\ Tail(Coming) = t \o due /\ Coming # <<>>
  <2>1. PICK c, u : c = t \o due /\ u = <<h>> \o c
    BY Zenon
  <2>2. c \in Seq(Wire) /\ h \in Wire
    BY <1>5, <1>7, <2>1
  <2>3. Head(u) = h /\ Tail(u) = c /\ u # <<>>
    BY <2>1, <2>2
  <2> QED BY <1>7, <2>1, <2>3
<1>9. (plugged \/ step = GetConfig) /\ Coming = Rest
  BY <1>8 DEF Before, Answering
<1>10. /\ h = Tagged(Replies(step)[Reads(step) - todo + 1], "reply")
       /\ t \o due =
            [i \in 1 .. (todo - 1) |-> Tagged(Replies(step)[Reads(step) - (todo - 1) + i], "reply")]
  <2>1. PICK r : r = Rest
    BY Zenon
  <2>2. r = [i \in 1 .. todo |-> Tagged(Replies(step)[Reads(step) - todo + i], "reply")]
    BY <2>1 DEF Rest
  <2>3. /\ Head(r) = Tagged(Replies(step)[Reads(step) - todo + 1], "reply")
        /\ Tail(r) =
             [i \in 1 .. (todo - 1) |-> Tagged(Replies(step)[Reads(step) - (todo - 1) + i], "reply")]
    BY <1>3, <2>2, RestIs
  <2> QED BY <1>8, <1>9, <2>1, <2>3
<1>11. h.val = Replies(step)[Reads(step) - todo + 1]
  BY <1>10 DEF Tagged
<1>12. todo' = todo - 1
  <2>1. todo = 3 => h.val = ACK
    <3> SUFFICES ASSUME todo = 3 PROVE h.val = ACK
      OBVIOUS
    <3>1. Reads(step) = 3
      BY <1>3
    <3>2. Replies(step)[1] = ACK
      BY <1>3, <3>1, RepliesAre
    <3>3. Reads(step) - todo + 1 = 1
      BY <3>1
    <3> QED BY <1>11, <3>2, <3>3
  <2> QED BY <1>1, <1>5, <2>1 DEF Understood, ReadsAfter
<1>13. /\ todo' > 0 => pc' = pc /\ step' = step
       /\ todo' = 0 => \/ step < Identify /\ pc' = "send" /\ step' = step + 1
                       \/ step = Identify /\ pc' = "poll" /\ step' = step
  <2>1. h.val \in Byte /\ Understood(h.val) /\ MouseTypes /\ pc = "read"
    BY <1>1, <1>5 DEF Before
  <2> QED BY <2>1, UnderstoodTypes
<1>14. config' = IF step = GetConfig THEN Enabled(h.val) ELSE config
  BY <1>1, <1>5 DEF Understood
<1>15. step = GetConfig => h.val = ConfigByte
  <2> SUFFICES ASSUME step = GetConfig PROVE h.val = ConfigByte
    OBVIOUS
  <2>1. Reads(step) = 1 /\ Replies(step)[1] = ConfigByte
    BY <1>3, RepliesAre
  <2>2. Reads(step) - todo + 1 = 1
    BY <1>3, <2>1
  <2> QED BY <1>11, <2>1, <2>2
<1>16. config' = Enabled(ConfigByte)
  BY <1>14, <1>15 DEF Before, Answering
<1>17. pc' \in {"read", "send", "poll"}
  <2>1. todo' > 0 \/ todo' = 0
    BY <1>3, <1>12
  <2> QED BY <1>1, <1>13, <2>1
<1>18. InTransit' = InTransit
  BY <1>1, <1>2, <1>6, <1>17 DEF InTransit, Held
<1>19. packet = <<>>
  BY <1>1 DEF Before, Aligned, Polling
<1>20. Aligned' /\ Seen
  BY <1>2, <1>17, <1>18, <1>19, SameTransit DEF Still
<1>21. Coming' = t \o due
  BY <1>2, <1>4 DEF Coming
<1>22. CASE todo' > 0
  <2>1. Rest' = t \o due
    <3>1. PICK n : n = todo - 1
      BY Zenon
    <3>2. todo' = n /\ step' = step
      BY <1>12, <1>13, <1>22, <3>1
    <3>3. Rest' = [i \in 1 .. n |-> Tagged(Replies(step)[Reads(step) - n + i], "reply")]
      BY <3>2 DEF Rest, Reads
    <3> QED BY <1>10, <3>1, <3>3
  <2>2. pc' = "read" /\ step' = step
    BY <1>1, <1>13, <1>22
  <2> QED BY <1>2, <1>9, <1>16, <1>20, <1>21, <2>1, <2>2
          DEF Steady, Before, Answering, machine, Polling
<1>23. CASE todo' = 0
  <2>1. t \o due = <<>>
    <3>1. PICK n, c : n = todo - 1 /\ c = t \o due
      BY Zenon
    <3>2. n = 0
      BY <1>12, <1>23, <3>1
    <3>3. c = [i \in 1 .. n |-> Tagged(Replies(step)[Reads(step) - n + i], "reply")]
      BY <1>10, <3>1
    <3>4. c \in Seq(Wire) /\ DOMAIN c = 1 .. 0
      BY <1>7, <3>1, <3>2, <3>3
    <3>5. Len(c) = 0
      BY <3>4
    <3>6. c = <<>>
      BY <3>4, <3>5, EmptySeq
    <3> QED BY <3>1, <3>6
  <2>2. pc' = "send" \/ (pc' = "poll" /\ step' = Identify)
    BY <1>13, <1>23
  <2> QED BY <1>2, <1>16, <1>20, <1>21, <2>1, <2>2 DEF Steady, Before, Answering, machine, Polling
<1>24. todo' > 0 \/ todo' = 0
  BY <1>3, <1>12
<1> QED BY <1>22, <1>23, <1>24

\* When nothing is left to come, the wait that ends is one without a mouse.
LEMMA GiveUpSteady ==
  ASSUME Before, GiveUp, ~disturbed'
  PROVE  Steady
<1>1. pc = "read" /\ out = <<>> /\ out' = out /\ due = <<>> /\ Understood(port.val)
  BY DEF GiveUp, ReadAgain
<1>2. UNCHANGED <<machine, due, data, packet, x, y, buttons, prev_buttons>>
  BY <1>1 DEF Understood, pointer
<1>3. /\ port \in Piece /\ port.val \in Byte /\ step \in 1 .. Identify
      /\ todo \in 1 .. Reads(step) /\ Reads(step) \in 1 .. 3
  <2>1. step \in 1 .. Identify /\ todo \in 0 .. 3 /\ 1 <= todo /\ todo <= Reads(step)
    BY <1>1 DEF Before, MouseTypes
  <2>2. Reads(step) \in 1 .. 3
    BY <2>1, RepliesAre
  <2>3. port \in Piece /\ port.val \in Byte
    BY DEF Before, MouseTypes, Piece
  <2> QED BY <2>1, <2>2, <2>3
<1>4. Only(out, {"reply"}) = <<>>
  <2>1. out \in Seq(Wire) /\ Len(out) = 0
    BY <1>1 DEF Before, MouseTypes
  <2>2. Kept(out, {"reply"})[0] = <<>>
    BY <2>1, KeptSteps
  <2> QED BY <2>1, <2>2 DEF Only
<1>5. Coming = <<>>
  <2>1. <<>> \in Seq(Wire)
    OBVIOUS
  <2> QED BY <1>1, <1>4, <2>1, ConcatEmptySeq DEF Coming
<1>6. ~(plugged \/ step = GetConfig)
  <2> SUFFICES ASSUME plugged \/ step = GetConfig PROVE FALSE
    OBVIOUS
  <2>1. PICK r : r = Rest
    BY Zenon
  <2>2. r = [i \in 1 .. todo |-> Tagged(Replies(step)[Reads(step) - todo + i], "reply")]
    BY <2>1 DEF Rest
  <2>3. r # <<>>
    BY <1>3, <2>2, RestIs
  <2> QED BY <1>1, <1>5, <2>1, <2>3 DEF Before, Answering
<1>7. /\ todo' \in Nat
      /\ todo' > 0 => pc' = pc /\ step' = step
      /\ todo' = 0 => \/ step < Identify /\ pc' = "send" /\ step' = step + 1
                      \/ step = Identify /\ pc' = "poll" /\ step' = step
  <2>1. port.val \in Byte /\ Understood(port.val) /\ MouseTypes /\ pc = "read"
    BY <1>1, <1>3 DEF Before
  <2> QED BY <2>1, UnderstoodTypes DEF Before, TypesKept, MouseTypes
<1>8. config' = config /\ config = Enabled(ConfigByte)
  BY <1>1, <1>6 DEF Understood, Before, Answering
<1>9. /\ pc' \in {"read", "send", "poll"}
      /\ pc' = "poll" => step' = Identify
      /\ step' = step \/ step' = step + 1
  <2>1. todo' > 0 \/ todo' = 0
    BY <1>7
  <2> QED BY <1>1, <1>7, <2>1
<1>10. step' # GetConfig
  BY <1>3, <1>6, <1>9 DEF GetConfig
<1>11. InTransit' = InTransit
  BY <1>1, <1>2, <1>9 DEF InTransit, Held
<1>12. packet = <<>>
  BY <1>1 DEF Before, Aligned, Polling
<1>13. Aligned' /\ Seen
  BY <1>2, <1>9, <1>11, <1>12, SameTransit DEF Still
<1>14. Coming' = <<>>
  BY <1>1, <1>2, <1>5 DEF Coming
<1> QED BY <1>2, <1>6, <1>8, <1>9, <1>10, <1>13, <1>14
        DEF Steady, Before, Answering, machine, Polling

\* While the packets are put together no answer is left.
LEMMA NoReplies ==
  ASSUME Before, pc # "read", out # <<>>
  PROVE  /\ out \in Seq(Wire) /\ Head(out) \in Wire /\ Head(out).of # "reply"
         /\ Tail(out) \in Seq(Wire)
         /\ Only(out, {"reply"}) = <<>> /\ Only(Tail(out), {"reply"}) = <<>> /\ due = <<>>
<1>1. out \in Seq(Wire) /\ Head(out) \in Wire /\ Head(out) = out[1] /\ Tail(out) \in Seq(Wire)
  <2>1. out \in Seq(Wire)
    BY DEF Before, MouseTypes
  <2> QED BY <2>1, HeadThenTail
<1>2. Coming = <<>>
  BY DEF Before, Answering
<1>3. PICK s, d : s = Only(out, {"reply"}) /\ d = due
  BY Zenon
<1>4. s \in Seq(Wire) /\ d \in Seq(Wire) /\ s \o d = <<>>
  BY <1>1, <1>2, <1>3, OnlySeq DEF Before, MouseTypes, Coming
<1>5. s = <<>> /\ d = <<>>
  BY <1>4, ConcatEqualIffEmpty
<1>6. 1 \in DOMAIN out
  BY <1>1, EmptySeq
<1>7. Head(out).of \notin {"reply"}
  BY <1>1, <1>3, <1>5, <1>6, OnlyNone
<1>8. Only(Tail(out), {"reply"}) = <<>>
  BY <1>1, <1>3, <1>5, <1>7, ReadKept
<1> QED BY <1>1, <1>3, <1>5, <1>7, <1>8

\* When the switch has its byte, from the poll's hands or off the wire.
LEMMA PutSteady ==
  ASSUME Before, NEW b \in Piece, NEW q \in Seq(Wire), Put(b),
         InTransit = (packet \o <<b>>) \o Only(q, Reported),
         out' = q, Polling, Polling', pc' # "got",
         Only(q, {"reply"}) = Only(out, {"reply"}),
         UNCHANGED <<machine, due, config, step, todo>>
  PROVE  Steady
<1>1. PICK m, s : m = Only(q, Reported) /\ s = (packet \o <<b>>) \o m
  BY Zenon
<1>2. m \in Seq(Piece)
  <2>1. packet \in Seq(Piece)
    BY TransitIs
  <2> QED BY <1>1, <2>1, Joined
<1>3. InTransit = s /\ Reported3(s) /\ MouseTypes
  BY <1>1 DEF Before, Aligned
<1>4. \/ packet' \o m = s /\ Still
      \/ /\ Reported3(packet' \o m) /\ Reports(packet' \o m) = Tail(Reports(s))
         /\ UsesFirst(Reports(s))
  BY <1>1, <1>2, <1>3, PutSteps
<1>5. InTransit' = packet' \o m
  <2>1. packet' \in Seq(Piece) /\ InTransit' = (packet' \o Held') \o Only(out', Reported)
        /\ Held' = <<>>
    BY TransitIs
  <2>2. packet' \o <<>> = packet'
    BY <2>1, ConcatEmptySeq
  <2> QED BY <1>1, <2>1, <2>2
<1>6. Reports(InTransit)' = Reports(InTransit')
  BY DEF Reports
<1>7. Seen
  BY <1>3, <1>4, <1>5, <1>6 DEF Seen
<1>8. Reported3(InTransit')
  BY <1>3, <1>4, <1>5
<1>9. Aligned'
  <2>1. pc' # "flush"
    BY DEF Polling
  <2> QED BY <1>8, <2>1, AlignedThen
<1>10. Answering'
  BY SameAnswers
<1> QED BY <1>7, <1>9, <1>10 DEF Steady

\* The poll has seen that there is a byte.
LEMMA PollCheckSteady ==
  ASSUME Before, PollCheck
  PROVE  Steady
<1>1. /\ pc = "poll" /\ pc' = "full"
      /\ UNCHANGED <<machine, due, out, config, step, todo, data, packet, x, y, buttons,
                     prev_buttons>>
  BY DEF PollCheck, wires, pointer
<1>2. Only(out', Reported) = Only(out, Reported) /\ Only(out', {"reply"}) = Only(out, {"reply"})
  BY <1>1
<1>3. Polling /\ Polling' /\ pc # "got" /\ pc' # "got"
  BY <1>1 DEF Polling
<1> QED BY <1>1, <1>2, <1>3, KeysSteady

\* The poll ends, and the loop goes on after its hlt.
LEMMA HltSteady ==
  ASSUME Before, PollEnd \/ Wake
  PROVE  Steady
<1>1. /\ pc \in {"poll", "hlt"} /\ pc' \in {"poll", "hlt"}
      /\ UNCHANGED <<machine, due, out, config, step, todo, data, packet, x, y, buttons,
                     prev_buttons>>
  BY DEF PollEnd, Wake, wires, pointer
<1>2. Only(out', Reported) = Only(out, Reported) /\ Only(out', {"reply"}) = Only(out, {"reply"})
  BY <1>1
<1>3. Polling /\ Polling' /\ pc # "got" /\ pc' # "got"
  BY <1>1 DEF Polling
<1> QED BY <1>1, <1>2, <1>3, KeysSteady

\* The poll reads it.
LEMMA PollReadSteady ==
  ASSUME Before, PollRead, ~disturbed'
  PROVE  Steady
<1>1. /\ pc = "full" /\ pc' = "got" /\ out # <<>> /\ port' = Head(out) /\ out' = Tail(out)
      /\ data' = port' /\ data'.of # "key"
      /\ UNCHANGED <<machine, due, config, step, todo, packet, x, y, buttons, prev_buttons>>
  BY DEF PollRead, Read, ReadAgain, pointer
<1>2. /\ out \in Seq(Wire) /\ Head(out) \in Wire /\ Head(out).of # "reply"
      /\ Only(out, {"reply"}) = <<>> /\ Only(Tail(out), {"reply"}) = <<>>
  BY <1>1, NoReplies
<1>3. Head(out).of \in Reported
  BY <1>1, <1>2 DEF Wire
<1>4. /\ packet \in Seq(Piece) /\ InTransit = (packet \o Held) \o Only(out, Reported) /\ Held = <<>>
      /\ InTransit' = (packet' \o Held') \o Only(out', Reported) /\ Held' = <<data'>>
  BY <1>1, TransitIs
<1>5. InTransit' = InTransit
  <2>1. (packet \o <<>>) \o Only(out, Reported)
          = (packet \o <<Head(out)>>) \o Only(Tail(out), Reported)
    BY <1>1, <1>2, <1>3, <1>4, InHand
  <2> QED BY <1>1, <1>4, <2>1
<1>6. Polling /\ Polling' /\ pc' # "flush"
  BY <1>1 DEF Polling
<1>7. Aligned' /\ Seen
  BY <1>1, <1>5, <1>6, SameTransit DEF Still
<1>8. Answering'
  BY <1>1, <1>2, <1>6, SameAnswers
<1> QED BY <1>7, <1>8 DEF Steady

\* The poll puts it into the packet.
LEMMA PollPutSteady ==
  ASSUME Before, PollPut
  PROVE  Steady
<1>1. /\ pc = "got" /\ pc' \in {"poll", "hlt"} /\ Put(data)
      /\ UNCHANGED <<machine, due, out, config, step, todo>>
  BY DEF PollPut, wires
<1>2. /\ out \in Seq(Wire) /\ data \in Piece
      /\ InTransit = (packet \o Held) \o Only(out, Reported) /\ Held = <<data>>
  BY <1>1, TransitIs
<1>3. Polling /\ Polling' /\ pc' # "got"
  BY <1>1 DEF Polling
<1> QED BY <1>1, <1>2, <1>3, PutSteady

\* The handler of the mouse reads a byte and puts it into the packet.
LEMMA HandlerSteady ==
  ASSUME Before, mouse_handler, ~disturbed'
  PROVE  Steady
<1>1. /\ Polling /\ out # <<>> /\ port' = Head(out) /\ out' = Tail(out) /\ FromMouse(port')
      /\ Put(port') /\ pc # "got"
      /\ UNCHANGED <<machine, due, config, pc, step, todo>>
  BY DEF mouse_handler, Read, dialogue
<1>2. /\ out \in Seq(Wire) /\ Head(out) \in Wire /\ Tail(out) \in Seq(Wire)
      /\ Only(out, {"reply"}) = <<>> /\ Only(Tail(out), {"reply"}) = <<>>
  <2>1. pc # "read"
    BY <1>1 DEF Polling
  <2> QED BY <1>1, <2>1, NoReplies
<1>3. Head(out).of \in Reported /\ Put(Head(out)) /\ Head(out) \in Piece
  BY <1>1, <1>2 DEF FromMouse, Wire, Piece
<1>4. packet \in Seq(Piece) /\ InTransit = (packet \o Held) \o Only(out, Reported) /\ Held = <<>>
  BY <1>1, TransitIs
<1>5. InTransit = (packet \o <<Head(out)>>) \o Only(Tail(out), Reported)
  BY <1>1, <1>2, <1>3, <1>4, InHand
<1>6. Polling' /\ pc' # "got" /\ Only(Tail(out), {"reply"}) = Only(out, {"reply"})
  BY <1>1, <1>2 DEF Polling
<1> QED BY <1>1, <1>2, <1>3, <1>5, <1>6, PutSteady

\* The handler of the keyboard takes a key away.
LEMMA KeyboardSteady ==
  ASSUME Before, keyboard_handler
  PROVE  Steady
<1>1. /\ Polling /\ out # <<>> /\ out' = Tail(out) /\ Head(out).of = "key"
      /\ UNCHANGED <<machine, due, config, pc, step, todo, data, packet, x, y, buttons,
                     prev_buttons>>
  BY DEF keyboard_handler, Read, dialogue, pointer
<1>2. out \in Seq(Wire) /\ Head(out).of \notin Reported /\ Head(out).of \notin {"reply"}
  BY <1>1 DEF Before, MouseTypes, Reported
<1>3. Only(out', Reported) = Only(out, Reported) /\ Only(out', {"reply"}) = Only(out, {"reply"})
  BY <1>1, <1>2, ReadKept
<1> QED BY <1>1, <1>3, KeysSteady

-----------------------------------------------------------------------------
\* No step that disturbs nothing loses a report or an answer.
LEMMA StepSteady ==
  ASSUME MouseInv, [Next]_vars, ~disturbed'
  PROVE  Before /\ Steady
<1>1. MouseTypes /\ TypesKept
  BY TypesStep DEF MouseInv
<1>2. ~disturbed
  BY <1>1 DEF TypesKept, Onward
<1>3. Before
  BY <1>1, <1>2 DEF Before, MouseInv
<1>4. CASE UNCHANGED vars
  <2>1. UNCHANGED <<machine, due, out, config, pc, step, todo, data, packet, x, y, buttons,
                    prev_buttons>>
    BY <1>4 DEF vars, wires, dialogue, pointer
  <2>2. Only(out', Reported) = Only(out, Reported) /\ Only(out', {"reply"}) = Only(out, {"reply"})
    BY <2>1
  <2> QED BY <1>3, <2>1, <2>2, KeysSteady
<1>5. CASE Answer
  BY <1>3, <1>5, AnswerSteady
<1>6. CASE Move
  BY <1>3, <1>6, MoveSteady
<1>7. CASE Key
  BY <1>3, <1>7, KeySteady
<1>8. CASE Flush
  BY <1>3, <1>8, FlushSteady
<1>9. CASE Send
  BY <1>3, <1>9, SendSteady
<1>10. CASE ReadReply
  BY <1>3, <1>10, ReadReplySteady
<1>11. CASE GiveUp
  BY <1>3, <1>11, GiveUpSteady
<1>12. CASE PollCheck
  BY <1>3, <1>12, PollCheckSteady
<1>13. CASE PollRead
  BY <1>3, <1>13, PollReadSteady
<1>14. CASE PollPut
  BY <1>3, <1>14, PollPutSteady
<1>15. CASE mouse_handler
  BY <1>3, <1>15, HandlerSteady
<1>16. CASE keyboard_handler
  BY <1>3, <1>16, KeyboardSteady
<1>17. CASE PollEnd \/ Wake
  BY <1>3, <1>17, HltSteady
<1> QED BY <1>3, <1>4, <1>5, <1>6, <1>7, <1>8, <1>9, <1>10, <1>11, <1>12, <1>13, <1>14, <1>15, <1>16,
           <1>17
        DEF Next, mouse_init, mouse_poll

\* Nothing is on the way at first.
LEMMA InitInv == Init => MouseInv /\ InTransit = <<>>
<1> SUFFICES ASSUME Init PROVE MouseInv /\ InTransit = <<>>
  OBVIOUS
<1>1. MouseTypes
  BY InitTypes
<1>2. /\ due = <<>> /\ out = <<>> /\ pc = "flush" /\ step = GetConfig /\ packet = <<>>
  BY DEF Init
<1>3. \A kinds : Only(out, kinds) = <<>>
  <2>1. out \in Seq(Wire) /\ Len(out) = 0
    BY <1>1, <1>2 DEF MouseTypes
  <2> TAKE kinds
  <2>2. Kept(out, kinds)[0] = <<>>
    BY <2>1, KeptSteps
  <2> QED BY <2>1, <2>2 DEF Only
<1>4. <<>> \in Seq(Piece) /\ <<>> \o <<>> = <<>> /\ Len(<<>>) = 0
  <2>1. <<>> \in Seq(Piece) /\ Len(<<>>) = 0
    OBVIOUS
  <2> QED BY <2>1, ConcatEmptySeq
<1>5. InTransit = <<>>
  BY <1>2, <1>3, <1>4 DEF InTransit, Held
<1>6. Reported3(<<>>)
  <2>1. PICK s : s = <<>>
    BY Zenon
  <2>2. s \in Seq(Piece) /\ Len(s) = 0 /\ 0 % 3 = 0 /\ 0 \div 3 = 0 /\ DOMAIN s = 1 .. 0
    BY <1>4, <2>1
  <2>3. Whole(s)
    BY <2>2 DEF Whole
  <2>4. \A k \in 1 .. 0 : Reports(s)[k] \in Packet
    OBVIOUS
  <2> QED BY <2>1, <2>2, <2>3, <2>4 DEF Reported3
<1>7. Aligned
  BY <1>2, <1>3, <1>5, <1>6 DEF Aligned
<1>8. Coming = <<>>
  BY <1>2, <1>3, <1>4 DEF Coming
<1>9. Answering
  BY <1>2, <1>8 DEF Answering, Polling
<1> QED BY <1>1, <1>5, <1>7, <1>9 DEF MouseInv

\* It holds for ever.
THEOREM MouseInvariant == Spec => []MouseInv
<1>1. ASSUME MouseInv, [Next]_vars PROVE MouseInv'
  <2>1. MouseTypes'
    BY <1>1, TypesStep DEF MouseInv, TypesKept
  <2>2. CASE disturbed'
    BY <2>1, <2>2 DEF MouseInv
  <2>3. CASE ~disturbed'
    <3>1. Aligned' /\ Answering'
      BY <1>1, <2>3, StepSteady DEF Steady
    <3> QED BY <2>1, <3>1 DEF MouseInv
  <2> QED BY <2>2, <2>3
<1>2. Init => MouseInv
  BY InitInv
<1> QED BY <1>1, <1>2, PTL DEF Spec

\* InStep.
LEMMA InvInStep == MouseInv => InStep
<1> SUFFICES ASSUME MouseInv, ~disturbed
             PROVE  /\ Whole(InTransit)
                    /\ Polling => /\ due = <<>> /\ config = Enabled(ConfigByte)
                                  /\ \A i \in DOMAIN out : out[i].of # "reply"
  BY DEF InStep
<1>1. Whole(InTransit)
  BY DEF MouseInv, Aligned, Reported3
<1>2. ASSUME Polling
      PROVE  due = <<>> /\ config = Enabled(ConfigByte) /\ \A i \in DOMAIN out : out[i].of # "reply"
  <2>1. pc # "read" /\ step = Identify /\ step # GetConfig
    BY <1>2 DEF MouseInv, Answering, Polling, Identify, GetConfig
  <2>2. Coming = <<>> /\ config = Enabled(ConfigByte)
    BY <2>1 DEF MouseInv, Answering
  <2>3. PICK s, d : s = Only(out, {"reply"}) /\ d = due
    BY Zenon
  <2>4. out \in Seq(Wire) /\ s \in Seq(Wire) /\ d \in Seq(Wire) /\ s \o d = <<>>
    BY <2>2, <2>3, OnlySeq DEF MouseInv, MouseTypes, Coming
  <2>5. s = <<>> /\ d = <<>>
    BY <2>4, ConcatEqualIffEmpty
  <2>6. \A i \in DOMAIN out : out[i].of \notin {"reply"}
    BY <2>3, <2>4, <2>5, OnlyNone
  <2> QED BY <2>2, <2>3, <2>5, <2>6
<1> QED BY <1>1, <1>2

\* Until a byte has gone to the wrong reader, the bytes in the packet, in the
\* poll's hands and on the wire are whole reports, and mouse_init has read every
\* answer when the polling begins (InStep).
THEOREM StaysInStep == Spec => []InStep
<1>1. Spec => []MouseInv
  BY MouseInvariant
<1>2. MouseInv => InStep
  BY InvInStep
<1> QED BY <1>1, <1>2, PTL

-----------------------------------------------------------------------------
\* Every step is one of the pointing device, or none.
LEMMA DeviceSteps ==
  ASSUME MouseInv, [Next]_vars
  PROVE  [Device!Next]_(Device!vars)
<1>1. TypesKept
  BY TypesStep DEF MouseInv
<1>2. CASE disturbed'
  <2>1. /\ x' \in 0 .. (VGA_WIDTH - 1) /\ y' \in 0 .. (VGA_HEIGHT - 1)
        /\ buttons' \in 0 .. 7 /\ prev_buttons' \in {prev_buttons, buttons}
        /\ disturbed' = TRUE
    BY <1>1, <1>2 DEF TypesKept, MouseTypes, ButtonStep
  <2>2. Device!Lost
    BY <2>1 DEF Device!Lost
  <2> QED BY <2>2 DEF Device!Next
<1>3. CASE ~disturbed'
  <2>1. Before /\ Seen
    BY <1>3, StepSteady DEF Steady
  <2>2. ~disturbed
    BY <1>1, <1>3 DEF TypesKept, Onward
  <2>3. disturbed = FALSE /\ disturbed' = FALSE
    BY <1>1, <1>3, <2>2 DEF TypesKept, MouseTypes, MouseInv
  <2>4. CASE Reports(InTransit)' = Reports(InTransit) /\ Still
    BY <2>3, <2>4 DEF Device!vars, Still, Reports
  <2>5. CASE \E p \in Packet : Reports(InTransit)' = Append(Reports(InTransit), p) /\ Still
    <3>1. Device!Move
      BY <2>3, <2>5 DEF Device!Move, Still, Reports
    <3> QED BY <3>1 DEF Device!Next
  <2>6. CASE Reports(InTransit)' = Tail(Reports(InTransit)) /\ UsesFirst(Reports(InTransit))
    <3>1. Device!Take
      BY <2>3, <2>6 DEF Device!Take, UsesFirst, Reports
    <3> QED BY <3>1 DEF Device!Next
  <2> QED BY <2>1, <2>4, <2>5, <2>6 DEF Seen
<1> QED BY <1>2, <1>3

\* mouse_init, mouse_poll and the handler take the steps of PointingDevice:
\* until a byte has gone to the wrong reader each report moves the pointer once,
\* in order, and never off the screen; along an axis whose move fits in eight
\* bits it goes to the nearest point.
THEOREM MouseIsDevice == Spec => Device!Steps
<1>1. Init => Device!Init
  <2> SUFFICES ASSUME Init PROVE Device!Init
    OBVIOUS
  <2>1. InTransit = <<>>
    BY InitInv
  <2>2. /\ x = VGA_WIDTH \div 2 /\ y = VGA_HEIGHT \div 2
        /\ buttons = 0 /\ prev_buttons = 0 /\ disturbed = FALSE
    BY DEF Init
  <2>3. Reports(InTransit) = <<>>
    <3>1. PICK f : f = Reports(InTransit)
      BY Zenon
    <3>2. Len(InTransit) \div 3 = 0
      BY <2>1
    <3>3. f = [k \in 1 .. 0 |-> [i \in 1 .. 3 |-> InTransit[3 * (k - 1) + i].val]]
      BY <3>1, <3>2 DEF Reports
    <3>4. f \in [1 .. 0 -> Packet] /\ 0 \in Nat
      BY <3>3
    <3>5. f \in Seq(Packet) /\ Len(f) = 0
      BY <3>4, AsSeq
    <3> QED BY <3>1, <3>5, EmptySeq
  <2> QED BY <2>2, <2>3 DEF Device!Init, Reports
<1>2. ASSUME MouseInv, [Next]_vars PROVE [Device!Next]_(Device!vars)
  BY <1>2, DeviceSteps
<1>3. Spec => []MouseInv
  BY MouseInvariant
<1> QED BY <1>1, <1>2, <1>3, PTL DEF Spec, Device!Steps

-----------------------------------------------------------------------------
\* How long the dialogue takes.

\* Commands and replies that mouse_init has still to go through, at most: one
\* to send and three to read for each command that is left.
DialogueLeft ==
  CASE pc = "flush" -> 5 * Identify + 1
    [] pc = "send"  -> 5 * (Identify - step) + 5
    [] pc = "read"  -> 5 * (Identify - step) + todo + 1
    [] Polling      -> 0

\* The loop that empties the port before the dialogue: its turns are as many as
\* the bytes that wait.
FlushesOne == pc = "flush" /\ Len(out)' < Len(out) /\ UNCHANGED DialogueLeft

LEMMA DialogueLeftType == MouseTypes => DialogueLeft \in Nat
<1> SUFFICES ASSUME MouseTypes PROVE DialogueLeft \in Nat
  OBVIOUS
<1>1. /\ pc \in {"flush", "send", "read", "poll", "full", "got", "hlt"}
      /\ step \in 1 .. 9 /\ todo \in 0 .. 3 /\ Identify = 9
  BY DEF MouseTypes, Identify
<1> QED  BY <1>1 DEF DialogueLeft, Polling

LEMMA DialogueFalls ==
  ASSUME MouseTypes, mouse_init
  PROVE  DialogueLeft' < DialogueLeft \/ FlushesOne
<1>1. /\ step \in 1 .. 9 /\ todo \in 0 .. 3 /\ Identify = 9 /\ out \in Seq(Wire)
      /\ pc = "read" => 1 <= todo
  BY DEF MouseTypes, Identify
<1>2. CASE Flush
  <2>1. pc = "flush" /\ step' = step
    BY <1>2 DEF Flush
  <2>2. CASE Read /\ UNCHANGED pc
    <3>1. out # <<>> /\ out' = Tail(out)
      BY <2>2 DEF Read
    <3>2. Len(Tail(out)) < Len(out)
      BY <1>1, <3>1
    <3> QED  BY <2>1, <2>2, <3>1, <3>2 DEF FlushesOne, DialogueLeft, Polling
  <2>3. CASE ReadAgain /\ pc' = "send"
    BY <1>1, <2>1, <2>3 DEF DialogueLeft, Polling
  <2> QED  BY <1>2, <2>2, <2>3 DEF Flush
<1>3. CASE Send
  <2>1. pc = "send" /\ pc' = "read" /\ step' = step /\ todo' = Reads(step)
    BY <1>3 DEF Send
  <2>2. Reads(step) \in 1 .. 3
    BY <1>1, RepliesAre
  <2> QED  BY <1>1, <2>1, <2>2 DEF DialogueLeft, Polling
<1>4. ASSUME NEW b \in Byte, pc = "read", Understood(b)
      PROVE  DialogueLeft' < DialogueLeft
  <2>1. /\ DialogueTypes' /\ todo' < todo
        /\ todo' > 0 => pc' = pc /\ step' = step
        /\ todo' = 0 => \/ step < Identify /\ pc' = "send" /\ step' = step + 1
                        \/ step = Identify /\ pc' = "poll" /\ step' = step
    BY <1>4, UnderstoodTypes
  <2>2. todo' \in 0 .. 3
    BY <2>1 DEF DialogueTypes
  <2>3. DialogueLeft = 5 * (9 - step) + todo + 1
    BY <1>1, <1>4 DEF DialogueLeft, Polling
  <2>4. CASE todo' > 0
    <3>1. DialogueLeft' = 5 * (9 - step) + todo' + 1
      BY <1>1, <1>4, <2>1, <2>4 DEF DialogueLeft, Polling
    <3>2. todo' < todo /\ todo' \in Nat /\ todo \in Nat /\ 5 * (9 - step) \in Nat
      BY <1>1, <2>1, <2>2
    <3> HIDE DEF DialogueLeft
    <3> QED  BY <2>3, <3>1, <3>2
  <2>5. CASE todo' = 0 /\ step < Identify /\ pc' = "send" /\ step' = step + 1
    <3>1. DialogueLeft' = 5 * (9 - (step + 1)) + 5
      BY <1>1, <2>5 DEF DialogueLeft, Polling
    <3> QED  BY <1>1, <1>4, <2>3, <3>1
  <2>6. CASE pc' = "poll"
    <3>1. DialogueLeft' = 0
      BY <2>6 DEF DialogueLeft, Polling
    <3> QED  BY <1>1, <1>4, <2>3, <3>1
  <2> QED  BY <2>1, <2>2, <2>4, <2>5, <2>6
<1>5. CASE ReadReply \/ GiveUp
  <2>1. pc = "read" /\ (Read \/ ReadAgain)
    BY <1>5 DEF ReadReply, GiveUp
  <2>2. port' \in Piece /\ port \in Piece
    BY <2>1, ReadTypes DEF MouseTypes
  <2>3. port'.val \in Byte /\ port.val \in Byte
    BY <2>2 DEF Piece
  <2>4. Understood(port'.val) \/ Understood(port.val)
    BY <1>5 DEF ReadReply, GiveUp
  <2> QED  BY <1>4, <2>1, <2>3, <2>4
<1> QED  BY <1>2, <1>3, <1>5 DEF mouse_init

\* mouse.c: mouse_init goes through its nine commands and no further: each of
\* its steps is one less to go, or empties the port of a byte before the first,
\* whether there is a mouse or not and whatever it takes for an answer; no
\* move, key or late answer adds to what is left of it.
THEOREM DialogueRunsOut ==
  Spec => /\ [](DialogueLeft \in Nat)
          /\ [][IF mouse_init THEN DialogueLeft' < DialogueLeft \/ FlushesOne
                ELSE UNCHANGED DialogueLeft]_vars
<1>1. MouseInv => DialogueLeft \in Nat
  BY DialogueLeftType DEF MouseInv
<1>2. ASSUME MouseInv, [Next]_vars
      PROVE  [IF mouse_init THEN DialogueLeft' < DialogueLeft \/ FlushesOne
              ELSE UNCHANGED DialogueLeft]_vars
  <2>1. CASE mouse_init
    BY <1>2, <2>1, DialogueFalls DEF MouseInv
  <2>2. CASE ~mouse_init /\ Next
    <3>1. ASSUME Answer \/ Move \/ Key \/ mouse_handler \/ keyboard_handler
          PROVE  UNCHANGED DialogueLeft
      <4>1. UNCHANGED <<pc, step, todo>>
        BY <3>1 DEF Answer, Move, Key, mouse_handler, keyboard_handler, dialogue
      <4> QED  BY <4>1 DEF DialogueLeft, Polling
    <3>2. ASSUME mouse_poll \/ Wake PROVE UNCHANGED DialogueLeft
      <4>1. /\ pc \in {"poll", "full", "got", "hlt"}
            /\ pc' \in {"poll", "full", "got", "hlt"}
        BY <3>2 DEF mouse_poll, PollCheck, PollRead, PollPut, PollEnd, Wake
      <4>2. DialogueLeft = 0 /\ DialogueLeft' = 0
        BY <4>1 DEF DialogueLeft, Polling
      <4> QED  BY <4>2
    <3> QED  BY <2>2, <3>1, <3>2 DEF Next
  <2> QED  BY <1>2, <2>1, <2>2
<1> QED  BY <1>1, <1>2, MouseInvariant, PTL DEF Spec
=============================================================================
