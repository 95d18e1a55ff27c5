---------------------------- MODULE Fat12Proofs ----------------------------
(***************************************************************************)
(* Theorems about Fat12, for every size of disk, every set of names and    *)
(* texts and any number of power losses: first which clusters and names    *)
(* are referred to, then how long the chains of clusters are, that they    *)
(* keep apart, and what follows for the names, for the bytes of the files, *)
(* for the free space, for the store that callers see and for how long a   *)
(* call runs.                                                              *)
(***************************************************************************)
EXTENDS Fat12, FiniteSetTheorems, WellFoundedInduction, TLAPS

\* What a call in progress relies on in its own locals at each of its steps.
Control ==
  /\ pc = "idle" => cluster = 0 /\ first = 0 /\ prev = 0 /\ mirror = 0
  /\ pc = "free_old" =>
       /\ victim \in Slots /\ IsFile(victim)
       /\ dir[victim].name = job.name
       /\ first = 0 /\ prev = 0
  /\ pc \in {"free_old", "alloc", "link", "data", "seal", "entry"} =>
       job.name \in FatName
  /\ pc = "free_new" => first = 0 /\ prev = 0
  /\ pc = "alloc" =>
       /\ (first = 0) <=> (prev = 0)
       /\ prev # 0 => fat[prev] = EOC
  /\ pc = "link" =>
       /\ first # 0 /\ prev # 0 /\ cluster \in Clusters
       /\ fat[prev] = EOC /\ fat[cluster] = EOC /\ prev # cluster
  /\ pc = "data" =>
       /\ first # 0 /\ cluster \in Clusters /\ fat[cluster] = EOC
  /\ pc = "seal" => first # 0 /\ prev # 0 /\ fat[prev] = EOC

-----------------------------------------------------------------------------
\* Facts about the operators.

\* A set of numbers that is not empty has a least one: what the searches from
\* below find.
LEMMA Least ==
  ASSUME NEW T, T \subseteq Nat, T # {}
  PROVE  \E m \in T : \A n \in T : m <= n
<1> DEFINE R == OpToRel(<, Nat)
<1>1. \A m, n \in Nat : m < n => <<m, n>> \in R
  BY Zenon DEF OpToRel
<1>2. IsWellFoundedOn(R, Nat)
  BY NatLessThanWellFounded, Zenon
<1> HIDE DEF R
<1>3. PICK m \in T : \A n \in T : <<n, m>> \notin R
  BY <1>2, WFMin, Zenon
<1>4. \A n \in T : ~(n < m)
  BY <1>1, <1>3, Zenon
<1> QED  BY <1>4, m \in Nat, SMT

\* Induction: what holds of 0 and passes from each number to the next holds of
\* every number, for otherwise there would be a least that it does not hold of.
LEMMA Induct ==
  ASSUME NEW T, 0 \in T, \A i \in Nat : i \in T => i + 1 \in T
  PROVE  \A i \in Nat : i \in T
<1> DEFINE Rest == Nat \ T
<1> SUFFICES ASSUME Rest # {} PROVE FALSE
  OBVIOUS
<1>1. PICK m \in Rest : \A k \in Rest : m <= k
  BY Least
<1>2. m \in Nat /\ m # 0 /\ m - 1 \in Nat /\ (m - 1) + 1 = m
  BY <1>1
<1>3. m - 1 \in T
  BY <1>1, <1>2
<1> QED  BY <1>1, <1>2, <1>3

\* The numbers Free (0) and EOC are no clusters.
LEMMA ClusterNumbers ==
  /\ Clusters \subseteq Nat
  /\ 0 \notin Clusters /\ EOC \notin Clusters /\ Free \notin Clusters /\ Free = 0 /\ EOC # Free
  BY SizesAssumption DEF Clusters, EOC, Free, FirstEnd

LEMMA SectorsForType ==
  ASSUME NEW len \in Nat
  PROVE  SectorsFor(len) \in Nat
BY SizesAssumption DEF SectorsFor

\* A name is found in a slot that holds a file of that name.
LEMMA FoundSlot ==
  ASSUME NEW n, Found(n)
  PROVE  SlotOf(n) \in Slots /\ Matches(SlotOf(n), n)
<1> DEFINE T == {s \in Slots : Matches(s, n)}
<1>1. T \subseteq Nat /\ T # {}
  BY DEF Found, Slots
<1>2. PICK m \in T : \A k \in T : m <= k
  BY <1>1, Least
<1>3. \A t \in 1 .. (m - 1) : ~Matches(t, n)
  BY <1>1, <1>2, SizesAssumption DEF Slots
<1> QED  BY <1>2, <1>3 DEF SlotOf

\* What fs_read delivers is a sequence of bytes, whatever the FAT holds.
LEMMA DeliverType ==
  ASSUME TypeOK, NEW s \in Slots, NEW at, NEW steps \in Nat
  PROVE  Deliver(s, at, steps) \in Seq(Byte)
<1> DEFINE visited == {i \in 0 .. (steps - 1) : at[i] < FirstEnd}
           taken   == Cardinality(visited)
           len     == AtMost(taken * SectorSize, dir[s].size)
<1>1. taken \in Nat
  <2>1. IsFiniteSet(0 .. (steps - 1)) /\ visited \in SUBSET (0 .. (steps - 1))
    BY FS_Interval
  <2> QED  BY <2>1, FS_Subset, FS_CardinalityType
<1> HIDE DEF visited, taken
<1>2. len \in Nat
  BY <1>1, SizesAssumption DEF TypeOK, AtMost, DirEntry
<1>3. \A c : SectorOf(c) \in [1 .. SectorSize -> Byte]
  BY BytesAssumption DEF SectorOf, TypeOK
<1>4. \A j \in 1 .. len : ((j - 1) % SectorSize) + 1 \in 1 .. SectorSize
  BY <1>2, SizesAssumption
<1> DEFINE val(j) == SectorOf(at[(j - 1) \div SectorSize])[((j - 1) % SectorSize) + 1]
<1>5. \A j \in 1 .. len : val(j) \in Byte
  BY <1>3, <1>4
<1> HIDE DEF len, val
<1>6. [j \in 1 .. len |-> val(j)] \in Seq(Byte)
  BY <1>2, <1>5
<1> QED  BY <1>6 DEF Deliver, len, val, taken, visited

-----------------------------------------------------------------------------
\* The names: what the list shows of one, typed again, is that name, if it has
\* no space.  The loops that leave blanks out are recursive functions; Induct
\* goes along them.

\* One character more, if it is no blank.
But(k, ch) == IF ch = Blank THEN k ELSE Append(k, ch)

\* The recursion that leaves the blanks out has a solution.
LEMMA UnpadSteps ==
  ASSUME NEW field, Len(field) \in Nat
  PROVE  \E k : /\ Unpadded(field) = k[Len(field)]
                /\ k[0] = <<>>
                /\ \A i \in 1 .. Len(field) : k[i] = But(k[i - 1], field[i])
<1> DEFINE Solves(f, m) == f = [i \in 0 .. m |-> IF i = 0 THEN <<>> ELSE But(f[i - 1], field[i])]
           T == {m \in Nat : \E f : Solves(f, m)}
<1>1. 0 \in T
  <2>1. Solves([i \in 0 .. 0 |-> <<>>], 0)
    OBVIOUS
  <2> QED  BY <2>1
<1>2. ASSUME NEW m \in Nat, m \in T PROVE m + 1 \in T
  <2>1. PICK w : Solves(w, m)
    BY <1>2
  <2> DEFINE u == [i \in 0 .. m + 1 |-> IF i = 0 THEN <<>> ELSE But(w[i - 1], field[i])]
  <2>2. \A j \in 0 .. m : w[j] = IF j = 0 THEN <<>> ELSE But(w[j - 1], field[j])
    BY <2>1
  <2>3. \A i \in 1 .. m + 1 : i - 1 \in 0 .. m /\ u[i - 1] = w[i - 1]
    BY <2>2
  <2> HIDE DEF u
  <2>4. ASSUME NEW i \in 0 .. m + 1
        PROVE  (IF i = 0 THEN <<>> ELSE But(w[i - 1], field[i]))
                 = (IF i = 0 THEN <<>> ELSE But(u[i - 1], field[i]))
    BY <2>3
  <2>5. u = [i \in 0 .. m + 1 |-> IF i = 0 THEN <<>> ELSE But(u[i - 1], field[i])]
    BY <2>4 DEF u
  <2>6. Solves(u, m + 1)
    BY <2>5
  <2> HIDE DEF Solves
  <2> QED  BY <2>6
<1>3. \E f : Solves(f, Len(field))
  <2>1. \A i \in Nat : i \in T => i + 1 \in T
    BY <1>2
  <2>2. \A i \in Nat : i \in T
    <3> HIDE DEF T
    <3> QED  BY <1>1, <2>1, Induct
  <2> QED  BY <2>2
<1> DEFINE K == CHOOSE f : Solves(f, Len(field))
<1>4. Solves(K, Len(field))
  BY <1>3
<1>5. Unpadded(field) = K[Len(field)]
  BY DEF Unpadded, But
<1> HIDE DEF K
<1>6. \A i \in 0 .. Len(field) : K[i] = IF i = 0 THEN <<>> ELSE But(K[i - 1], field[i])
  BY <1>4
<1>7. 0 \in 0 .. Len(field) /\ \A i \in 1 .. Len(field) : i \in 0 .. Len(field) /\ i # 0
  OBVIOUS
<1> QED  BY <1>5, <1>6, <1>7

\* What is left has no blanks.
LEMMA UnpaddedType ==
  ASSUME NEW R, NEW n \in Nat, NEW field \in [1 .. n -> R]
  PROVE  Unpadded(field) \in Seq(R \ {Blank})
<1>1. Len(field) = n
  OBVIOUS
<1>2. PICK k : /\ Unpadded(field) = k[n]
               /\ k[0] = <<>>
               /\ \A i \in 1 .. n : k[i] = But(k[i - 1], field[i])
  BY <1>1, UnpadSteps
<1> DEFINE T == {i \in Nat : i <= n => k[i] \in Seq(R \ {Blank})}
<1>3. 0 \in T
  <2>1. <<>> \in Seq(R \ {Blank})
    OBVIOUS
  <2> QED  BY <1>2, <2>1
<1>4. ASSUME NEW i \in Nat, i \in T PROVE i + 1 \in T
  <2> SUFFICES ASSUME i + 1 <= n PROVE k[i + 1] \in Seq(R \ {Blank})
    OBVIOUS
  <2>1. i + 1 \in 1 .. n /\ (i + 1) - 1 = i
    OBVIOUS
  <2>2. k[i + 1] = But(k[i], field[i + 1]) /\ field[i + 1] \in R
    BY <1>2, <2>1
  <2>3. k[i] \in Seq(R \ {Blank})
    BY <1>4
  <2> QED  BY <2>2, <2>3 DEF But
<1>5. n \in T
  <2> HIDE DEF T
  <2>1. \A i \in Nat : i \in T => i + 1 \in T
    BY <1>4
  <2> QED  BY <1>3, <2>1, Induct
<1> QED  BY <1>2, <1>5

\* The first p places of a field of n are letters, the others padding.
Letters(field, n, p) ==
  /\ p \in 0 .. n
  /\ \A i \in 1 .. p : field[i] # Blank
  /\ \A i \in (p + 1) .. n : field[i] = Blank

\* Of a padded field the letters before the padding are left.
LEMMA UnpaddedPrefix ==
  ASSUME NEW n \in Nat, NEW field, field = [i \in 1 .. n |-> field[i]], NEW p,
         Letters(field, n, p)
  PROVE  Unpadded(field) = [i \in 1 .. p |-> field[i]]
<1>1. /\ p \in 0 .. n
      /\ \A i \in 1 .. p : field[i] # Blank
      /\ \A i \in (p + 1) .. n : field[i] = Blank
  BY DEF Letters
<1>2. PICK R : field \in [1 .. n -> R] /\ Len(field) = n
  <2>1. PICK R : R = {field[i] : i \in 1 .. n}
    OBVIOUS
  <2>2. field \in [1 .. n -> R]
    BY <2>1
  <2>3. Len(field) = n
    BY <2>2
  <2> QED  BY <2>2, <2>3
<1>3. PICK k : /\ Unpadded(field) = k[n]
               /\ k[0] = <<>>
               /\ \A i \in 1 .. n : k[i] = But(k[i - 1], field[i])
  BY <1>2, UnpadSteps
<1> DEFINE Upto(i) == IF i <= p THEN i ELSE p
           Pre(m) == [j \in 1 .. m |-> field[j]]
           T == {i \in Nat : i <= n => k[i] = Pre(Upto(i))}
<1>4. 0 \in T
  <2>1. Upto(0) = 0 /\ Pre(0) = <<>>
    BY <1>1
  <2> QED  BY <1>3, <2>1
<1>5. ASSUME NEW i \in Nat, i \in T PROVE i + 1 \in T
  <2> SUFFICES ASSUME i + 1 <= n PROVE k[i + 1] = Pre(Upto(i + 1))
    OBVIOUS
  <2>1. i + 1 \in 1 .. n /\ (i + 1) - 1 = i
    OBVIOUS
  <2>2. k[i + 1] = But(k[i], field[i + 1])
    BY <1>3, <2>1
  <2>3. k[i] = Pre(Upto(i))
    BY <1>5
  <2>4. CASE i + 1 <= p
    <3>1. field[i + 1] # Blank /\ Upto(i) = i /\ Upto(i + 1) = i + 1
      BY <1>1, <2>4
    <3>2. k[i + 1] = Append(Pre(i), field[i + 1])
      BY <2>2, <2>3, <3>1 DEF But
    <3>3. Append(Pre(i), field[i + 1]) = Pre(i + 1)
      <4>1. Pre(i) \in Seq(R) /\ Len(Pre(i)) = i
        BY <1>2, <2>1
      <4> QED  BY <4>1, <2>1
    <3> QED  BY <3>1, <3>2, <3>3
  <2>5. CASE p < i + 1
    <3>1. i + 1 \in (p + 1) .. n
      BY <1>1, <2>1, <2>5
    <3>2. field[i + 1] = Blank
      BY <1>1, <3>1
    <3>3. Upto(i) = p /\ Upto(i + 1) = p
      BY <1>1, <2>5
    <3> HIDE DEF Upto
    <3> QED  BY <2>2, <2>3, <3>2, <3>3 DEF But
  <2> QED  BY <1>1, <2>4, <2>5
<1>6. n \in T
  <2> HIDE DEF T
  <2>1. \A i \in Nat : i \in T => i + 1 \in T
    BY <1>5
  <2> QED  BY <1>4, <2>1, Induct
<1>7. Upto(n) = p
  BY <1>1
<1>8. k[n] = Pre(Upto(n))
  BY <1>6
<1> HIDE DEF Upto
<1> QED  BY <1>3, <1>7, <1>8

\* A padded field has a last letter, or none.
LEMMA PaddedSplit ==
  ASSUME NEW n \in Nat, NEW field, DOMAIN field = 1 .. n, Padded(field)
  PROVE  \E p : Letters(field, n, p)
<1> DEFINE T == {i \in 1 .. n : field[i] = Blank}
<1>1. CASE T = {}
  <2>1. n \in 0 .. n /\ (\A i \in 1 .. n : field[i] # Blank) /\ (\A i \in (n + 1) .. n : FALSE)
    BY <1>1
  <2> QED  BY <2>1 DEF Letters
<1>2. CASE T # {}
  <2>1. PICK m \in T : \A i \in T : m <= i
    <3>1. T \subseteq Nat
      OBVIOUS
    <3> QED  BY <1>2, <3>1, Least
  <2>2. m - 1 \in 0 .. n /\ (m - 1) + 1 = m /\ m \in 1 .. n /\ field[m] = Blank
    BY <2>1
  <2>3. \A i \in 1 .. (m - 1) : field[i] # Blank
    BY <2>1
  <2>4. \A i \in m .. n : field[i] = Blank
    BY <2>2 DEF Padded
  <2> QED  BY <2>2, <2>3, <2>4 DEF Letters
<1> QED  BY <1>1, <1>2

\* Where the stem ends: at the first place where it may.
LEMMA StemEnds ==
  ASSUME NEW in, Len(in) \in Nat
  PROVE  /\ StemEnd(in) \in 0 .. Len(in) /\ StemEnd(in) <= StemSize
         /\ Ends(in, StemEnd(in))
         /\ \A m \in 0 .. (StemEnd(in) - 1) : ~Ends(in, m)
<1> DEFINE T == {n \in 0 .. Len(in) : Ends(in, n)}
<1>1. T \subseteq Nat /\ Len(in) \in T
  BY DEF Ends
<1>2. PICK n \in T : \A m \in T : n <= m
  BY <1>1, Least
<1>3. \A m \in 0 .. (n - 1) : ~Ends(in, m)
  BY <1>2
<1>4. /\ StemEnd(in) \in 0 .. Len(in) /\ Ends(in, StemEnd(in))
      /\ \A m \in 0 .. (StemEnd(in) - 1) : ~Ends(in, m)
  BY <1>2, <1>3 DEF StemEnd
<1>5. StemEnd(in) <= StemSize
  <2> SUFFICES ASSUME StemSize < StemEnd(in) PROVE FALSE
    BY <1>4, CharactersAssumption
  <2>1. StemSize \in 0 .. (StemEnd(in) - 1)
    BY <1>4, CharactersAssumption
  <2>2. Ends(in, StemSize)
    BY DEF Ends
  <2> QED  BY <1>4, <2>1, <2>2
<1> QED  BY <1>4, <1>5

\* There is no other such place.
LEMMA StemEndIs ==
  ASSUME NEW in, Len(in) \in Nat, NEW n \in 0 .. Len(in), Ends(in, n),
         \A m \in 0 .. (n - 1) : ~Ends(in, m)
  PROVE  StemEnd(in) = n
<1>1. ~(StemEnd(in) < n)
  BY StemEnds
<1>2. ~(n < StemEnd(in))
  BY StemEnds
<1> QED  BY <1>1, <1>2, StemEnds

LEMMA UpperType ==
  ASSUME NEW ch \in Char
  PROVE  /\ Upper(ch) \in Capital
         /\ ch # Dot => Upper(ch) # Dot
         /\ ch # Blank => Upper(ch) # Blank
         /\ ch \in Capital => Upper(ch) = ch
BY CharactersAssumption DEF Upper, Capital

\* The parts of what is typed.
LEMMA PartTypes ==
  ASSUME NEW R, NEW in \in Seq(R)
  PROVE  /\ SubSeq(in, 1, StemEnd(in)) \in Seq(R \ {Dot})
         /\ Extension(in) \in Seq(R)
<1>1. Len(in) \in Nat
  OBVIOUS
<1>2. /\ StemEnd(in) \in 0 .. Len(in) /\ StemEnd(in) <= StemSize
      /\ \A m \in 0 .. (StemEnd(in) - 1) : ~Ends(in, m)
  BY <1>1, StemEnds
<1>3. \A i \in 1 .. StemEnd(in) : in[i] \in R \ {Dot}
  <2> TAKE i \in 1 .. StemEnd(in)
  <2>1. i - 1 \in 0 .. (StemEnd(in) - 1) /\ (i - 1) + 1 = i /\ i \in 1 .. Len(in)
    BY <1>1, <1>2
  <2> QED  BY <1>2, <2>1 DEF Ends
<1>4. SubSeq(in, 1, StemEnd(in)) \in Seq(R \ {Dot})
  <2>1. SubSeq(in, 1, StemEnd(in)) = [i \in 1 .. StemEnd(in) |-> in[i]]
    BY <1>2
  <2> QED  BY <1>2, <1>3, <2>1
<1>5. Extension(in) \in Seq(R)
  BY <1>1, <1>2 DEF Extension
<1> QED  BY <1>4, <1>5

\* What is typed makes a name; one without spaces has none.
LEMMA MadeNames ==
  ASSUME NEW in \in Seq(Char)
  PROVE  /\ make_fat_name(in) \in Names
         /\ in \in Seq(Char \ {Blank}) => Spaceless(make_fat_name(in))
<1> DEFINE s == SubSeq(in, 1, StemEnd(in))
<1>1. s \in Seq(Char \ {Dot}) /\ Extension(in) \in Seq(Char)
  BY PartTypes
<1>2. ASSUME NEW t \in Seq(Char), NEW n \in Nat
      PROVE  Field(t, n) \in [1 .. n -> Capital]
  BY <1>2, UpperType, CharactersAssumption DEF Field
<1>3. \A i \in 1 .. StemSize : Field(s, StemSize)[i] # Dot
  <2> TAKE i \in 1 .. StemSize
  <2>1. CASE i <= Len(s)
    <3>1. s[i] \in Char /\ s[i] # Dot
      BY <1>1, <2>1
    <3> HIDE DEF s
    <3> QED  BY <3>1, <2>1, UpperType DEF Field
  <2>2. CASE ~(i <= Len(s))
    <3> HIDE DEF s
    <3> QED  BY <2>2, CharactersAssumption DEF Field
  <2> QED  BY <2>1, <2>2
<1>4. make_fat_name(in) \in Names
  <2>1. /\ Field(s, StemSize) \in [1 .. StemSize -> Capital]
        /\ Field(Extension(in), ExtSize) \in [1 .. ExtSize -> Capital]
    <3>1. s \in Seq(Char) /\ StemSize \in Nat /\ ExtSize \in Nat
      BY <1>1, CharactersAssumption
    <3> QED  BY <1>1, <1>2, <3>1
  <2>2. Field(s, StemSize) \in [1 .. StemSize -> Capital \ {Dot}]
    BY <1>3, <2>1
  <2> QED  BY <2>1, <2>2 DEF make_fat_name, Names
<1>5. ASSUME NEW t \in Seq(Char \ {Blank}), NEW n \in Nat
      PROVE  Padded(Field(t, n))
  <2>1. \A i \in 1 .. n : Field(t, n)[i] = Blank <=> Len(t) < i
    <3> TAKE i \in 1 .. n
    <3>1. CASE i <= Len(t)
      <4>1. t[i] \in Char /\ t[i] # Blank
        BY <3>1
      <4> QED  BY <3>1, <4>1, UpperType DEF Field
    <3>2. CASE ~(i <= Len(t))
      BY <3>2 DEF Field
    <3> QED  BY <3>1, <3>2
  <2>2. DOMAIN Field(t, n) = 1 .. n
    BY DEF Field
  <2>3. Len(t) \in Nat
    OBVIOUS
  <2> QED  BY <2>1, <2>2, <2>3 DEF Padded
<1>6. in \in Seq(Char \ {Blank}) => Spaceless(make_fat_name(in))
  <2> SUFFICES ASSUME in \in Seq(Char \ {Blank}) PROVE Spaceless(make_fat_name(in))
    OBVIOUS
  <2>1. s \in Seq((Char \ {Blank}) \ {Dot}) /\ Extension(in) \in Seq(Char \ {Blank})
    BY PartTypes
  <2>2. s \in Seq(Char \ {Blank})
    BY <2>1
  <2>3. Padded(Field(s, StemSize)) /\ Padded(Field(Extension(in), ExtSize))
    BY <1>5, <2>1, <2>2, CharactersAssumption
  <2> QED  BY <2>3 DEF Spaceless, make_fat_name
<1> QED  BY <1>4, <1>6

\* What is shown of a name has no spaces.
LEMMA ShownType ==
  ASSUME NEW name \in Names
  PROVE  Shown(name) \in Seq(Char \ {Blank})
<1>1. name.stem \in [1 .. StemSize -> Char] /\ name.ext \in [1 .. ExtSize -> Char]
  BY DEF Names, Capital
<1>2. Unpadded(name.stem) \in Seq(Char \ {Blank}) /\ Unpadded(name.ext) \in Seq(Char \ {Blank})
  BY <1>1, UnpaddedType, CharactersAssumption
<1>3. (IF name.ext[1] = Blank THEN <<>> ELSE <<Dot>>) \in Seq(Char \ {Blank})
  <2>1. Dot \in Char \ {Blank}
    BY CharactersAssumption DEF Capital
  <2>2. <<>> \in Seq(Char \ {Blank}) /\ <<Dot>> \in Seq(Char \ {Blank})
    BY <2>1
  <2> QED  BY <2>2
<1> QED  BY <1>2, <1>3 DEF Shown

LEMMA Joined ==
  ASSUME NEW R, NEW a \in Seq(R), NEW b \in Seq(R)
  PROVE  a \o b \in Seq(R) /\ Len(a \o b) = Len(a) + Len(b)
OBVIOUS

\* A name without spaces is shown as a way of typing it.
LEMMA ShownAsTyped ==
  ASSUME NEW name \in Names, Spaceless(name)
  PROVE  Retyped(name) = name
<1>1. Dot \in Capital /\ StemSize \in Nat /\ ExtSize \in Nat
  BY CharactersAssumption
<1>2. PICK stem, ext : name = [stem |-> stem, ext |-> ext]
  BY DEF Names
<1>3. /\ stem \in [1 .. StemSize -> Capital \ {Dot}] /\ DOMAIN stem = 1 .. StemSize
      /\ ext \in [1 .. ExtSize -> Capital] /\ DOMAIN ext = 1 .. ExtSize
  BY <1>2 DEF Names
<1>4. Padded(stem) /\ Padded(ext)
  BY <1>2 DEF Spaceless
<1>5. PICK p : Letters(stem, StemSize, p)
  BY <1>3, <1>1, <1>4, PaddedSplit
<1>6. PICK q : Letters(ext, ExtSize, q)
  BY <1>3, <1>1, <1>4, PaddedSplit
<1>7. /\ p \in 0 .. StemSize /\ (\A i \in 1 .. p : stem[i] # Blank)
      /\ \A i \in (p + 1) .. StemSize : stem[i] = Blank
  BY <1>5 DEF Letters
<1>8. /\ q \in 0 .. ExtSize /\ (\A i \in 1 .. q : ext[i] # Blank)
      /\ \A i \in (q + 1) .. ExtSize : ext[i] = Blank
  BY <1>6 DEF Letters
<1> DEFINE S == [i \in 1 .. p |-> stem[i]]
           E == [i \in 1 .. q |-> ext[i]]
<1>9. Unpadded(stem) = S /\ Unpadded(ext) = E
  <2>1. stem = [i \in 1 .. StemSize |-> stem[i]]
    BY <1>3
  <2>2. ext = [i \in 1 .. ExtSize |-> ext[i]]
    BY <1>3
  <2>3. Unpadded(stem) = S
    BY <1>5, <1>1, <2>1, UnpaddedPrefix
  <2>4. Unpadded(ext) = E
    BY <1>6, <1>1, <2>2, UnpaddedPrefix
  <2> QED  BY <2>3, <2>4
<1>10. /\ S \in Seq(Capital \ {Dot}) /\ Len(S) = p /\ \A i \in 1 .. p : S[i] = stem[i]
       /\ E \in Seq(Capital) /\ Len(E) = q /\ \A i \in 1 .. q : E[i] = ext[i]
  BY <1>3, <1>7, <1>8, CharactersAssumption
<1> HIDE DEF S, E
<1>11. ext[1] = Blank <=> q = 0
  BY <1>8, CharactersAssumption
<1> DEFINE sh == Shown(name)
<1>12. sh = IF q = 0 THEN S ELSE S \o <<Dot>> \o E
  <2>1. q = 0 => E = <<>>
    BY <1>10
  <2> QED  BY <1>2, <1>9, <1>10, <1>11, <2>1 DEF Shown
<1>13. /\ sh \in Seq(Capital)
       /\ Len(sh) = IF q = 0 THEN p ELSE p + 1 + q
       /\ \A i \in 1 .. p : sh[i] = S[i]
       /\ q # 0 => sh[p + 1] = Dot /\ \A i \in 1 .. q : sh[p + 1 + i] = E[i]
  <2>1. CASE q = 0
    BY <1>10, <1>12, <2>1
  <2>2. CASE q # 0
    <3>1. S \in Seq(Capital)
      BY <1>10
    <3>2. sh = S \o <<Dot>> \o E
      BY <1>12, <2>2
    <3> HIDE DEF sh
    <3>3. S \o <<Dot>> \in Seq(Capital) /\ Len(S \o <<Dot>>) = p + 1
      BY <1>10, <1>1, <3>1
    <3>4. (\A i \in 1 .. p : (S \o <<Dot>>)[i] = S[i]) /\ (S \o <<Dot>>)[p + 1] = Dot
      BY <1>10, <1>1, <3>1
    <3>5. PICK d \in Seq(Capital) : d = S \o <<Dot>>
      BY <3>3
    <3>6. sh = d \o E /\ d \in Seq(Capital) /\ Len(d) = p + 1 /\ E \in Seq(Capital) /\ Len(E) = q
      BY <1>10, <3>2, <3>3, <3>5
    <3>7. sh \in Seq(Capital) /\ Len(sh) = p + 1 + q
      <4>1. d \o E \in Seq(Capital) /\ Len(d \o E) = Len(d) + Len(E)
        BY <3>6, Joined, Zenon
      <4> QED  BY <3>6, <4>1
    <3>8. /\ \A i \in 1 .. p + 1 : sh[i] = d[i]
          /\ \A i \in 1 .. q : sh[p + 1 + i] = E[i]
      BY <1>1, <3>6
    <3> QED  BY <1>7, <1>8, <2>2, <3>3, <3>4, <3>5, <3>7, <3>8
  <2> QED  BY <2>1, <2>2
<1> HIDE DEF sh
<1>14. StemEnd(sh) = p
  <2>1. Len(sh) \in Nat /\ p \in 0 .. Len(sh)
    BY <1>1, <1>13, <1>7, <1>8
  <2>2. Ends(sh, p)
    BY <1>13 DEF Ends
  <2>3. ASSUME NEW m \in 0 .. (p - 1) PROVE ~Ends(sh, m)
    <3>1. m # Len(sh) /\ m # StemSize /\ m + 1 \in 1 .. p
      BY <1>1, <1>13, <1>7, <2>1
    <3>2. sh[m + 1] = stem[m + 1] /\ stem[m + 1] # Dot
      BY <1>3, <1>10, <1>1, <1>13, <3>1
    <3> QED  BY <3>1, <3>2 DEF Ends
  <2> QED  BY <2>1, <2>2, <2>3, StemEndIs
<1>15. SubSeq(sh, 1, p) = S
  <2>1. SubSeq(sh, 1, p) = [i \in 1 .. p |-> sh[i]]
    BY <1>13, <1>7
  <2> QED  BY <1>10, <1>13, <1>7, <2>1
<1>16. Extension(sh) = E
  <2>1. CASE q = 0
    BY <1>10, <1>13, <1>14, <2>1 DEF Extension
  <2>2. CASE q # 0
    <3>1. Extension(sh) = SubSeq(sh, p + 2, p + 1 + q)
      <4>1. p < Len(sh) /\ Len(sh) = p + 1 + q /\ sh[p + 1] = Dot
        BY <1>13, <1>7, <1>8, <2>2
      <4> QED  BY <1>14, <4>1 DEF Extension
    <3>2. Len(SubSeq(sh, p + 2, p + 1 + q)) = q
      BY <1>7, <1>8, <1>13, <2>2
    <3>3. \A i \in 1 .. q : SubSeq(sh, p + 2, p + 1 + q)[i] = sh[p + 1 + i]
      BY <1>7, <1>8, <1>13, <2>2
    <3> QED  BY <1>7, <1>8, <1>10, <1>13, <2>2, <3>1, <3>2, <3>3
  <2> QED  BY <2>1, <2>2
<1>17. Field(S, StemSize) = stem
  <2>1. \A i \in 1 .. StemSize : Field(S, StemSize)[i] = stem[i]
    BY <1>3, <1>7, <1>10, <1>1, UpperType DEF Field, Capital
  <2>2. DOMAIN Field(S, StemSize) = 1 .. StemSize /\ DOMAIN stem = 1 .. StemSize
    BY <1>3 DEF Field
  <2> QED  BY <1>3, <2>1, <2>2 DEF Field
<1>18. Field(E, ExtSize) = ext
  <2>1. \A i \in 1 .. ExtSize : Field(E, ExtSize)[i] = ext[i]
    <3> TAKE i \in 1 .. ExtSize
    <3>1. CASE i <= q
      <4>1. E[i] = ext[i] /\ ext[i] \in Char /\ ext[i] \in Capital
        BY <1>3, <1>10, <1>1, <3>1 DEF Capital
      <4> QED  BY <1>10, <1>1, <3>1, <4>1, UpperType DEF Field
    <3>2. CASE ~(i <= q)
      BY <1>8, <1>10, <1>1, <3>2 DEF Field
    <3> QED  BY <3>1, <3>2
  <2>2. DOMAIN Field(E, ExtSize) = 1 .. ExtSize /\ DOMAIN ext = 1 .. ExtSize
    BY <1>3 DEF Field
  <2> QED  BY <1>3, <2>1, <2>2 DEF Field
<1>19. Retyped(name) = [stem |-> stem, ext |-> ext]
  BY <1>14, <1>15, <1>16, <1>17, <1>18 DEF Retyped, make_fat_name, sh
<1> QED  BY <1>2, <1>19

\* So the list shows a way of typing a name exactly if it has no spaces.
LEMMA RetypedIsName ==
  ASSUME NEW name \in Names
  PROVE  Retyped(name) = name <=> Spaceless(name)
<1>1. Spaceless(Retyped(name))
  <2>1. Shown(name) \in Seq(Char \ {Blank})
    BY ShownType
  <2>2. Shown(name) \in Seq(Char)
    BY <2>1
  <2> QED  BY <2>1, <2>2, MadeNames DEF Retyped
<1> QED  BY <1>1, ShownAsTyped

-----------------------------------------------------------------------------
\* Types, and what each step of a call relies on.

LEMMA InitTyped == Init => TypeOK /\ Control
<1> SUFFICES ASSUME Init PROVE TypeOK /\ Control
  OBVIOUS
<1>1. TypeOK
  <2>1. <<>> \in Seq(Byte)
    OBVIOUS
  <2>2. UnusedSlot \in DirEntry
    BY DEF UnusedSlot, DirEntry
  <2>3. NoJob \in [op : {"none", "delete", "write"},
                   name : FatName \cup {NoName}, data : Seq(Byte)]
    BY <2>1 DEF NoJob
  <2>4. [i \in 1 .. SectorSize |-> Zero] \in [1 .. SectorSize -> Byte]
    BY BytesAssumption
  <2>5. crashes \in 0 .. MaxCrashes /\ done \in Nat
    BY SizesAssumption DEF Init
  <2> QED
    BY <2>2, <2>3, <2>4, <2>5 DEF Init, TypeOK
<1>2. Control
  BY DEF Init, Control
<1> QED  BY <1>1, <1>2

\* A call that starts with fs_delete.
LEMMA BeginTyped ==
  ASSUME TypeOK, Control, pc = "idle",
         NEW op \in {"delete", "write"}, NEW n \in FatName,
         NEW data \in Seq(Byte), BeginDelete(op, n, data)
  PROVE  TypeOK' /\ Control'
<1>1. Found(n) => /\ SlotOf(n) \in Slots /\ IsFile(SlotOf(n))
                  /\ dir[SlotOf(n)].name = n
                  /\ dir[SlotOf(n)].first \in Clusters \cup {0}
  BY FoundSlot DEF Matches, TypeOK, DirEntry
<1>2. TypeOK'
  BY <1>1 DEF BeginDelete, TypeOK, disk, AfterDelete
<1>3. Control'
  BY <1>1 DEF BeginDelete, Control, disk, AfterDelete, IsFile
<1> QED  BY <1>2, <1>3

LEMMA RefuseTyped ==
  ASSUME TypeOK, Control, Refuse
  PROVE  TypeOK' /\ Control'
BY DEF Refuse, TypeOK, Control, disk, locals, IsFile

LEMMA CallTyped == TypeOK /\ Control /\ Call => TypeOK' /\ Control'
<1> SUFFICES ASSUME TypeOK, Control, Call PROVE TypeOK' /\ Control'
  OBVIOUS
<1>1. <<>> \in Seq(Byte) /\ \A text \in Texts : text \in Seq(Byte)
  BY BytesAssumption
<1>2. \A s \in Slots, m \in Nat : ReadFile(s, m) \in Seq(Byte)
  <2> SUFFICES ASSUME NEW s \in Slots, NEW m \in Nat
               PROVE  ReadFile(s, m) \in Seq(Byte)
    OBVIOUS
  <2>1. SectorsFor(AtMost(dir[s].size, m)) \in Nat
    BY SectorsForType DEF AtMost, TypeOK, DirEntry
  <2> QED  BY <2>1, DeliverType DEF ReadFile
<1>3. \A n : Found(n) => SlotOf(n) \in Slots /\ dir[SlotOf(n)].size \in Nat
  BY FoundSlot DEF TypeOK, DirEntry
<1>4. CASE \E n \in FatName : Delete(n)
  BY <1>4, <1>1, BeginTyped, RefuseTyped DEF Delete
<1>5. CASE \E n \in FatName, data \in Texts : Write(n, data)
  BY <1>5, <1>1, BeginTyped DEF Write
<1>6. ASSUME NEW n \in FatName, NEW text \in Texts, Append_(n, text)
      PROVE  TypeOK' /\ Control'
  <2>1. CASE ~Found(n)
    BY <1>6, <2>1, <1>1, BeginTyped DEF Append_
  <2>2. CASE Found(n)
    <3> DEFINE old == ReadFile(SlotOf(n), dir[SlotOf(n)].size)
    <3>1. old \in Seq(Byte)
      BY <2>2, <1>2, <1>3
    <3>2. old \o text \in Seq(Byte)
      BY <3>1, <1>1
    <3>3. pc = "idle" /\ (BeginDelete("write", n, old \o text) \/ Refuse)
      BY <1>6, <2>2 DEF Append_
    <3> HIDE DEF old
    <3> QED  BY <3>2, <3>3, BeginTyped, RefuseTyped
  <2> QED  BY <2>1, <2>2
<1>7. ASSUME NEW src \in FatName, NEW dst \in FatName, Copy(src, dst)
      PROVE  TypeOK' /\ Control'
  <2>1. Found(src) => ReadFile(SlotOf(src), MaxFileSize) \in Seq(Byte)
    BY <1>2, <1>3, SizesAssumption
  <2> QED  BY <1>7, <2>1, BeginTyped, RefuseTyped DEF Copy
<1>8. ASSUME NEW old \in FatName, NEW new \in FatName, Rename(old, new)
      PROVE  TypeOK' /\ Control'
  <2>1. CASE MayRename(old, new)
    <3>1. SlotOf(old) \in Slots /\ pc = "idle"
      BY <1>8, <2>1, <1>3 DEF Rename, MayRename
    <3>2. dir' \in [Slots -> DirEntry]
      BY <1>8, <2>1, <3>1 DEF Rename, TypeOK, DirEntry, FileEntry
    <3>3. TypeOK'
      BY <1>8, <2>1, <3>2 DEF Rename, TypeOK, locals
    <3>4. Control'
      BY <1>8, <2>1, <3>1 DEF Rename, Control, locals
    <3> QED  BY <3>3, <3>4
  <2>2. CASE ~MayRename(old, new)
    BY <1>8, <2>2, RefuseTyped DEF Rename
  <2> QED  BY <2>1, <2>2
<1> QED  BY <1>4, <1>5, <1>6, <1>7, <1>8 DEF Call

\* A call that returns without a further write.
LEMMA ReturnTyped ==
  ASSUME TypeOK, NEW r \in {"none", "ok", "failed"}, Return(r),
         UNCHANGED <<disk, mirror, crashes, torn>>
  PROVE  TypeOK'
BY DEF Return, NoJob, disk, TypeOK

LEMMA StepTyped == TypeOK /\ Control /\ Step => TypeOK' /\ Control'
<1> SUFFICES ASSUME TypeOK, Control, Step PROVE TypeOK' /\ Control'
  OBVIOUS
<1> USE ClusterNumbers
<1>1. CASE WriteSecondFat
  BY <1>1 DEF WriteSecondFat, TypeOK, Control, locals, IsFile
<1>2. CASE FreeOne
  BY <1>2 DEF FreeOne, FatSet, Running, TypeOK, Control, IsFile
<1>3. CASE EraseEntry
  <2>1. ErasedSlot \in DirEntry /\ NoJob \in [op : {"none", "delete", "write"},
                   name : FatName \cup {NoName}, data : Seq(Byte)]
    BY DEF ErasedSlot, DirEntry, NoJob
  <2> QED
    BY <1>3, <2>1 DEF EraseEntry, Return, AfterDelete, Running, TypeOK, Control
<1>4. CASE Alloc
  <2>1. PICK c \in Clusters : LowestFree(c) /\ FatSet(c, EOC) /\ cluster' = c
                 /\ first' = IF first = 0 THEN c ELSE first
    BY <1>4 DEF Alloc
  <2>2. TypeOK'
    BY <1>4, <2>1 DEF Alloc, FatSet, TypeOK
  <2>3. Control'
    BY <1>4, <2>1 DEF Alloc, FatSet, LowestFree, Running, TypeOK, Control
  <2> QED  BY <2>2, <2>3
<1>5. CASE AllocFull
  <2>1. TypeOK'
    <3>1. CASE first = 0
      BY <1>5, <3>1, ReturnTyped DEF AllocFull, GiveBack
    <3>2. CASE first # 0
      BY <1>5, <3>2 DEF AllocFull, GiveBack, disk, TypeOK
    <3> QED  BY <3>1, <3>2
  <2>2. Control'
    BY <1>5 DEF AllocFull, GiveBack, Return, disk, Running, TypeOK, Control
  <2> QED  BY <2>1, <2>2
<1>6. CASE Link
  BY <1>6 DEF Link, FatSet, locals, Running, TypeOK, Control
<1>7. CASE WriteData
  <2>1. Chunk \in [1 .. SectorSize -> Byte]
    BY BytesAssumption, SizesAssumption DEF Chunk, TypeOK
  <2>2. TypeOK'
    BY <1>7, <2>1, SizesAssumption DEF WriteData, Target, MoreToWrite, Running, TypeOK, Control
  <2>3. Control'
    BY <1>7 DEF WriteData, Target, MoreToWrite, Running, TypeOK, Control
  <2> QED  BY <2>2, <2>3
<1>8. CASE Seal
  BY <1>8 DEF Seal, FatSet, locals, Running, TypeOK, Control
<1>9. CASE CreateEntry
  <2>1. FileEntry(job.name, first, Len(job.data)) \in DirEntry
    BY DEF FileEntry, DirEntry, TypeOK
  <2> QED
    BY <1>9, <2>1 DEF CreateEntry, Return, NoJob, Running, TypeOK, Control
<1>10. CASE CreateFull
  <2>1. TypeOK'
    <3>1. CASE first = 0
      BY <1>10, <3>1, ReturnTyped DEF CreateFull, GiveBack
    <3>2. CASE first # 0
      BY <1>10, <3>2 DEF CreateFull, GiveBack, disk, TypeOK
    <3> QED  BY <3>1, <3>2
  <2>2. Control'
    BY <1>10 DEF CreateFull, GiveBack, Return, disk, Running, TypeOK, Control
  <2> QED  BY <2>1, <2>2
<1>11. CASE GiveUp
  BY <1>11 DEF GiveUp, Return, NoJob, disk, Running, TypeOK, Control
<1> QED
  BY <1>1, <1>2, <1>3, <1>4, <1>5, <1>6, <1>7, <1>8, <1>9, <1>10, <1>11 DEF Step

LEMMA CrashTyped == TypeOK /\ Control /\ Crash => TypeOK' /\ Control'
BY SizesAssumption
   DEF Crash, Tearing, Return, NoJob, disk, TypeOK, Control

\* Every variable stays in its type, and each step of a call finds its locals
\* as the code before it left them.
LEMMA Typed == Spec => [](TypeOK /\ Control)
<1>1. Init => TypeOK /\ Control
  BY InitTyped
<1>2. TypeOK /\ Control /\ [Next]_vars => (TypeOK /\ Control)'
  <2>1. TypeOK /\ Control /\ UNCHANGED vars => TypeOK' /\ Control'
    BY DEF vars, disk, locals, TypeOK, Control, IsFile
  <2> QED  BY <2>1, CallTyped, StepTyped, CrashTyped DEF Next
<1> QED  BY <1>1, <1>2, PTL DEF Spec

THEOREM TypeCorrect == Spec => []TypeOK
BY Typed, PTL

-----------------------------------------------------------------------------
\* The directory.  Names stay unique because a scan that fails has seen every
\* file: all slots never used come last.  While a file is being written no
\* entry has its name.

UnusedLast ==
  \A s, t \in Slots : s < t /\ dir[s].state = "unused" => dir[t].state = "unused"
NameIsFree ==
  pc \in {"alloc", "link", "data", "seal", "entry"} =>
    \A s \in Slots : IsFile(s) => dir[s].name # job.name
FilesNamed == \A s \in Slots : IsFile(s) => dir[s].name \in FatName
Directory == UnusedLast /\ UniqueNames /\ NameIsFree /\ FilesNamed

LEMMA ScanFindsAll ==
  ASSUME UnusedLast, NEW s \in Slots, IsFile(s)
  PROVE  Matches(s, dir[s].name) /\ Found(dir[s].name)
<1>1. \A t \in 1 .. (s - 1) : t \in Slots /\ t < s
  BY SizesAssumption DEF Slots
<1>2. \A t \in 1 .. (s - 1) : dir[t].state # "unused"
  BY <1>1 DEF UnusedLast, IsFile
<1> QED  BY <1>2 DEF Matches, Found

LEMMA BeginDirectory ==
  ASSUME TypeOK, Directory, NEW op, NEW n, NEW data, BeginDelete(op, n, data)
  PROVE  Directory'
<1>1. ~Found(n) => \A s \in Slots : IsFile(s) => dir[s].name # n
  BY ScanFindsAll DEF Directory
<1> QED
  BY <1>1 DEF BeginDelete, AfterDelete, Directory, UnusedLast, UniqueNames,
              NameIsFree, FilesNamed, disk, IsFile

\* A step that leaves the directory alone and goes on with the same file.
LEMMA SameDirectory ==
  ASSUME Directory, dir' = dir,
         \/ job' = job /\ pc \in {"alloc", "link", "data", "seal", "entry"}
         \/ pc' \in {"idle", "free_old", "free_new"}
  PROVE  Directory'
BY DEF Directory, UnusedLast, UniqueNames, NameIsFree, FilesNamed, IsFile

LEMMA DirectoryStep ==
  TypeOK /\ Control /\ Directory /\ [Next]_vars => Directory'
<1> SUFFICES ASSUME TypeOK, Control, Directory, [Next]_vars PROVE Directory'
  OBVIOUS
<1>1. ASSUME NEW old \in FatName, NEW new \in FatName, Rename(old, new)
      PROVE  Directory'
  <2>1. CASE MayRename(old, new)
    <3> DEFINE k == SlotOf(old)
    <3>1. k \in Slots /\ IsFile(k)
      BY <2>1, FoundSlot DEF Matches, MayRename
    <3>2. \A s \in Slots : IsFile(s) => dir[s].name # new
      BY <2>1, ScanFindsAll DEF Directory, MayRename
    <3>3. pc' = "idle" /\ dir' = [dir EXCEPT ![k] = FileEntry(new, dir[k].first, dir[k].size)]
      BY <1>1, <2>1 DEF Rename
    <3> HIDE DEF k
    <3> QED
      BY <3>1, <3>2, <3>3 DEF Directory, UnusedLast, UniqueNames, NameIsFree, FilesNamed,
                              IsFile, TypeOK, FileEntry
  <2>2. CASE ~MayRename(old, new)
    BY <1>1, <2>2, SameDirectory DEF Rename, Refuse, disk
  <2> QED  BY <2>1, <2>2
<1>2. CASE \/ \E n \in FatName : Delete(n)
           \/ \E n \in FatName, data \in Texts : Write(n, data)
           \/ \E n \in FatName, text \in Texts : Append_(n, text)
           \/ \E src, dst \in FatName : Copy(src, dst)
  <2>1. \/ \E op, n, data : BeginDelete(op, n, data)
        \/ Refuse /\ pc = "idle"
    BY <1>2, Zenon DEF Delete, Write, Append_, Copy
  <2> QED
    BY <2>1, BeginDirectory, SameDirectory DEF Refuse, disk
<1>3. CASE EraseEntry
  <2>1. /\ victim \in Slots /\ IsFile(victim) /\ dir[victim].name = job.name
        /\ dir' = [dir EXCEPT ![victim] = ErasedSlot]
        /\ job' = job \/ pc' = "idle"
    BY <1>3 DEF EraseEntry, Control, Return
  <2> QED
    BY <2>1 DEF Directory, UnusedLast, UniqueNames, NameIsFree, FilesNamed, IsFile, TypeOK,
                ErasedSlot
<1>4. CASE CreateEntry
  <2>1. PICK s \in Slots : FirstOpen(s) /\ pc = "entry" /\ pc' = "idle" /\
               dir' = [dir EXCEPT ![s] = FileEntry(job.name, first, Len(job.data))]
    BY <1>4 DEF CreateEntry, Return
  <2>2. \A t \in Slots : t < s => IsFile(t)
    BY <2>1, SizesAssumption DEF FirstOpen, Slots
  <2>3. UnusedLast'
    BY <2>1, <2>2, SizesAssumption
       DEF Directory, UnusedLast, TypeOK, FileEntry, IsFile, Slots
  <2>4. UniqueNames' /\ NameIsFree'
    BY <2>1 DEF Directory, UniqueNames, NameIsFree, TypeOK, FileEntry, IsFile
  <2>5. FilesNamed'
    BY <2>1 DEF Directory, FilesNamed, Control, TypeOK, FileEntry, IsFile
  <2> QED  BY <2>3, <2>4, <2>5 DEF Directory
<1>5. CASE WriteSecondFat \/ FreeOne
  BY <1>5 DEF WriteSecondFat, FreeOne, Directory, UnusedLast, UniqueNames,
              NameIsFree, FilesNamed, IsFile
<1>6. CASE Alloc \/ AllocFull \/ Link \/ WriteData \/ Seal \/ CreateFull
  <2>1. dir' = dir /\ pc \in {"alloc", "link", "data", "seal", "entry"}
        /\ (job' = job \/ pc' \in {"idle", "free_new"})
    BY <1>6 DEF Alloc, AllocFull, Link, WriteData, Seal, CreateFull, GiveBack, Return, disk
  <2> QED  BY <2>1, SameDirectory
<1>7. CASE GiveUp \/ Crash
  BY <1>7, SameDirectory DEF GiveUp, Crash, Return, disk
<1>8. CASE UNCHANGED vars
  BY <1>8 DEF vars, disk, Directory, UnusedLast, UniqueNames, NameIsFree, FilesNamed, IsFile
<1> QED
  BY <1>1, <1>2, <1>3, <1>4, <1>5, <1>6, <1>7, <1>8 DEF Next, Call, Step

LEMMA DirectoryAlways == Spec => []Directory
<1>1. Init => Directory
  BY DEF Init, Directory, UnusedLast, UniqueNames, NameIsFree, FilesNamed, IsFile, UnusedSlot
<1> QED  BY <1>1, DirectoryStep, Typed, PTL DEF Spec

THEOREM NamesStayUnique == Spec => []UniqueNames
<1>1. Directory => UniqueNames
  BY DEF Directory
<1> QED  BY <1>1, DirectoryAlways, PTL

THEOREM NothingIsHidden == Spec => []EveryFileListed
<1>1. Directory => EveryFileListed
  BY ScanFindsAll DEF Directory, EveryFileListed, Listing, Matches
<1> QED  BY <1>1, DirectoryAlways, PTL

\* A file is found under the name it is listed as, whatever has been created,
\* deleted and renamed, exactly if its name has no space: what is shown of any
\* other is the name of another file, or of none.
THEOREM ListedNamesAreFound == Spec => []ListedNamesFind
<1>1. TypeOK /\ Directory => ListedNamesFind
  <2> SUFFICES ASSUME TypeOK, Directory, NEW s \in Slots, IsFile(s)
               PROVE  Found(Retyped(dir[s].name)) /\ SlotOf(Retyped(dir[s].name)) = s
                        <=> Spaceless(dir[s].name)
    BY DEF ListedNamesFind
  <2> DEFINE shown == Retyped(dir[s].name)
  <2>1. shown = dir[s].name <=> Spaceless(dir[s].name)
    BY NamesAssumption, RetypedIsName DEF Directory, FilesNamed
  <2> HIDE DEF shown
  <2>2. ASSUME shown = dir[s].name PROVE Found(shown) /\ SlotOf(shown) = s
    <3>1. Found(shown)
      BY <2>2, ScanFindsAll DEF Directory
    <3>2. SlotOf(shown) \in Slots /\ Matches(SlotOf(shown), shown)
      BY <3>1, FoundSlot
    <3> QED  BY <2>2, <3>1, <3>2 DEF Matches, Directory, UniqueNames
  <2>3. ASSUME Found(shown), SlotOf(shown) = s PROVE shown = dir[s].name
    BY <2>3, FoundSlot DEF Matches
  <2> QED  BY <2>1, <2>2, <2>3 DEF shown
<1> QED  BY <1>1, Typed, DirectoryAlways, PTL

-----------------------------------------------------------------------------
\* The chains.  The three invariants are inductive together, given Control:
\* a cluster that is allocated is one that nobody refers to, a cluster that is
\* freed had one reference, the local that has moved on to the next.

Chains == NoDangling /\ NoSharing /\ NoLeak

\* A step that changes neither the FAT nor what refers to clusters.
LEMMA SameReferences ==
  ASSUME Chains, fat' = fat, torn' = torn, crashes' = crashes,
         \A s \in Slots : (s \in Owners)' <=> s \in Owners,
         \A s \in Owners : dir'[s].first = dir[s].first,
         \A c \in Clusters : Held(c)' <=> Held(c),
         pc' # "link"
  PROVE  Chains'
<1>1. \A c \in Clusters : /\ HasOwner(c)' <=> HasOwner(c)
                          /\ HasLink(c)' <=> HasLink(c)
  BY DEF HasOwner, HasLink, Owners
<1>2. Owners' = Owners
  BY DEF Owners
<1>3. NoDangling'
  BY <1>1 DEF Chains, NoDangling
<1>4. NoSharing'
  BY <1>1, <1>2 DEF Chains, NoSharing
<1>5. NoLeak'
  BY <1>1 DEF Chains, NoLeak
<1> QED  BY <1>3, <1>4, <1>5 DEF Chains

LEMMA BeginChains ==
  ASSUME TypeOK, Control, Chains, pc = "idle",
         NEW op, NEW n, NEW data, BeginDelete(op, n, data)
  PROVE  Chains'
<1>1. CASE Found(n)
  <2> DEFINE v == SlotOf(n)
  <2>1. v \in Slots /\ v \in Owners
    BY <1>1, FoundSlot DEF Owners, Matches
  <2>2. /\ fat' = fat /\ dir' = dir /\ torn' = torn /\ crashes' = crashes
        /\ pc' = "free_old" /\ victim' = v /\ cluster' = dir[v].first
    BY <1>1 DEF BeginDelete, disk
  <2> HIDE DEF v
  <2>3. /\ Owners' = Owners \ {v}
        /\ \A c : Held(c)' <=> c = dir[v].first
        /\ \A c : ~Held(c)
        /\ \A c : HasLink(c)' <=> HasLink(c)
        /\ \A c : HasOwner(c) <=> HasOwner(c)' \/ c = dir[v].first
    BY <2>1, <2>2 DEF Owners, Held, HasLink, HasOwner, IsFile
  <2>4. NoDangling' /\ NoLeak'
    BY <2>2, <2>3 DEF Chains, NoDangling, NoLeak
  <2>5. NoSharing'
    <3>1. ASSUME ~torn, NEW s \in Owners', NEW c \in Clusters, dir[v].first = c
          PROVE  dir[s].first # c
      BY <2>1, <2>3, <3>1 DEF Chains, NoSharing
    <3>2. ASSUME ~torn, NEW c \in Clusters, dir[v].first = c
          PROVE  ~HasLink(c)
      BY <2>1, <3>2 DEF Chains, NoSharing, HasLink
    <3>3. \A c \in Clusters : ~torn /\ Held(c)' => ~HasLink(c)' /\ ~HasOwner(c)'
      BY <2>2, <2>3, <3>1, <3>2 DEF HasOwner
    <3> QED  BY <2>2, <2>3, <3>3 DEF Chains, NoSharing
  <2> QED  BY <2>4, <2>5 DEF Chains
<1>2. CASE ~Found(n)
  <2>1. /\ fat' = fat /\ dir' = dir /\ torn' = torn /\ crashes' = crashes
        /\ pc' \in {"alloc", "entry"} /\ first' = 0
    BY <1>2 DEF BeginDelete, disk, AfterDelete, Control
  <2>2. \A c \in Clusters : ~Held(c) /\ ~Held(c)'
    BY <2>1, ClusterNumbers DEF Held
  <2> QED
    BY <2>1, <2>2, SameReferences DEF Owners, IsFile
<1> QED  BY <1>1, <1>2

LEMMA FreeOneChains ==
  ASSUME TypeOK, Control, Chains, FreeOne
  PROVE  Chains'
<1>0. PICK next : next = fat[cluster]
  OBVIOUS
<1>1. /\ cluster \in Clusters /\ pc \in {"free_old", "free_new"} /\ pc' = pc
      /\ fat' = [fat EXCEPT ![cluster] = Free] /\ cluster' = next
      /\ dir' = dir /\ victim' = victim /\ torn' = torn /\ crashes' = crashes
  BY <1>0 DEF FreeOne, FatSet
<1>2. /\ Owners' = Owners
      /\ \A c : HasOwner(c)' <=> HasOwner(c)
      /\ \A c : Held(c) <=> c = cluster
      /\ \A c : Held(c)' <=> c = next
  BY <1>1 DEF Owners, HasOwner, Held, IsFile
<1>3. \A c \in Clusters : HasLink(c) <=> HasLink(c)' \/ c = next
  BY <1>0, <1>1, ClusterNumbers DEF HasLink, TypeOK
<1>4. ~torn => next # cluster /\ ~HasOwner(cluster) /\ ~HasLink(cluster)
  BY <1>1, <1>2, <1>3 DEF Chains, NoSharing
<1>5. NoDangling'
  BY <1>1, <1>2, <1>3, <1>4 DEF Chains, NoDangling, TypeOK
<1>6. NoLeak'
  BY <1>1, <1>2, <1>3 DEF Chains, NoLeak, TypeOK
<1>7. NoSharing'
  <2>1. ASSUME ~torn, next \in Clusters
        PROVE  ~HasLink(next)' /\ ~HasOwner(next)
    BY <1>0, <1>1, <2>1, ClusterNumbers DEF Chains, NoSharing, HasLink, HasOwner, TypeOK
  <2> QED
    BY <1>1, <1>2, <2>1, ClusterNumbers DEF Chains, NoSharing, TypeOK
<1> QED  BY <1>5, <1>6, <1>7 DEF Chains

LEMMA EraseChains ==
  ASSUME TypeOK, Control, Chains, EraseEntry
  PROVE  Chains'
<1>1. /\ pc = "free_old" /\ cluster \notin Clusters
      /\ dir' = [dir EXCEPT ![victim] = ErasedSlot]
      /\ fat' = fat /\ torn' = torn /\ crashes' = crashes
      /\ pc' \in {"idle", "alloc", "entry"} /\ first' = 0
  BY DEF EraseEntry, Return, AfterDelete, Control
<1>2. \A s \in Slots : (s \in Owners)' <=> s \in Owners
  BY <1>1 DEF Owners, IsFile, ErasedSlot, TypeOK
<1>3. \A s \in Owners : dir'[s].first = dir[s].first
  BY <1>1 DEF Owners, TypeOK
<1>4. \A c \in Clusters : ~Held(c) /\ ~Held(c)'
  BY <1>1, ClusterNumbers DEF Held
<1> QED  BY <1>1, <1>2, <1>3, <1>4, SameReferences

LEMMA AllocChains ==
  ASSUME TypeOK, Control, Chains, Alloc
  PROVE  Chains'
<1>1. PICK c \in Clusters :
        /\ fat[c] = Free /\ fat' = [fat EXCEPT ![c] = EOC]
        /\ cluster' = c /\ first' = IF first = 0 THEN c ELSE first
  BY DEF Alloc, FatSet, LowestFree
<1>2. /\ pc = "alloc"
      /\ \/ first = 0 /\ pc' = "data"
         \/ first # 0 /\ pc' = "link"
      /\ dir' = dir /\ torn' = torn /\ crashes' = crashes
  BY DEF Alloc, Control
<1>3. /\ Owners' = Owners
      /\ \A d : HasOwner(d)' <=> HasOwner(d)
  BY <1>2 DEF Owners, HasOwner, IsFile
<1>4. \A d \in Clusters : HasLink(d)' <=> HasLink(d)
  BY <1>1, ClusterNumbers DEF HasLink, TypeOK
<1>5. \A d \in Clusters : Held(d)' <=> Held(d) \/ d = c
  BY <1>1, <1>2, ClusterNumbers DEF Held
<1>6. ~torn => ~Held(c) /\ ~HasOwner(c) /\ ~HasLink(c)
  BY <1>1 DEF Chains, NoDangling
<1>7. NoDangling' /\ NoLeak'
  BY <1>1, <1>2, <1>3, <1>4, <1>5, ClusterNumbers DEF Chains, NoDangling, NoLeak, TypeOK
<1>8. NoSharing'
  <2>1. pc' = "link" /\ ~torn => first' # cluster'
    BY <1>1, <1>2, <1>6 DEF Held
  <2>2. ~torn => \A d \in Clusters : Held(d)' => ~HasLink(d)' /\ ~HasOwner(d)'
    BY <1>2, <1>3, <1>4, <1>5, <1>6 DEF Chains, NoSharing
  <2> QED
    BY <1>1, <1>2, <1>3, <2>1, <2>2, ClusterNumbers DEF Chains, NoSharing, TypeOK
<1> QED  BY <1>7, <1>8 DEF Chains

LEMMA LinkChains ==
  ASSUME TypeOK, Control, Chains, Link
  PROVE  Chains'
<1>1. /\ prev \in Clusters /\ cluster \in Clusters /\ first \in Clusters
      /\ fat[prev] = EOC /\ prev # cluster
      /\ fat' = [fat EXCEPT ![prev] = cluster]
      /\ pc = "link" /\ pc' = "data"
      /\ UNCHANGED <<cluster, first, dir, torn, crashes>>
  BY DEF Link, FatSet, Control, TypeOK, locals
<1>2. /\ Owners' = Owners
      /\ \A d : HasOwner(d)' <=> HasOwner(d)
  BY <1>1 DEF Owners, HasOwner, IsFile
<1>3. \A d \in Clusters : HasLink(d)' <=> HasLink(d) \/ d = cluster
  BY <1>1, ClusterNumbers DEF HasLink, TypeOK
<1>4. \A d \in Clusters : Held(d) <=> Held(d)' \/ d = cluster
  BY <1>1 DEF Held
<1>5. \A d \in Clusters : Held(d)' <=> d = first
  BY <1>1 DEF Held
<1>6. NoDangling' /\ NoLeak'
  BY <1>1, <1>2, <1>3, <1>4, ClusterNumbers DEF Chains, NoDangling, NoLeak, TypeOK
<1>7. ~torn => ~HasLink(cluster) /\ ~HasOwner(cluster) /\ first # cluster
  BY <1>1, <1>4 DEF Chains, NoSharing
<1>8. NoSharing'
  <2>1. ~torn => ~HasLink(first)' /\ ~HasOwner(first)
    BY <1>1, <1>3, <1>4, <1>5, <1>7 DEF Chains, NoSharing
  <2>2. ~torn => \A x, y \in Clusters :
                   fat'[x] = fat'[y] /\ fat'[x] \in Clusters => x = y
    BY <1>1, <1>7 DEF Chains, NoSharing, HasLink, TypeOK
  <2>3. ~torn => \A s \in Owners, x \in Clusters :
                   dir[s].first \in Clusters => fat'[x] # dir[s].first
    BY <1>1, <1>7 DEF Chains, NoSharing, HasOwner, TypeOK
  <2> QED
    BY <1>1, <1>2, <1>5, <2>1, <2>2, <2>3 DEF Chains, NoSharing
<1> QED  BY <1>6, <1>8 DEF Chains

LEMMA CreateChains ==
  ASSUME TypeOK, Control, Chains, CreateEntry
  PROVE  Chains'
<1>1. PICK k \in Slots :
        ~IsFile(k) /\ dir' = [dir EXCEPT ![k] = FileEntry(job.name, first, Len(job.data))]
  BY DEF CreateEntry, FirstOpen
<1>2. /\ pc = "entry" /\ pc' = "idle"
      /\ UNCHANGED <<fat, torn, crashes>>
  BY DEF CreateEntry, Return
<1>3. /\ Owners' = Owners \cup {k} /\ k \notin Owners
      /\ dir'[k].first = first
      /\ \A s \in Owners : dir'[s].first = dir[s].first
  BY <1>1, <1>2 DEF Owners, IsFile, FileEntry, TypeOK
<1>4. \A d : /\ HasLink(d)' <=> HasLink(d)
             /\ HasOwner(d)' <=> HasOwner(d) \/ Held(d)
             /\ ~Held(d)'
             /\ Held(d) <=> d = first
  BY <1>2, <1>3 DEF HasOwner, HasLink, Held
<1>5. NoDangling' /\ NoLeak'
  BY <1>2, <1>4 DEF Chains, NoDangling, NoLeak
<1>6. NoSharing'
  <2>1. ~torn /\ first \in Clusters => ~HasLink(first) /\ ~HasOwner(first)
    BY <1>4 DEF Chains, NoSharing
  <2> QED
    BY <1>2, <1>3, <1>4, <2>1 DEF Chains, NoSharing, HasLink, HasOwner
<1> QED  BY <1>5, <1>6 DEF Chains

\* Power loss drops the locals: what they held is leaked, nothing is shared.
LEMMA CrashChains ==
  ASSUME TypeOK, Control, Chains, Crash
  PROVE  Chains'
<1>1. /\ fat' = fat /\ dir' = dir /\ pc' = "idle" /\ crashes' # 0
      /\ torn' = (torn \/ Tearing)
  BY DEF Crash, Return, disk, TypeOK
<1>2. NoLeak'
  BY <1>1 DEF NoLeak
<1>3. CASE torn'
  BY <1>2, <1>3 DEF Chains, NoDangling, NoSharing
<1>4. CASE ~torn'
  <2>1. /\ \A d : HasLink(d)' <=> HasLink(d)
        /\ \A d : ~Held(d)'
    BY <1>1 DEF HasLink, Held
  <2>2. CASE pc = "free_old"
    <3>1. /\ cluster = dir[victim].first /\ victim \in Slots
          /\ Owners' = Owners \cup {victim} /\ \A d : Held(d) <=> d = cluster
      BY <1>1, <1>4, <2>2 DEF Tearing, Owners, Control, IsFile, Held
    <3>2. \A d : HasOwner(d)' <=> HasOwner(d) \/ Held(d)
      BY <1>1, <3>1 DEF HasOwner
    <3>3. NoDangling'
      BY <1>1, <1>4, <2>1, <3>2 DEF Chains, NoDangling
    <3>4. (~HasLink(cluster) /\ ~HasOwner(cluster)) \/ cluster \notin Clusters
      BY <1>1, <1>4, <3>1 DEF Chains, NoSharing
    <3>5. \A s \in Owners : cluster \in Clusters => dir[s].first # cluster
      BY <3>4 DEF HasOwner
    <3>6. \A x \in Clusters : cluster \in Clusters => fat[x] # cluster
      BY <3>4 DEF HasLink
    <3>7. NoSharing'
      BY <1>1, <1>4, <2>1, <3>1, <3>5, <3>6 DEF Chains, NoSharing
    <3> QED  BY <1>2, <3>3, <3>7 DEF Chains
  <2>3. CASE pc # "free_old"
    <3>1. Owners' = Owners /\ \A d : HasOwner(d)' <=> HasOwner(d)
      BY <1>1, <2>3 DEF Owners, HasOwner, IsFile
    <3> QED
      BY <1>1, <1>2, <1>4, <2>1, <3>1 DEF Chains, NoDangling, NoSharing
  <2> QED  BY <2>2, <2>3
<1> QED  BY <1>3, <1>4

LEMMA ChainsStep == TypeOK /\ Control /\ Chains /\ [Next]_vars => Chains'
<1> SUFFICES ASSUME TypeOK, Control, Chains, [Next]_vars PROVE Chains'
  OBVIOUS
<1>1. ASSUME NEW old \in FatName, NEW new \in FatName, Rename(old, new)
      PROVE  Chains'
  <2>1. CASE MayRename(old, new)
    <3> DEFINE k == SlotOf(old)
    <3>1. k \in Slots /\ IsFile(k)
      BY <2>1, FoundSlot DEF Matches, MayRename
    <3>2. /\ dir' = [dir EXCEPT ![k] = FileEntry(new, dir[k].first, dir[k].size)]
          /\ UNCHANGED <<fat, torn, crashes, pc, victim, cluster, first>>
          /\ pc = "idle"
      BY <1>1, <2>1 DEF Rename, locals
    <3> HIDE DEF k
    <3>3. /\ \A s \in Slots : (s \in Owners)' <=> s \in Owners
          /\ \A s \in Owners : dir'[s].first = dir[s].first
      BY <3>1, <3>2 DEF Owners, IsFile, FileEntry, TypeOK
    <3> QED  BY <3>2, <3>3, SameReferences DEF Held
  <2>2. CASE ~MayRename(old, new)
    BY <1>1, <2>2, SameReferences
       DEF Rename, Refuse, disk, locals, Owners, Held, IsFile
  <2> QED  BY <2>1, <2>2
<1>2. CASE \/ \E n \in FatName : Delete(n)
           \/ \E n \in FatName, data \in Texts : Write(n, data)
           \/ \E n \in FatName, text \in Texts : Append_(n, text)
           \/ \E src, dst \in FatName : Copy(src, dst)
  <2>1. \/ pc = "idle" /\ \E op, n, data : BeginDelete(op, n, data)
        \/ pc = "idle" /\ Refuse
    BY <1>2, Zenon DEF Delete, Write, Append_, Copy
  <2>2. CASE Refuse /\ pc = "idle"
    BY <2>2, SameReferences DEF Refuse, disk, locals, Owners, Held, IsFile
  <2> QED  BY <2>1, <2>2, BeginChains
<1>3. CASE WriteSecondFat
  <2>1. pc # "link" \/ pc = "link"
    OBVIOUS
  <2> QED
    BY <1>3 DEF WriteSecondFat, locals, Chains, NoDangling, NoSharing, NoLeak,
                Owners, Held, HasOwner, HasLink, IsFile
<1>4. CASE WriteData
  <2>1. /\ pc = "data" /\ pc' \in {"alloc", "seal"}
        /\ UNCHANGED <<fat, dir, first, torn, crashes>>
    BY <1>4 DEF WriteData, Target, MoreToWrite
  <2> QED  BY <2>1, SameReferences DEF Owners, Held, IsFile
<1>5. CASE Seal
  <2>1. /\ pc = "seal" /\ pc' = "entry"
        /\ UNCHANGED <<dir, first, torn, crashes>>
        /\ fat' = fat
    BY <1>5 DEF Seal, FatSet, locals, Control, TypeOK
  <2> QED  BY <2>1, SameReferences DEF Owners, Held, IsFile
<1>6. CASE AllocFull \/ CreateFull
  <2>1. /\ pc \in {"alloc", "entry"}
        /\ UNCHANGED <<fat, dir, torn, crashes>>
        /\ \/ first = 0 /\ pc' = "idle"
           \/ pc' = "free_new" /\ cluster' = first
    BY <1>6 DEF AllocFull, CreateFull, GiveBack, Return, disk
  <2> QED  BY <2>1, SameReferences, ClusterNumbers DEF Owners, Held, IsFile
<1>7. CASE GiveUp
  BY <1>7, SameReferences DEF GiveUp, Return, disk, Owners, Held, IsFile
<1>8. CASE UNCHANGED vars
  BY <1>8 DEF vars, disk, locals, Chains, NoDangling, NoSharing, NoLeak,
              Owners, Held, HasOwner, HasLink, IsFile
<1> QED
  BY <1>1, <1>2, <1>3, <1>4, <1>5, <1>6, <1>7, <1>8, FreeOneChains, EraseChains,
     AllocChains, LinkChains, CreateChains, CrashChains DEF Next, Call, Step

LEMMA ChainsAlways == Spec => []Chains
<1>1. Init => Chains
  BY ClusterNumbers
     DEF Init, Chains, NoDangling, NoSharing, NoLeak, Owners, Held, HasOwner,
         HasLink, IsFile, UnusedSlot
<1> QED  BY <1>1, ChainsStep, Typed, PTL DEF Spec

THEOREM NeverDangling == Spec => []NoDangling
BY ChainsAlways, PTL DEF Chains

THEOREM NeverShared == Spec => []NoSharing
BY ChainsAlways, PTL DEF Chains

THEOREM NeverLeaked == Spec => []NoLeak
BY ChainsAlways, PTL DEF Chains

-----------------------------------------------------------------------------
\* The second copy of the FAT.  Only a power loss can leave an entry behind.

LEMMA BehindFinite == IsFiniteSet(Behind)
<1>1. IsFiniteSet(Clusters) /\ Behind \subseteq Clusters
  <2>1. 2 \in Int /\ MaxClusters - 1 \in Int
    BY SizesAssumption DEF FirstEnd
  <2>2. IsFiniteSet(2 .. (MaxClusters - 1))
    BY <2>1, FS_Interval
  <2> QED  BY <2>2 DEF Clusters, Behind
<1> QED  BY <1>1, FS_Subset

\* No step of a call adds an entry to those left behind.
LEMMA StepKeepsUp ==
  ASSUME TypeOK, Control, Call \/ Step \/ UNCHANGED vars
  PROVE  Behind' \subseteq Behind /\ crashes' = crashes
<1> USE ClusterNumbers DEF Behind
<1>1. CASE Call \/ UNCHANGED vars
  <2>1. UNCHANGED <<fat, fat2, mirror, crashes>>
    BY <1>1, Zenon DEF Call, Delete, Write, Append_, Copy, Rename, BeginDelete,
                       Refuse, vars, disk
  <2> QED  BY <2>1
<1>2. CASE WriteSecondFat
  BY <1>2 DEF WriteSecondFat, TypeOK
<1>3. ASSUME NEW c, NEW value, FatSet(c, value), mirror = 0,
             UNCHANGED <<fat2, crashes>>
      PROVE  Behind' \subseteq Behind /\ crashes' = crashes
  BY <1>3 DEF FatSet, TypeOK
<1>4. CASE FreeOne \/ Alloc \/ Link \/ Seal
  <2>1. mirror = 0 /\ UNCHANGED <<fat2, crashes>> /\ \E c, value : FatSet(c, value)
    BY <1>4 DEF FreeOne, Alloc, Link, Seal, Running
  <2> QED  BY <2>1, <1>3
<1>5. CASE EraseEntry \/ AllocFull \/ WriteData \/ CreateEntry \/ CreateFull \/ GiveUp
  <2>1. UNCHANGED <<fat, fat2, mirror, crashes>>
    BY <1>5 DEF EraseEntry, AllocFull, WriteData, CreateEntry, CreateFull, GiveUp, disk
  <2> QED  BY <2>1
<1> QED  BY <1>1, <1>2, <1>4, <1>5 DEF Step

LEMMA CopiesStep ==
  TypeOK /\ Control /\ CopiesDiffer /\ [Next]_vars => CopiesDiffer'
<1> SUFFICES ASSUME TypeOK, Control, CopiesDiffer, [Next]_vars PROVE CopiesDiffer'
  OBVIOUS
<1>0. crashes \in Nat /\ IsFiniteSet(Behind) /\ Cardinality(Behind) \in Nat
  BY SizesAssumption, BehindFinite, FS_CardinalityType DEF TypeOK
<1>1. CASE Call \/ Step \/ UNCHANGED vars
  <2>1. Behind' \in SUBSET Behind /\ crashes' = crashes
    BY <1>1, StepKeepsUp
  <2>2. Cardinality(Behind') <= Cardinality(Behind) /\ Cardinality(Behind') \in Nat
    BY <1>0, <2>1, FS_Subset, FS_CardinalityType
  <2> QED  BY <1>0, <2>1, <2>2 DEF CopiesDiffer
<1>2. CASE Crash
  <2>1. Behind' \in SUBSET (Behind \cup {mirror}) /\ crashes' = crashes + 1
    BY <1>2 DEF Crash, Behind, disk
  <2>2. /\ IsFiniteSet(Behind \cup {mirror})
        /\ Cardinality(Behind \cup {mirror}) <= Cardinality(Behind) + 1
        /\ Cardinality(Behind \cup {mirror}) \in Nat
    <3>1. /\ IsFiniteSet(Behind \cup {mirror})
          /\ Cardinality(Behind \cup {mirror}) =
               IF mirror \in Behind THEN Cardinality(Behind) ELSE Cardinality(Behind) + 1
      BY <1>0, FS_AddElement
    <3> QED  BY <1>0, <3>1
  <2>3. /\ Cardinality(Behind') <= Cardinality(Behind \cup {mirror})
        /\ Cardinality(Behind') \in Nat
    BY <2>1, <2>2, FS_Subset, FS_CardinalityType
  <2> QED  BY <1>0, <2>1, <2>2, <2>3 DEF CopiesDiffer
<1> QED  BY <1>1, <1>2 DEF Next

THEOREM CopiesStayClose == Spec => []CopiesDiffer
<1>1. Init => CopiesDiffer
  <2>1. Init => Behind = {} /\ crashes = 0
    BY DEF Init, Behind
  <2> QED  BY <2>1, FS_EmptySet DEF CopiesDiffer
<1> QED  BY <1>1, CopiesStep, Typed, PTL DEF Spec

-----------------------------------------------------------------------------
\* Walks along the links of a FAT.

\* The recursion that defines a walk has a solution, so the walk solves it.
LEMMA WalkDefined ==
  ASSUME NEW f, NEW a, NEW n \in Nat
  PROVE  Walk(f, a, n) =
           [i \in 0 .. n |-> IF i = 0 THEN a ELSE NextLink(f, Walk(f, a, n)[i - 1])]
<1> DEFINE Solves(at, m) ==
             at = [i \in 0 .. m |-> IF i = 0 THEN a ELSE NextLink(f, at[i - 1])]
           T == {m \in Nat : \E at : Solves(at, m)}
<1>1. 0 \in T
  <2>1. Solves([i \in 0 .. 0 |-> a], 0)
    OBVIOUS
  <2> QED  BY <2>1
<1>2. ASSUME NEW m \in Nat, m \in T PROVE m + 1 \in T
  <2>1. PICK w : Solves(w, m)
    BY <1>2
  <2> DEFINE u == [i \in 0 .. m + 1 |-> IF i = 0 THEN a ELSE NextLink(f, w[i - 1])]
  <2>2. \A j \in 0 .. m : w[j] = IF j = 0 THEN a ELSE NextLink(f, w[j - 1])
    BY <2>1
  <2>3. \A i \in 1 .. m + 1 : i - 1 \in 0 .. m /\ u[i - 1] = w[i - 1]
    BY <2>2
  <2>4. Solves(u, m + 1)
    BY <2>3
  <2> HIDE DEF Solves, u
  <2> QED  BY <2>4
<1>3. \E at : Solves(at, n)
  <2>1. \A m \in Nat : m \in T
    <3> HIDE DEF T
    <3> QED  BY <1>1, <1>2, Induct
  <2> QED  BY <2>1
<1>4. Solves(Walk(f, a, n), n)
  BY <1>3 DEF Walk
<1> QED  BY <1>4

\* The first cluster of a walk, and each that follows.
LEMMA WalkSteps ==
  ASSUME NEW f, NEW a, NEW m \in Nat
  PROVE  /\ Walk(f, a, m)[0] = a
         /\ \A k \in 1 .. m : Walk(f, a, m)[k] = NextLink(f, Walk(f, a, m)[k - 1])
<1> DEFINE w == Walk(f, a, m)
<1>1. w = [k \in 0 .. m |-> IF k = 0 THEN a ELSE NextLink(f, w[k - 1])]
  BY WalkDefined
<1> HIDE DEF w
<1>2. w[0] = a /\ \A k \in 1 .. m : w[k] = NextLink(f, w[k - 1])
  BY <1>1
<1> QED  BY <1>2 DEF w

\* The cluster i steps from a.
At(f, a, i) == Walk(f, a, i)[i]

\* How far a walk goes makes no difference to the clusters it meets.
LEMMA WalkAt ==
  ASSUME NEW f, NEW a, NEW n \in Nat, NEW i \in 0 .. n
  PROVE  Walk(f, a, n)[i] = At(f, a, i)
<1> DEFINE T == {k \in Nat : \A m \in Nat : k <= m => Walk(f, a, m)[k] = Walk(f, a, k)[k]}
<1>1. \A m \in Nat : /\ Walk(f, a, m)[0] = a
                     /\ \A k \in 1 .. m : Walk(f, a, m)[k] = NextLink(f, Walk(f, a, m)[k - 1])
  BY WalkSteps
<1>2. 0 \in T
  BY <1>1
<1>3. ASSUME NEW k \in Nat, k \in T PROVE k + 1 \in T
  <2>1. ASSUME NEW m \in Nat, k + 1 <= m
        PROVE  Walk(f, a, m)[k + 1] = NextLink(f, Walk(f, a, k)[k])
    <3>1. k <= m /\ k + 1 \in 1 .. m /\ (k + 1) - 1 = k
      BY <2>1
    <3>2. Walk(f, a, m)[k] = Walk(f, a, k)[k]
      BY <1>3, <3>1
    <3> QED  BY <1>1, <3>1, <3>2
  <2>2. \A m \in Nat : k + 1 <= m => Walk(f, a, m)[k + 1] = Walk(f, a, k + 1)[k + 1]
    <3>1. k + 1 \in Nat /\ k + 1 <= k + 1
      OBVIOUS
    <3> QED  BY <2>1, <3>1
  <2> QED  BY <2>2
<1>4. \A k \in Nat : k \in T
  <2> HIDE DEF T
  <2> QED  BY <1>2, <1>3, Induct
<1> QED  BY <1>4 DEF At

\* The same, of the cluster i steps from a.
LEMMA AtStep ==
  ASSUME NEW f, NEW a
  PROVE  /\ At(f, a, 0) = a
         /\ \A i \in Nat : At(f, a, i + 1) = NextLink(f, At(f, a, i))
<1>1. At(f, a, 0) = a
  BY WalkSteps DEF At
<1>2. ASSUME NEW i \in Nat PROVE At(f, a, i + 1) = NextLink(f, At(f, a, i))
  <2>1. i + 1 \in Nat /\ i + 1 \in 1 .. (i + 1) /\ (i + 1) - 1 = i
    OBVIOUS
  <2>2. Walk(f, a, i + 1)[i + 1] = NextLink(f, Walk(f, a, i + 1)[i])
    BY <2>1, WalkSteps
  <2>3. Walk(f, a, i + 1)[i] = At(f, a, i)
    BY <2>1, WalkAt
  <2> QED  BY <2>2, <2>3 DEF At
<1> QED  BY <1>1, <1>2

\* A walk of n steps that the links of f and of g do not tell apart.
SameLinks(f, g, a, n) ==
  \A i \in 0 .. (n - 1) : NextLink(g, At(f, a, i)) = NextLink(f, At(f, a, i))

\* Walks whose links agree meet the same clusters.
LEMMA SameWalk ==
  ASSUME NEW f, NEW g, NEW a, NEW n \in Nat,
         SameLinks(f, g, a, n), NEW k \in 0 .. n
  PROVE  At(g, a, k) = At(f, a, k)
<1> DEFINE T == {i \in Nat : i <= n => At(g, a, i) = At(f, a, i)}
<1>1. 0 \in T
  BY AtStep
<1>2. ASSUME NEW i \in Nat, i \in T PROVE i + 1 \in T
  <2>1. At(f, a, i + 1) = NextLink(f, At(f, a, i))
    BY AtStep
  <2>2. At(g, a, i + 1) = NextLink(g, At(g, a, i))
    BY AtStep
  <2> QED  BY <1>2, <2>1, <2>2 DEF SameLinks
<1>3. \A i \in Nat : i \in T
  <2> HIDE DEF T
  <2> QED  BY <1>1, <1>2, Induct
<1> QED  BY <1>3

\* From the second cluster of a chain the rest of it is walked.
LEMMA ShiftedWalk ==
  ASSUME NEW f, NEW a
  PROVE  \A i \in Nat : At(f, a, i + 1) = At(f, NextLink(f, a), i)
<1> DEFINE T == {i \in Nat : At(f, a, i + 1) = At(f, NextLink(f, a), i)}
<1>1. 0 \in T
  BY AtStep
<1>2. ASSUME NEW i \in Nat, i \in T PROVE i + 1 \in T
  <2>1. i + 1 \in Nat
    OBVIOUS
  <2>2. At(f, a, (i + 1) + 1) = NextLink(f, At(f, a, i + 1))
    BY <2>1, AtStep
  <2>3. At(f, NextLink(f, a), i + 1) = NextLink(f, At(f, NextLink(f, a), i))
    BY AtStep
  <2> QED  BY <1>2, <2>2, <2>3
<1>3. \A i \in Nat : i \in T
  <2> HIDE DEF T
  <2> QED  BY <1>1, <1>2, Induct
<1> QED  BY <1>3

\* A chain of n clusters, and then its end; the chain of none starts with 0.
EndsAfter(f, a, n) ==
  /\ \A i \in 0 .. (n - 1) : At(f, a, i) \in Clusters
  /\ At(f, a, n) = IF n = 0 THEN 0 ELSE EOC

OneLinkEach(f) == \A x, y \in Clusters : f[x] = f[y] /\ f[x] \in Clusters => x = y
Unlinked(f, a) == \A x \in Clusters : f[x] # a

\* Where no two clusters have the same successor, chains whose heads nothing
\* links to do not meet, and none meets itself.
LEMMA WalksApart ==
  ASSUME NEW f, NEW a \in Clusters, NEW b \in Clusters, NEW n \in Nat, NEW m \in Nat,
         OneLinkEach(f), Unlinked(f, a), Unlinked(f, b),
         EndsAfter(f, a, n), EndsAfter(f, b, m),
         NEW k \in 0 .. (n - 1), NEW l \in 0 .. (m - 1), At(f, a, k) = At(f, b, l)
  PROVE  a = b /\ k = l
<1> DEFINE T == {i \in Nat : i < n => \A j \in 0 .. (m - 1) :
                               At(f, a, i) = At(f, b, j) => a = b /\ i = j}
<1>1. \A i \in Nat : i + 1 < n => /\ At(f, a, i) \in Clusters
                                  /\ At(f, a, i + 1) = f[At(f, a, i)]
                                  /\ At(f, a, i + 1) \in Clusters
  BY AtStep DEF NextLink, EndsAfter
<1>2. \A j \in Nat : j + 1 < m => /\ At(f, b, j) \in Clusters
                                  /\ At(f, b, j + 1) = f[At(f, b, j)]
  BY AtStep DEF NextLink, EndsAfter
<1>3. 0 \in T
  <2> SUFFICES ASSUME NEW j \in 0 .. (m - 1), At(f, a, 0) = At(f, b, j)
               PROVE  a = b /\ j = 0
    OBVIOUS
  <2>1. At(f, a, 0) = a /\ At(f, b, 0) = b
    BY AtStep
  <2>2. CASE j = 0
    BY <2>1, <2>2
  <2>3. CASE j # 0
    <3>1. j - 1 \in Nat /\ (j - 1) + 1 = j /\ j < m
      BY <2>3
    <3> QED  BY <1>2, <2>1, <3>1 DEF Unlinked
  <2> QED  BY <2>2, <2>3
<1>4. ASSUME NEW i \in Nat, i \in T PROVE i + 1 \in T
  <2> SUFFICES ASSUME i + 1 < n, NEW j \in 0 .. (m - 1), At(f, a, i + 1) = At(f, b, j)
               PROVE  a = b /\ i + 1 = j
    OBVIOUS
  <2>1. CASE j = 0
    BY <1>1, <2>1, AtStep DEF Unlinked
  <2>2. CASE j # 0
    <3>1. j - 1 \in 0 .. (m - 1) /\ j - 1 \in Nat /\ (j - 1) + 1 = j /\ j < m
      BY <2>2
    <3>2. At(f, a, i) = At(f, b, j - 1)
      BY <1>1, <1>2, <3>1 DEF OneLinkEach
    <3> QED  BY <1>4, <3>1, <3>2
  <2> QED  BY <2>1, <2>2
<1>5. \A i \in Nat : i \in T
  <2> HIDE DEF T
  <2> QED  BY <1>3, <1>4, Induct
<1> QED  BY <1>5

-----------------------------------------------------------------------------
\* Sectors and chains.

\* A quotient is known by the multiple below and the one above.
LEMMA Quotient ==
  ASSUME NEW a \in Nat, NEW d \in Nat \ {0}, NEW q \in Nat, q * d <= a, a < q * d + d
  PROVE  a \div d = q
<1> DEFINE r == a \div d
<1>1. r \in Nat /\ r * d <= a /\ a < r * d + d
  OBVIOUS
<1> HIDE DEF r
<1>2. \A m, n \in Nat : m < n => m * d + d <= n * d
  <2> SUFFICES ASSUME NEW m \in Nat, NEW n \in Nat, m < n PROVE m * d + d <= n * d
    OBVIOUS
  <2>1. PICK k \in Nat : n = (m + 1) + k
    <3>1. n - (m + 1) \in Nat
      OBVIOUS
    <3> QED BY <3>1
  <2>2. n * d = m * d + d + k * d
    BY <2>1
  <2>3. k * d >= 0
    OBVIOUS
  <2>4. m * d \in Nat /\ n * d \in Nat /\ k * d \in Nat
    OBVIOUS
  <2> QED  BY <2>2, <2>3, <2>4
<1>3. q * d \in Nat /\ r * d \in Nat
  BY <1>1
<1>4. ~(q < r) /\ ~(r < q)
  BY <1>1, <1>2, <1>3
<1> QED  BY <1>1, <1>4 DEF r

\* The sectors a length asks for, when it is a number of whole sectors or ends
\* inside the next one.
LEMMA WholeSectors ==
  ASSUME NEW k \in Nat
  PROVE  /\ SectorsFor(k * SectorSize) = k
         /\ \A len \in Nat : k * SectorSize < len /\ len <= k * SectorSize + SectorSize
                               => SectorsFor(len) = k + 1
<1>1. SectorSize \in Nat \ {0} /\ k * SectorSize \in Nat
  BY SizesAssumption
<1>2. SectorsFor(k * SectorSize) = k
  <2>1. k * SectorSize + SectorSize - 1 \in Nat
    BY <1>1
  <2> QED  BY <1>1, <2>1, Quotient DEF SectorsFor
<1>3. ASSUME NEW len \in Nat, k * SectorSize < len, len <= k * SectorSize + SectorSize
      PROVE  SectorsFor(len) = k + 1
  <2>1. (k + 1) * SectorSize = k * SectorSize + SectorSize
    BY <1>1
  <2>2. len + SectorSize - 1 \in Nat
    BY <1>1
  <2>3. /\ (k + 1) * SectorSize <= len + SectorSize - 1
        /\ len + SectorSize - 1 < (k + 1) * SectorSize + SectorSize
    BY <1>1, <1>3, <2>1
  <2>4. (len + SectorSize - 1) \div SectorSize = k + 1
    BY <1>1, <2>2, <2>3, Quotient
  <2> QED  BY <2>4 DEF SectorsFor
<1> QED  BY <1>2, <1>3

\* A chain none of whose links has changed is still one.
LEMMA ChainKept ==
  ASSUME NEW f, NEW g, NEW a, NEW n \in Nat, EndsAfter(f, a, n), SameLinks(f, g, a, n)
  PROVE  /\ EndsAfter(g, a, n)
         /\ \A i \in 0 .. n : At(g, a, i) = At(f, a, i)
<1>1. \A i \in 0 .. n : At(g, a, i) = At(f, a, i)
  BY SameWalk
<1> QED  BY <1>1 DEF EndsAfter

\* Linking a cluster that ends a chain to the last one makes the chain longer
\* by one.
LEMMA ChainGrown ==
  ASSUME NEW f, NEW g, NEW a, NEW n \in Nat, NEW m \in Nat, m = n - 1,
         NEW c \in Clusters, EndsAfter(f, a, n),
         SameLinks(f, g, a, m), g[At(f, a, m)] = c, g[c] = EOC
  PROVE  /\ EndsAfter(g, a, n + 1)
         /\ \A i \in 0 .. (n - 1) : At(g, a, i) = At(f, a, i)
         /\ At(g, a, n) = c
<1>2. n - 1 \in Nat
  OBVIOUS
<1>3. \A i \in 0 .. (n - 1) : At(g, a, i) = At(f, a, i)
  BY <1>2, SameWalk
<1>4. At(g, a, n) = c
  <2>1. At(g, a, (n - 1) + 1) = NextLink(g, At(g, a, n - 1))
    BY <1>2, AtStep
  <2>2. At(g, a, n - 1) = At(f, a, n - 1) /\ At(f, a, n - 1) \in Clusters
    BY <1>2, <1>3 DEF EndsAfter
  <2> QED  BY <2>1, <2>2 DEF NextLink
<1>5. At(g, a, n + 1) = EOC
  <2>1. At(g, a, n + 1) = NextLink(g, At(g, a, n))
    BY AtStep
  <2> QED  BY <1>4, <2>1 DEF NextLink
<1>6. \A i \in 0 .. n : At(g, a, i) \in Clusters
  BY <1>3, <1>4 DEF EndsAfter
<1> QED  BY <1>3, <1>4, <1>5, <1>6 DEF EndsAfter

\* The chain of one cluster.
LEMMA ChainOfOne ==
  ASSUME NEW f, NEW c \in Clusters, f[c] = EOC
  PROVE  EndsAfter(f, c, 1) /\ At(f, c, 0) = c
<1>1. At(f, c, 0) = c /\ At(f, c, 0 + 1) = NextLink(f, At(f, c, 0))
  BY AtStep
<1> QED  BY <1>1 DEF EndsAfter, NextLink

\* The chain of none.
LEMMA ChainOfNone ==
  ASSUME NEW f
  PROVE  EndsAfter(f, 0, 0)
BY AtStep DEF EndsAfter

\* What a chain passes through is linked to or is its head, and no cluster of
\* it is free.
LEMMA OnChain ==
  ASSUME NEW f, NEW a, NEW n \in Nat, EndsAfter(f, a, n), NEW k \in 0 .. (n - 1)
  PROVE  /\ At(f, a, k) \in Clusters
         /\ f[At(f, a, k)] # Free
         /\ \A c \in Clusters : c # a /\ Unlinked(f, c) => At(f, a, k) # c
<1>1. \A i \in 0 .. (n - 1) : At(f, a, i + 1) = f[At(f, a, i)]
  BY AtStep DEF NextLink, EndsAfter
<1>2. \A i \in 0 .. (n - 1) : i + 1 \in 0 .. n /\ (i + 1 = n \/ i + 1 \in 0 .. (n - 1))
  OBVIOUS
<1>3. \A i \in 0 .. (n - 1) : f[At(f, a, i)] # Free
  BY <1>1, <1>2, ClusterNumbers DEF EndsAfter
<1>4. ASSUME NEW c \in Clusters, c # a, Unlinked(f, c),
             NEW i \in 0 .. (n - 1)
      PROVE  At(f, a, i) # c
  <2>1. CASE i = 0
    BY <1>4, <2>1, AtStep
  <2>2. CASE i # 0
    <3>1. i - 1 \in 0 .. (n - 1) /\ (i - 1) + 1 = i
      BY <2>2
    <3> QED  BY <1>1, <1>4, <3>1 DEF EndsAfter, Unlinked
  <2> QED  BY <2>1, <2>2
<1> QED  BY <1>3, <1>4 DEF EndsAfter

\* The chain from a does not pass through c.
Avoids(f, a, n, c) == \A i \in 0 .. (n - 1) : At(f, a, i) # c

\* No chain passes through a free cluster, nor through one that nothing links
\* to unless it starts there.
LEMMA OffChain ==
  ASSUME NEW f, NEW a, NEW n \in Nat, EndsAfter(f, a, n), NEW c \in Clusters,
         f[c] = Free \/ (c # a /\ Unlinked(f, c))
  PROVE  Avoids(f, a, n, c)
BY OnChain DEF Avoids

\* Setting the entry of a cluster outside a chain changes no link of it.
LEMMA OtherLink ==
  ASSUME NEW S, NEW f \in [Clusters -> S], NEW a, NEW n \in Nat, NEW c, NEW v, Avoids(f, a, n, c)
  PROVE  SameLinks(f, [f EXCEPT ![c] = v], a, n)
BY DEF Avoids, SameLinks, NextLink

\* Only the chain of none starts at 0.
LEMMA HeadOfChain ==
  ASSUME NEW f, NEW a, NEW n \in Nat, EndsAfter(f, a, n)
  PROVE  /\ n = 0 <=> a = 0
         /\ n # 0 => a \in Clusters
<1>1. At(f, a, 0) = a
  BY AtStep
<1> QED  BY <1>1, ClusterNumbers DEF EndsAfter

-----------------------------------------------------------------------------
\* The invariant: what the chains are at each step of a call.

Building == pc \in {"alloc", "link", "data", "seal", "entry"}
Built == SectorsFor(done) + (IF pc = "data" THEN 1 ELSE 0)

\* The bytes already written are whole sectors until the last one is written.
Progress ==
  /\ pc \in {"alloc", "link", "data"} =>
       done = SectorsFor(done) * SectorSize /\ done < Len(job.data)
  /\ pc \in {"seal", "entry"} => done = Len(job.data)
  /\ pc \in {"idle", "free_old"} => done = 0

\* A file that is whole has the chain its size asks for.
FitsFiles ==
  \A s \in Slots : Whole(s) => EndsAfter(fat, dir[s].first, SectorsFor(dir[s].size))
\* So has the file being written, for what of it is written; prev (while the
\* data of a cluster is written: cluster) is the end of its chain.
FitsNew ==
  /\ Building => EndsAfter(fat, first, Built)
  /\ pc \in {"alloc", "link", "seal"} /\ Built # 0 => At(fat, first, Built - 1) = prev
  /\ pc = "data" => At(fat, first, Built - 1) = cluster
\* Nothing links to the head of a chain that is being freed.
HeadUnlinked ==
  pc = "free_old" /\ dir[victim].first \in Clusters => Unlinked(fat, dir[victim].first)

\* The invariant behind ChainsFitSizes.
Fit == Progress /\ (~torn => FitsFiles /\ FitsNew /\ HeadUnlinked)

\* No bytes, no sectors.
LEMMA NothingWritten == SectorsFor(0) = 0
<1>1. 0 * SectorSize = 0
  BY SizesAssumption
<1> QED  BY <1>1, WholeSectors

\* A FAT that stays tells no walk apart.
LEMMA SameFat ==
  ASSUME NEW f, NEW a, NEW n PROVE SameLinks(f, f, a, n)
BY DEF SameLinks

\* A step that leaves the entries of the whole files and the links of their
\* chains alone leaves them the chains they had.
LEMMA FilesKept ==
  ASSUME TypeOK, FitsFiles,
         \A s \in Slots : Whole(s)' =>
            /\ Whole(s) /\ dir'[s].first = dir[s].first /\ dir'[s].size = dir[s].size
            /\ SameLinks(fat, fat', dir[s].first, SectorsFor(dir[s].size))
  PROVE  FitsFiles'
<1> SUFFICES ASSUME NEW s \in Slots, Whole(s)'
             PROVE  EndsAfter(fat', dir'[s].first, SectorsFor(dir'[s].size))
  BY DEF FitsFiles
<1>1. EndsAfter(fat, dir[s].first, SectorsFor(dir[s].size))
        /\ SectorsFor(dir[s].size) \in Nat
  BY SectorsForType DEF FitsFiles, TypeOK, DirEntry
<1>2. SameLinks(fat, fat', dir[s].first, SectorsFor(dir[s].size))
  OBVIOUS
<1>3. EndsAfter(fat', dir[s].first, SectorsFor(dir[s].size))
  BY <1>1, <1>2, ChainKept
<1> QED  BY <1>3

\* A step that leaves the FAT alone, no call building a chain after it.
LEMMA SameFit ==
  ASSUME TypeOK, Fit, Progress', ~Building', pc' # "free_old", fat' = fat, ~torn' => ~torn,
         \A s \in Slots : Whole(s)' =>
            Whole(s) /\ dir'[s].first = dir[s].first /\ dir'[s].size = dir[s].size
  PROVE  Fit'
<1> SUFFICES ASSUME ~torn' PROVE FitsFiles' /\ FitsNew' /\ HeadUnlinked'
  BY DEF Fit
<1>1. FitsFiles'
  BY FilesKept, SameFat DEF Fit
<1>2. FitsNew' /\ HeadUnlinked'
  BY DEF FitsNew, HeadUnlinked, Building
<1> QED  BY <1>1, <1>2

\* A call begins: nothing on the disk has changed.
LEMMA BeginFit ==
  ASSUME TypeOK, Control, Chains, Fit, pc = "idle",
         NEW op, NEW n, NEW data \in Seq(Byte), BeginDelete(op, n, data)
  PROVE  Fit'
<1>1. UNCHANGED <<fat, dir, torn, first, done>> /\ done = 0 /\ first = 0 /\ job'.data = data
  BY DEF BeginDelete, disk, Fit, Progress, Control
<1>2. CASE Found(n)
  <2> DEFINE v == SlotOf(n)
  <2>1. v \in Slots /\ IsFile(v) /\ pc' = "free_old" /\ victim' = v
          /\ cluster' = dir[v].first
    BY <1>2, FoundSlot DEF BeginDelete, Matches
  <2> HIDE DEF v
  <2>2. Progress'
    BY <1>1, <2>1 DEF Progress
  <2>3. ~torn => FitsFiles'
    <3>1. \A s \in Slots : Whole(s)' => Whole(s)
      BY <1>1, <2>1 DEF Whole, IsFile, Tearing
    <3> QED  BY <1>1, <3>1, FilesKept, SameFat DEF Fit
  <2>4. FitsNew'
    BY <2>1 DEF FitsNew, Building
  <2>5. ~torn => HeadUnlinked'
    <3>1. v \in Owners
      BY <2>1 DEF Owners
    <3> QED  BY <1>1, <2>1, <3>1 DEF HeadUnlinked, Unlinked, Chains, NoSharing
  <2> QED  BY <1>1, <2>2, <2>3, <2>4, <2>5 DEF Fit
<1>3. CASE ~Found(n)
  <2>1. pc' = AfterDelete(data) /\ victim' = victim /\ cluster' = cluster
    BY <1>3 DEF BeginDelete
  <2>2. pc' \in {"alloc", "entry"} /\ (pc' = "alloc" => data # <<>>)
          /\ (pc' = "entry" => data = <<>>)
    BY <2>1 DEF AfterDelete
  <2>3. Progress'
    <3>1. data # <<>> => 0 < Len(data)
      OBVIOUS
    <3>2. data = <<>> => 0 = Len(data)
      OBVIOUS
    <3> QED  BY <1>1, <2>2, <3>1, <3>2, NothingWritten, SizesAssumption DEF Progress
  <2>4. ~torn => FitsFiles'
    <3>1. \A s \in Slots : Whole(s)' => Whole(s)
      BY <1>1 DEF Whole, IsFile, Tearing
    <3> QED  BY <1>1, <3>1, FilesKept, SameFat DEF Fit
  <2>5. FitsNew'
    <3>1. Built' = 0 /\ first' = 0
      BY <1>1, <2>2, NothingWritten DEF Built
    <3>2. EndsAfter(fat', first', Built')
      BY <3>1, ChainOfNone
    <3> QED  BY <2>2, <3>1, <3>2 DEF FitsNew
  <2>6. HeadUnlinked'
    BY <2>2 DEF HeadUnlinked
  <2> QED  BY <1>1, <2>3, <2>4, <2>5, <2>6 DEF Fit
<1> QED  BY <1>2, <1>3

\* How long the new chain is, is a number.
LEMMA BuiltType == TypeOK => SectorsFor(done) \in Nat /\ Built \in Nat
<1> SUFFICES ASSUME TypeOK PROVE SectorsFor(done) \in Nat /\ Built \in Nat
  OBVIOUS
<1>1. SectorsFor(done) \in Nat
  BY SectorsForType DEF TypeOK
<1> QED  BY <1>1 DEF Built

\* The chain under construction and the chain of an owner do not meet.
LEMMA NewChainApart ==
  ASSUME TypeOK, Chains, Fit, ~torn, pc \in {"link", "data"}, Built # 0, NEW s \in Owners
  PROVE  Avoids(fat, dir[s].first, SectorsFor(dir[s].size), At(fat, first, Built - 1))
<1> DEFINE a == dir[s].first
           n == SectorsFor(dir[s].size)
<1> SUFFICES ASSUME NEW i \in 0 .. (n - 1), At(fat, a, i) = At(fat, first, Built - 1)
             PROVE  FALSE
  BY DEF Avoids
<1>1. EndsAfter(fat, a, n) /\ n \in Nat
  BY SectorsForType DEF Owners, Whole, Tearing, Fit, FitsFiles, TypeOK, DirEntry
<1>2. Built \in Nat /\ EndsAfter(fat, first, Built) /\ Built - 1 \in 0 .. (Built - 1)
  BY BuiltType DEF Fit, FitsNew, Building
<1> HIDE DEF n
<1>3. a \in Clusters /\ first \in Clusters
  BY <1>1, <1>2, HeadOfChain
<1>4. Held(first)
  BY DEF Held
<1>5. OneLinkEach(fat) /\ Unlinked(fat, first) /\ a # first /\ Unlinked(fat, a)
  BY <1>3, <1>4 DEF Chains, NoSharing, OneLinkEach, Unlinked, HasLink, HasOwner
<1> HIDE DEF a
<1> QED  BY <1>1, <1>2, <1>3, <1>5, WalksApart

\* No step changes a link of an owner's chain.
LEMMA OwnersKeepLinks ==
  ASSUME TypeOK, Control, Chains, Fit, ~torn, FreeOne \/ Alloc \/ Link, NEW s \in Owners
  PROVE  SameLinks(fat, fat', dir[s].first, SectorsFor(dir[s].size))
<1> DEFINE a == dir[s].first
           n == SectorsFor(dir[s].size)
<1>1. EndsAfter(fat, a, n) /\ n \in Nat
  BY SectorsForType DEF Owners, Whole, Tearing, Fit, FitsFiles, TypeOK, DirEntry
<1> HIDE DEF n
<1>2. PICK c, v : c \in Clusters /\ fat' = [fat EXCEPT ![c] = v] /\ Avoids(fat, a, n, c)
  <2>1. CASE FreeOne
    <3>1. cluster \in Clusters /\ fat' = [fat EXCEPT ![cluster] = Free] /\ Held(cluster)
      BY <2>1 DEF FreeOne, FatSet, Held
    <3>2. Unlinked(fat, cluster) /\ a # cluster
      BY <3>1 DEF Chains, NoSharing, HasLink, HasOwner, Unlinked
    <3> QED  BY <1>1, <3>1, <3>2, OffChain
  <2>2. CASE Alloc
    <3>1. PICK c \in Clusters : fat[c] = Free /\ fat' = [fat EXCEPT ![c] = EOC]
      BY <2>2 DEF Alloc, FatSet, LowestFree
    <3> QED  BY <1>1, <3>1, OffChain
  <2>3. CASE Link
    <3>1. pc = "link" /\ prev \in Clusters /\ first # 0
            /\ fat' = [fat EXCEPT ![prev] = cluster]
      BY <2>3 DEF Link, FatSet, Control, TypeOK
    <3>2. Built \in Nat /\ EndsAfter(fat, first, Built)
            /\ (Built # 0 => At(fat, first, Built - 1) = prev)
      BY <3>1, BuiltType DEF Fit, FitsNew, Building
    <3>3. Built # 0
      BY <3>1, <3>2, HeadOfChain
    <3>4. Avoids(fat, a, n, prev)
      BY <3>1, <3>2, <3>3, NewChainApart DEF n
    <3> QED  BY <3>1, <3>4
  <2> QED  BY <2>1, <2>2, <2>3
<1>3. SameLinks(fat, fat', a, n)
  BY <1>1, <1>2, OtherLink DEF TypeOK
<1> QED  BY <1>3 DEF n

\* The cluster that is freed is on no chain of an owner, nor does anything
\* link to it.
LEMMA FreeOneFit ==
  ASSUME TypeOK, Control, Chains, Fit, FreeOne
  PROVE  Fit'
<1>1. /\ cluster \in Clusters /\ pc \in {"free_old", "free_new"} /\ pc' = pc
      /\ fat' = [fat EXCEPT ![cluster] = Free] /\ cluster' = fat[cluster]
      /\ UNCHANGED <<dir, victim, torn, done, job>>
  BY DEF FreeOne, FatSet
<1>2. Progress'
  BY <1>1 DEF Fit, Progress
<1> SUFFICES ASSUME ~torn PROVE FitsFiles' /\ HeadUnlinked'
  BY <1>1, <1>2 DEF Fit, FitsNew, Building
<1>3. Held(cluster)
  BY <1>1 DEF Held
<1>4. Unlinked(fat, cluster) /\ ~HasOwner(cluster)
  BY <1>1, <1>3 DEF Chains, NoSharing, HasLink, Unlinked
<1>5. ASSUME NEW s \in Slots, Whole(s)' PROVE s \in Owners /\ Whole(s)
  <2>1. CASE pc = "free_old" /\ s = victim
    <3>1. fat[cluster] = dir[victim].first
      BY <1>1, <1>5, <2>1 DEF Whole, Tearing, IsFile
    <3>2. cluster # dir[victim].first => FALSE
      <4> SUFFICES ASSUME cluster # dir[victim].first PROVE FALSE
        OBVIOUS
      <4>1. dir[victim].first \in Clusters \/ dir[victim].first = 0
        BY <2>1 DEF TypeOK, DirEntry
      <4>2. dir[victim].first \notin Clusters
        BY <1>1, <2>1, <3>1 DEF Fit, HeadUnlinked, Unlinked
      <4>3. fat[cluster] # Free
        BY <1>1, <1>3 DEF Chains, NoDangling
      <4> QED  BY <3>1, <4>1, <4>2, <4>3, ClusterNumbers
    <3> QED  BY <3>1, <3>2, <1>1, <1>4 DEF Unlinked
  <2>2. CASE ~(pc = "free_old" /\ s = victim)
    BY <1>1, <1>5, <2>2 DEF Whole, Tearing, Owners, IsFile
  <2> QED  BY <2>1, <2>2
<1>6. FitsFiles'
  <2>1. \A s \in Owners : SameLinks(fat, fat', dir[s].first, SectorsFor(dir[s].size))
    BY OwnersKeepLinks
  <2> QED  BY <1>1, <1>5, <2>1, FilesKept DEF Fit
<1>7. HeadUnlinked'
  BY <1>1, ClusterNumbers DEF Fit, HeadUnlinked, Unlinked, TypeOK
<1> QED  BY <1>6, <1>7

\* The entry goes: one chain less.
LEMMA EraseFit ==
  ASSUME TypeOK, Control, Fit, EraseEntry
  PROVE  Fit'
<1>1. /\ pc = "free_old" /\ first' = 0
      /\ dir' = [dir EXCEPT ![victim] = ErasedSlot] /\ UNCHANGED <<fat, torn>>
      /\ done' = 0
      /\ \/ pc' = "idle"
         \/ pc' = "alloc" /\ job' = job /\ job.data # <<>>
         \/ pc' = "entry" /\ job' = job /\ job.data = <<>>
  BY DEF EraseEntry, Return, AfterDelete, Control, Fit, Progress
<1>2. Progress'
  <2>1. job.data # <<>> => 0 < Len(job.data)
    BY DEF TypeOK
  <2>2. job.data = <<>> => 0 = Len(job.data)
    OBVIOUS
  <2> QED  BY <1>1, <2>1, <2>2, NothingWritten, SizesAssumption DEF Progress
<1>3. ~torn => FitsFiles'
  <2>1. \A s \in Slots : Whole(s)' => Whole(s) /\ dir'[s] = dir[s]
    BY <1>1 DEF Whole, Tearing, IsFile, TypeOK, ErasedSlot
  <2> QED  BY <1>1, <2>1, FilesKept, SameFat DEF Fit
<1>4. FitsNew'
  <2>1. pc' # "idle" => Built' = 0 /\ first' = 0
    BY <1>1, NothingWritten DEF Built
  <2>2. EndsAfter(fat', 0, 0)
    BY ChainOfNone
  <2> QED  BY <1>1, <2>1, <2>2 DEF FitsNew, Building
<1>5. HeadUnlinked'
  BY <1>1 DEF HeadUnlinked
<1> QED  BY <1>1, <1>2, <1>3, <1>4, <1>5 DEF Fit

\* The cluster that is allocated was free, so it was on no chain.
LEMMA AllocFit ==
  ASSUME TypeOK, Control, Chains, Fit, Alloc
  PROVE  Fit'
<1>1. PICK c \in Clusters :
        /\ fat[c] = Free /\ fat' = [fat EXCEPT ![c] = EOC]
        /\ cluster' = c /\ first' = IF first = 0 THEN c ELSE first
  BY DEF Alloc, FatSet, LowestFree
<1>2. /\ pc = "alloc"
      /\ \/ first = 0 /\ prev = 0 /\ pc' = "data"
         \/ first # 0 /\ prev # 0 /\ pc' = "link"
      /\ UNCHANGED <<dir, torn, done, job, prev, victim>>
  BY DEF Alloc, Control
<1>3. Progress'
  BY <1>2 DEF Fit, Progress
<1> SUFFICES ASSUME ~torn PROVE FitsFiles' /\ FitsNew'
  BY <1>2, <1>3 DEF Fit, HeadUnlinked
<1>4. FitsFiles'
  <2>1. \A s \in Slots : Whole(s)' => Whole(s) /\ s \in Owners
    BY <1>2 DEF Whole, Tearing, IsFile, Owners
  <2> QED  BY <1>2, <2>1, OwnersKeepLinks, FilesKept DEF Fit
<1>5. Built \in Nat /\ EndsAfter(fat, first, Built) /\ Built = SectorsFor(done)
      /\ (Built # 0 => At(fat, first, Built - 1) = prev)
  BY <1>2, BuiltType DEF Fit, FitsNew, Building, Built
<1>6. CASE first = 0
  <2>1. Built = 0 /\ pc' = "data" /\ Built' = 1 /\ first' = c
    BY <1>1, <1>2, <1>5, <1>6, HeadOfChain DEF Built
  <2>2. fat'[c] = EOC
    BY <1>1 DEF TypeOK
  <2>3. EndsAfter(fat', c, 1) /\ At(fat', c, 0) = c
    BY <2>2, ChainOfOne
  <2>4. FitsNew'
    BY <1>1, <2>1, <2>3 DEF FitsNew
  <2> QED  BY <1>4, <2>4
<1>7. CASE first # 0
  <2>1. pc' = "link" /\ Built' = Built /\ first' = first
    BY <1>1, <1>2, <1>5, <1>7 DEF Built
  <2>2. Avoids(fat, first, Built, c)
    BY <1>1, <1>5, OffChain
  <2>3. SameLinks(fat, fat', first, Built)
    BY <1>1, <1>5, <2>2, OtherLink DEF TypeOK
  <2>4. EndsAfter(fat', first, Built)
          /\ \A i \in 0 .. Built : At(fat', first, i) = At(fat, first, i)
    BY <1>5, <2>3, ChainKept
  <2>5. FitsNew'
    BY <1>2, <1>5, <2>1, <2>4 DEF FitsNew
  <2> QED  BY <1>4, <2>5
<1> QED  BY <1>6, <1>7

\* The new chain grows at its end, which is on no other chain.
LEMMA LinkFit ==
  ASSUME TypeOK, Control, Chains, Fit, Link
  PROVE  Fit'
<1>1. /\ prev \in Clusters /\ cluster \in Clusters /\ first \in Clusters
      /\ fat[prev] = EOC /\ fat[cluster] = EOC /\ prev # cluster
      /\ fat' = [fat EXCEPT ![prev] = cluster]
      /\ pc = "link" /\ pc' = "data"
      /\ UNCHANGED <<cluster, first, dir, torn, done, job, victim>>
  BY DEF Link, FatSet, Control, TypeOK, locals
<1>2. Progress'
  BY <1>1 DEF Fit, Progress
<1> SUFFICES ASSUME ~torn PROVE FitsFiles' /\ FitsNew'
  BY <1>1, <1>2 DEF Fit, HeadUnlinked
<1>3. Built \in Nat /\ EndsAfter(fat, first, Built) /\ Built = SectorsFor(done)
        /\ Built' = Built + 1
      /\ (Built # 0 => At(fat, first, Built - 1) = prev)
  BY <1>1, BuiltType DEF Fit, FitsNew, Building, Built
<1>4. Built # 0
  BY <1>1, <1>3, HeadOfChain, ClusterNumbers
<1>5. OneLinkEach(fat) /\ Unlinked(fat, first)
  <2>1. Held(first)
    BY <1>1 DEF Held
  <2> QED  BY <1>1, <2>1 DEF Chains, NoSharing, OneLinkEach, Unlinked, HasLink
<1>6. FitsFiles'
  <2>1. \A s \in Slots : Whole(s)' => Whole(s) /\ s \in Owners
    BY <1>1 DEF Whole, Tearing, IsFile, Owners
  <2> QED  BY <1>1, <2>1, OwnersKeepLinks, FilesKept DEF Fit
<1>7. FitsNew'
  <2>1. Avoids(fat, first, Built - 1, prev)
    <3> SUFFICES ASSUME NEW i \in 0 .. ((Built - 1) - 1), At(fat, first, i) = prev PROVE FALSE
      BY DEF Avoids
    <3>1. /\ i \in 0 .. (Built - 1) /\ Built - 1 \in 0 .. (Built - 1) /\ i # Built - 1
          /\ At(fat, first, i) = At(fat, first, Built - 1)
      BY <1>3, <1>4
    <3> QED  BY <1>1, <1>3, <1>5, <3>1, WalksApart
  <2>2. SameLinks(fat, fat', first, Built - 1)
    <3>1. Built - 1 \in Nat
      BY <1>3, <1>4
    <3> QED  BY <1>1, <2>1, <3>1, OtherLink DEF TypeOK
  <2>3. fat'[prev] = cluster /\ fat'[cluster] = EOC
    BY <1>1 DEF TypeOK
  <2>4. EndsAfter(fat', first, Built + 1) /\ At(fat', first, Built) = cluster
    <3>1. PICK m \in Nat : m = Built - 1
      BY <1>3, <1>4
    <3>2. SameLinks(fat, fat', first, m) /\ fat'[At(fat, first, m)] = cluster
      BY <1>3, <1>4, <2>2, <2>3, <3>1
    <3>3. cluster \in Clusters /\ Built \in Nat /\ EndsAfter(fat, first, Built)
      BY <1>1, <1>3
    <3>4. EndsAfter(fat', first, Built + 1) /\ At(fat', first, Built) = cluster
      BY <2>3, <3>1, <3>2, <3>3, ChainGrown
    <3> QED  BY <3>4
  <2>5. Built' - 1 = Built
    BY <1>3
  <2> QED  BY <1>1, <1>3, <2>4, <2>5 DEF FitsNew
<1> QED  BY <1>6, <1>7

\* One more sector is written, the last one perhaps not to its end.
LEMMA WriteDataFit ==
  ASSUME TypeOK, Control, Fit, WriteData
  PROVE  Fit'
<1>1. /\ pc = "data" /\ UNCHANGED <<fat, dir, job, victim, first, torn>> /\ prev' = cluster
      /\ \/ /\ Len(job.data) - done > SectorSize
            /\ done' = done + SectorSize /\ pc' = "alloc"
         \/ /\ ~(Len(job.data) - done > SectorSize)
            /\ done' = Len(job.data) /\ pc' = "seal"
  BY DEF WriteData, MoreToWrite
<1>2. /\ done \in Nat /\ Len(job.data) \in Nat /\ SectorSize \in Nat \ {0}
      /\ done < Len(job.data) /\ done = SectorsFor(done) * SectorSize
      /\ SectorsFor(done) \in Nat
  BY <1>1, SizesAssumption, BuiltType DEF TypeOK, Fit, Progress
<1>3. SectorsFor(done') = SectorsFor(done) + 1
  <2> DEFINE k == SectorsFor(done)
  <2>1. k \in Nat /\ done = k * SectorSize
    BY <1>2
  <2> HIDE DEF k
  <2>2. done' \in Nat /\ done < done' /\ done' <= done + SectorSize
    BY <1>1, <1>2
  <2>3. SectorsFor(done') = k + 1
    BY <2>1, <2>2, WholeSectors, Zenon
  <2> QED  BY <2>3 DEF k
<1>4. Progress'
  <2>1. pc' = "alloc" => done' = SectorsFor(done') * SectorSize /\ done' < Len(job'.data)
    <3> DEFINE k == SectorsFor(done)
    <3>1. k \in Nat /\ done = k * SectorSize /\ SectorsFor(done') = k + 1
      BY <1>2, <1>3
    <3> HIDE DEF k
    <3>2. (k + 1) * SectorSize = k * SectorSize + SectorSize
      BY <1>2, <3>1
    <3>3. pc' = "alloc" => done' = done + SectorSize /\ done' < Len(job'.data)
      BY <1>1, <1>2
    <3>4. done + SectorSize = (k + 1) * SectorSize
      BY <3>1, <3>2
    <3> QED  BY <3>1, <3>3, <3>4
  <2> QED  BY <1>1, <2>1 DEF Progress
<1>5. ~torn => FitsFiles'
  <2>1. \A s \in Slots : Whole(s)' => Whole(s)
    BY <1>1 DEF Whole, Tearing, IsFile
  <2> QED  BY <1>1, <2>1, FilesKept, SameFat DEF Fit
<1>6. ~torn => FitsNew'
  BY <1>1, <1>2, <1>3 DEF Fit, FitsNew, Building, Built
<1>7. HeadUnlinked'
  BY <1>1 DEF HeadUnlinked
<1> QED  BY <1>1, <1>4, <1>5, <1>6, <1>7 DEF Fit

\* The new entry has the chain that was built for it.
LEMMA CreateFit ==
  ASSUME TypeOK, Control, Fit, CreateEntry
  PROVE  Fit'
<1>1. PICK k \in Slots :
        ~IsFile(k) /\ dir' = [dir EXCEPT ![k] = FileEntry(job.name, first, Len(job.data))]
  BY DEF CreateEntry, FirstOpen
<1>2. /\ pc = "entry" /\ pc' = "idle" /\ done' = 0 /\ UNCHANGED <<fat, torn>>
  BY DEF CreateEntry, Return
<1>3. Progress'
  BY <1>2 DEF Progress
<1>4. ASSUME ~torn PROVE FitsFiles'
  <2>1. done = Len(job.data) /\ Built = SectorsFor(done) /\ EndsAfter(fat, first, Built)
    BY <1>2, <1>4, BuiltType DEF Fit, Progress, FitsNew, Building, Built
  <2> SUFFICES ASSUME NEW s \in Slots, Whole(s)'
               PROVE  EndsAfter(fat', dir'[s].first, SectorsFor(dir'[s].size))
    BY DEF FitsFiles
  <2>2. CASE s = k
    BY <1>1, <1>2, <2>1, <2>2 DEF FileEntry, TypeOK
  <2>3. CASE s # k
    <3>1. dir'[s] = dir[s] /\ Whole(s)
      BY <1>1, <1>2, <2>3 DEF TypeOK, Whole, Tearing, IsFile
    <3> QED  BY <1>2, <1>4, <3>1 DEF Fit, FitsFiles
  <2> QED  BY <2>2, <2>3
<1> QED  BY <1>2, <1>3, <1>4 DEF Fit, FitsNew, HeadUnlinked, Building

\* Every step keeps the invariant.
LEMMA FitStep ==
  TypeOK /\ Control /\ Chains /\ Fit /\ [Next]_vars => Fit'
<1> SUFFICES ASSUME TypeOK, Control, Chains, Fit, [Next]_vars PROVE Fit'
  OBVIOUS
<1>1. ASSUME NEW old \in FatName, NEW new \in FatName, Rename(old, new)
      PROVE  Fit'
  <2>1. /\ pc = "idle" /\ pc' = "idle" /\ UNCHANGED <<fat, torn, done, cluster, victim>>
    BY <1>1 DEF Rename, Refuse, disk, locals
  <2>2. \A s \in Slots : Whole(s)' =>
          Whole(s) /\ dir'[s].first = dir[s].first /\ dir'[s].size = dir[s].size
    <3>1. CASE MayRename(old, new)
      <4> DEFINE k == SlotOf(old)
      <4>1. k \in Slots /\ IsFile(k)
        BY <3>1, FoundSlot DEF Matches, MayRename
      <4>2. dir' = [dir EXCEPT ![k] = FileEntry(new, dir[k].first, dir[k].size)]
        BY <1>1, <3>1 DEF Rename
      <4> HIDE DEF k
      <4> QED  BY <2>1, <4>1, <4>2 DEF Whole, Tearing, IsFile, FileEntry, TypeOK
    <3>2. CASE ~MayRename(old, new)
      BY <1>1, <2>1, <3>2 DEF Rename, Refuse, disk, Whole, Tearing, IsFile
    <3> QED  BY <3>1, <3>2
  <2>3. Progress'
    BY <2>1 DEF Fit, Progress
  <2> QED  BY <2>1, <2>2, <2>3, SameFit DEF Building
<1>2. CASE \/ \E n \in FatName : Delete(n)
           \/ \E n \in FatName, data \in Texts : Write(n, data)
           \/ \E n \in FatName, text \in Texts : Append_(n, text)
           \/ \E src, dst \in FatName : Copy(src, dst)
  <2>1. \/ pc = "idle" /\ \E op, n, data : BeginDelete(op, n, data)
        \/ pc = "idle" /\ Refuse
    BY <1>2, Zenon DEF Delete, Write, Append_, Copy
  <2>2. job'.data \in Seq(Byte)
    BY <1>2, CallTyped DEF Call, TypeOK
  <2>3. \A op, n, data : BeginDelete(op, n, data) => data = job'.data
    BY DEF BeginDelete
  <2>4. CASE pc = "idle" /\ \E op, n, data : BeginDelete(op, n, data)
    BY <2>2, <2>3, <2>4, BeginFit
  <2>5. CASE pc = "idle" /\ Refuse
    <3>1. UNCHANGED <<fat, dir, pc, victim, cluster, done, torn, job>>
      BY <2>5 DEF Refuse, disk, locals
    <3>2. Progress'
      BY <2>5, <3>1 DEF Fit, Progress
    <3> QED  BY <2>5, <3>1, <3>2, SameFit DEF Building, Whole, Tearing, IsFile
  <2> QED  BY <2>1, <2>4, <2>5
<1>3. CASE WriteSecondFat \/ UNCHANGED vars
  <2>1. UNCHANGED <<fat, dir, pc, job, victim, cluster, first, prev, done, torn>>
    BY <1>3 DEF WriteSecondFat, vars, disk, locals
  <2>2. Progress'
    BY <2>1 DEF Fit, Progress
  <2>3. ~torn => FitsFiles'
    BY <2>1, FilesKept, SameFat DEF Fit, Whole, Tearing, IsFile
  <2>4. ~torn => FitsNew' /\ HeadUnlinked'
    BY <2>1 DEF Fit, FitsNew, HeadUnlinked, Building, Built
  <2> QED  BY <2>1, <2>2, <2>3, <2>4 DEF Fit
<1>4. CASE Seal
  <2>1. /\ pc = "seal" /\ pc' = "entry"
             /\ UNCHANGED <<dir, job, victim, cluster, first, done, torn>>
        /\ fat' = fat
    BY <1>4 DEF Seal, FatSet, locals, Control, TypeOK
  <2>2. Progress'
    BY <2>1 DEF Fit, Progress
  <2>3. ~torn => FitsFiles'
    BY <2>1, FilesKept, SameFat DEF Fit, Whole, Tearing, IsFile
  <2>4. ~torn => FitsNew'
    BY <2>1 DEF Fit, FitsNew, Building, Built
  <2> QED  BY <2>1, <2>2, <2>3, <2>4 DEF Fit, HeadUnlinked
<1>5. CASE AllocFull \/ CreateFull \/ GiveUp
  <2>1. /\ pc \in {"alloc", "entry", "free_new"} /\ UNCHANGED <<fat, dir, torn>>
        /\ \/ pc' = "idle" /\ done' = 0
           \/ pc' = "free_new"
    BY <1>5 DEF AllocFull, CreateFull, GiveUp, GiveBack, Return, disk
  <2>2. Progress'
    BY <2>1 DEF Progress
  <2> QED  BY <2>1, <2>2, SameFit DEF Building, Whole, Tearing, IsFile
<1>6. CASE Crash
  <2>1. /\ pc' = "idle" /\ done' = 0 /\ UNCHANGED <<fat, dir>> /\ torn' = (torn \/ Tearing)
    BY <1>6 DEF Crash, Return, disk
  <2>2. Progress'
    BY <2>1 DEF Progress
  <2>3. ~torn' => \A s \in Slots : Whole(s)' => Whole(s)
    BY <2>1 DEF Whole, IsFile
  <2>4. CASE torn'
    BY <2>2, <2>4 DEF Fit
  <2>5. CASE ~torn'
    BY <2>1, <2>2, <2>3, <2>5, SameFit DEF Building
  <2> QED  BY <2>4, <2>5
<1> QED
  BY <1>1, <1>2, <1>3, <1>4, <1>5, <1>6, FreeOneFit, EraseFit, AllocFit, LinkFit,
     WriteDataFit, CreateFit DEF Next, Call, Step

LEMMA FitAlways == Spec => []Fit
<1>1. Init => Fit
  BY DEF Init, Fit, Progress, FitsFiles, FitsNew, HeadUnlinked, Building, Whole, IsFile,
     UnusedSlot
<1> QED  BY <1>1, FitStep, ChainsAlways, Typed, PTL DEF Spec

\* Every file's chain has the sectors its size asks for and then ends, after
\* any sequence of calls, full disks and power losses outside the freeing of a
\* chain: fs_write allocates and links as often as it counts bytes.
THEOREM SizesAreChains == Spec => []ChainsFitSizes
<1>1. TypeOK /\ Fit => ChainsFitSizes
  <2> SUFFICES ASSUME TypeOK, Fit, ~torn, NEW s \in Owners
               PROVE  LET n == SectorsFor(dir[s].size)
                      IN  /\ \A i \in 0 .. (n - 1) : Chain(s)[i] \in Clusters
                          /\ Chain(s)[n] = IF n = 0 THEN 0 ELSE EOC
    BY DEF ChainsFitSizes
  <2> DEFINE n == SectorsFor(dir[s].size)
  <2>1. s \in Slots /\ Whole(s)
    BY DEF Owners, Whole, Tearing
  <2>2. n \in Nat /\ EndsAfter(fat, dir[s].first, n)
    BY <2>1, SectorsForType DEF Fit, FitsFiles, TypeOK, DirEntry
  <2>3. \A i \in 0 .. n : Chain(s)[i] = At(fat, dir[s].first, i)
    BY <2>2, WalkAt DEF Chain
  <2> QED  BY <2>2, <2>3 DEF EndsAfter
<1> QED  BY <1>1, FitAlways, Typed, PTL

-----------------------------------------------------------------------------
\* The bytes of the files.

\* Walks whose links agree are equal.
LEMMA SameChain ==
  ASSUME NEW f, NEW g, NEW a, NEW n \in Nat, SameLinks(f, g, a, n)
  PROVE  Walk(g, a, n) = Walk(f, a, n)
<1>1. \A i \in 0 .. n : Walk(g, a, n)[i] = Walk(f, a, n)[i]
  BY WalkAt, SameWalk
<1> DEFINE u == Walk(g, a, n)
           w == Walk(f, a, n)
<1>2. u = [i \in 0 .. n |-> IF i = 0 THEN a ELSE NextLink(g, u[i - 1])]
  BY WalkDefined
<1>3. w = [i \in 0 .. n |-> IF i = 0 THEN a ELSE NextLink(f, w[i - 1])]
  BY WalkDefined
<1>4. \A i \in 0 .. n : u[i] = w[i]
  BY <1>1
<1> HIDE DEF u, w
<1>5. u = [i \in 0 .. n |-> u[i]] /\ w = [i \in 0 .. n |-> w[i]]
  BY <1>2, <1>3
<1>6. u = w
  BY <1>4, <1>5
<1> QED  BY <1>6 DEF u, w

\* The sector a byte of a file lies in is one of those its size asks for.
LEMMA SectorOfByte ==
  ASSUME NEW len \in Nat, NEW j \in 1 .. len
  PROVE  (j - 1) \div SectorSize \in 0 .. (SectorsFor(len) - 1)
<1> DEFINE q == (j - 1) \div SectorSize
           n == SectorsFor(len)
<1>1. SectorSize \in Nat \ {0} /\ j - 1 \in Nat /\ len + SectorSize - 1 \in Nat
  BY SizesAssumption
<1>2. q \in Nat /\ q * SectorSize <= j - 1
  BY <1>1
<1>3. n \in Nat /\ len + SectorSize - 1 < n * SectorSize + SectorSize
  BY <1>1 DEF SectorsFor
<1> HIDE DEF q, n
<1>4. q * SectorSize < n * SectorSize
  BY <1>1, <1>2, <1>3
<1>5. ~(n <= q)
  BY <1>1, <1>2, <1>3, <1>4
<1> QED  BY <1>2, <1>3, <1>5 DEF q, n

\* SectorOf, of a data area given as a parameter.
Piece(d, c) == IF c \in Clusters /\ c <= LastOnDevice THEN d[c]
               ELSE [i \in 1 .. SectorSize |-> Junk]

\* A step that leaves the entry, the links and the sectors of a chain alone
\* leaves the bytes alone.
LEMMA SameBytes ==
  ASSUME TypeOK, NEW s \in Slots, IsFile(s), IsFile(s)',
         dir'[s].first = dir[s].first, dir'[s].size = dir[s].size,
         SameLinks(fat, fat', dir[s].first, SectorsFor(dir[s].size)),
         \A c : Avoids(fat, dir[s].first, SectorsFor(dir[s].size), c) \/ Piece(sectors', c) = Piece(sectors, c)
  PROVE  Contents'[s] = Contents[s]
<1> DEFINE a == dir[s].first
           size == dir[s].size
           n == SectorsFor(size)
           w == Walk(fat, a, n)
           len == AtMost(Cardinality({i \in 0 .. (n - 1) : w[i] < FirstEnd}) * SectorSize, size)
<1>1. size \in Nat /\ n \in Nat
  BY SectorsForType DEF TypeOK, DirEntry
<1>2. Chain(s) = w /\ Chain(s)' = w
  BY <1>1, SameChain DEF Chain
<1>3. \A j \in 1 .. len : j \in 1 .. size
  <2> DEFINE visited == {i \in 0 .. (n - 1) : w[i] < FirstEnd}
  <2>1. IsFiniteSet(0 .. (n - 1)) /\ visited \in SUBSET (0 .. (n - 1))
    BY <1>1, FS_Interval
  <2>2. Cardinality(visited) \in Nat
    BY <2>1, FS_Subset, FS_CardinalityType
  <2> HIDE DEF visited, size
  <2>3. len \in Nat /\ len <= size
    BY <1>1, <2>2, SizesAssumption DEF AtMost, visited
  <2> QED  BY <2>3, <1>1
<1> DEFINE q(j) == (j - 1) \div SectorSize
           r(j) == ((j - 1) % SectorSize) + 1
<1>4. \A j \in 1 .. len : q(j) \in 0 .. (n - 1)
  BY <1>1, <1>3, SectorOfByte
<1>5. \A j \in 1 .. len : Piece(sectors', w[q(j)]) = Piece(sectors, w[q(j)])
  <2> SUFFICES ASSUME NEW j \in 1 .. len PROVE Piece(sectors', w[q(j)]) = Piece(sectors, w[q(j)])
    OBVIOUS
  <2> HIDE DEF q, len
  <2>1. q(j) \in 0 .. (n - 1) /\ q(j) \in 0 .. n
    BY <1>1, <1>4
  <2>2. w[q(j)] = At(fat, a, q(j))
    BY <1>1, <2>1, WalkAt
  <2>3. ~Avoids(fat, a, n, w[q(j)])
    BY <2>1, <2>2 DEF Avoids
  <2> QED  BY <2>3
<1>6. Contents[s] = [j \in 1 .. len |-> Piece(sectors, w[q(j)])[r(j)]]
  BY <1>2 DEF Contents, Deliver, SectorOf, Piece
<1>7. Contents'[s] = [j \in 1 .. len |-> Piece(sectors', w[q(j)])[r(j)]]
  <2>1. Contents'[s] = Deliver(s, Chain(s), SectorsFor(dir[s].size))'
    BY DEF Contents
  <2> QED  BY <1>2, <2>1 DEF Deliver, SectorOf, Piece
<1> HIDE DEF len, w, q, r
<1> QED  BY <1>5, <1>6, <1>7

\* What a step keeps of an entry that owns its chain: everything but its name.
KeepsFile(s) ==
  /\ IsFile(s)' /\ dir'[s].first = dir[s].first /\ dir'[s].size = dir[s].size
  /\ SameLinks(fat, fat', dir[s].first, SectorsFor(dir[s].size))
  /\ \A c : Avoids(fat, dir[s].first, SectorsFor(dir[s].size), c)
              \/ Piece(sectors', c) = Piece(sectors, c)

\* Every step of every call keeps them.
LEMMA OwnersKept ==
  ASSUME TypeOK, Control, Chains, Fit, ~torn, [Next]_vars, NEW s \in Owners
  PROVE  KeepsFile(s)
<1>0. s \in Slots /\ IsFile(s)
  BY DEF Owners
<1>1. ASSUME UNCHANGED <<fat, dir, sectors>> PROVE KeepsFile(s)
  BY <1>0, <1>1, SameFat DEF KeepsFile, IsFile
<1>2. ASSUME NEW old \in FatName, NEW new \in FatName, Rename(old, new), MayRename(old, new)
      PROVE  KeepsFile(s)
  <2> DEFINE k == SlotOf(old)
  <2>1. k \in Slots /\ IsFile(k)
    BY <1>2, FoundSlot DEF Matches, MayRename
  <2>2. dir' = [dir EXCEPT ![k] = FileEntry(new, dir[k].first, dir[k].size)]
        /\ UNCHANGED <<fat, sectors>>
    BY <1>2 DEF Rename
  <2> HIDE DEF k
  <2> QED  BY <1>0, <2>1, <2>2, SameFat DEF KeepsFile, IsFile, FileEntry, TypeOK
<1>3. CASE EraseEntry
  <2>1. pc = "free_old" /\ dir' = [dir EXCEPT ![victim] = ErasedSlot]
          /\ UNCHANGED <<fat, sectors>>
    BY <1>3 DEF EraseEntry
  <2>2. dir'[s] = dir[s]
    BY <1>0, <2>1 DEF Owners, TypeOK
  <2> QED  BY <1>0, <2>1, <2>2, SameFat DEF KeepsFile, IsFile
<1>4. CASE CreateEntry
  <2>1. PICK k \in Slots : ~IsFile(k)
          /\ dir' = [dir EXCEPT ![k] = FileEntry(job.name, first, Len(job.data))]
    BY <1>4 DEF CreateEntry, FirstOpen
  <2>2. dir'[s] = dir[s] /\ UNCHANGED <<fat, sectors>>
    BY <1>0, <1>4, <2>1 DEF CreateEntry, TypeOK
  <2> QED  BY <1>0, <2>2, SameFat DEF KeepsFile, IsFile
<1>5. CASE FreeOne \/ Alloc \/ Link
  <2>1. UNCHANGED <<dir, sectors>>
    BY <1>5 DEF FreeOne, Alloc, Link
  <2> QED  BY <1>0, <1>5, <2>1, OwnersKeepLinks DEF KeepsFile, IsFile
<1>6. CASE WriteData
  <2>1. /\ pc = "data" /\ UNCHANGED <<fat, dir>> /\ cluster \in Clusters
        /\ \A c \in Clusters : c # cluster => sectors'[c] = sectors[c]
    BY <1>6 DEF WriteData, Target, Control, TypeOK
  <2>2. Built # 0 /\ At(fat, first, Built - 1) = cluster
    BY <2>1, BuiltType DEF Fit, FitsNew, Built
  <2>3. Avoids(fat, dir[s].first, SectorsFor(dir[s].size), cluster)
    BY <2>1, <2>2, NewChainApart
  <2>4. \A c : Avoids(fat, dir[s].first, SectorsFor(dir[s].size), c)
                 \/ Piece(sectors', c) = Piece(sectors, c)
    BY <2>1, <2>3 DEF Piece
  <2> QED  BY <1>0, <2>1, <2>4, SameFat DEF KeepsFile, IsFile
<1>7. CASE Seal
  BY <1>1, <1>7 DEF Seal, FatSet, Control, TypeOK
<1>8. ASSUME NEW old \in FatName, NEW new \in FatName, Rename(old, new), ~MayRename(old, new)
      PROVE  KeepsFile(s)
  BY <1>1, <1>8 DEF Rename, Refuse, disk
<1>9. CASE \/ \E n \in FatName : Delete(n)
           \/ \E n \in FatName, data \in Texts : Write(n, data)
           \/ \E n \in FatName, text \in Texts : Append_(n, text)
           \/ \E src, dst \in FatName : Copy(src, dst)
  <2>1. UNCHANGED disk
    BY <1>9, Zenon DEF Delete, Write, Append_, Copy, BeginDelete, Refuse
  <2> QED  BY <1>1, <2>1 DEF disk
<1>10. CASE WriteSecondFat \/ AllocFull \/ CreateFull \/ GiveUp \/ Crash \/ UNCHANGED vars
  BY <1>1, <1>10 DEF WriteSecondFat, AllocFull, CreateFull, GiveUp, Crash, vars, disk
<1> QED
  BY <1>2, <1>3, <1>4, <1>5, <1>6, <1>7, <1>8, <1>9, <1>10 DEF Next, Call, Step

\* No step of any call changes the bytes of a file other than the one it frees:
\* fs_write, fs_delete and fs_rename stay in their own clusters.
THEOREM OthersStayUntouched == Spec => OthersUntouched
<1> DEFINE Untouched == ~torn => \A s \in Owners :
                          IsFile(s)' /\ (Contents[s])' = Contents[s]
<1>1. TypeOK /\ Control /\ Chains /\ Fit /\ [Next]_vars => Untouched
  <2> SUFFICES ASSUME TypeOK, Control, Chains, Fit, [Next]_vars, ~torn, NEW s \in Owners
               PROVE  IsFile(s)' /\ (Contents[s])' = Contents[s]
    OBVIOUS
  <2>1. s \in Slots /\ IsFile(s) /\ KeepsFile(s)
    BY OwnersKept DEF Owners
  <2>2. Contents'[s] = Contents[s]
    BY <2>1, SameBytes DEF KeepsFile
  <2> QED  BY <2>1, <2>2 DEF KeepsFile
<1>2. Spec => [][Untouched]_vars
  BY <1>1, Typed, ChainsAlways, FitAlways, PTL DEF Spec
<1> QED  BY <1>2 DEF OthersUntouched

-----------------------------------------------------------------------------
\* The free space.

\* A walk that has left the clusters does not come back.
LEMMA WalkWithin ==
  ASSUME NEW f, NEW a, NEW i \in Nat, At(f, a, i) \in Clusters, NEW j \in 0 .. i
  PROVE  At(f, a, j) \in Clusters
<1> DEFINE T == {n \in Nat : At(f, a, n) \in Clusters => \A k \in 0 .. n : At(f, a, k) \in Clusters}
<1>1. 0 \in T
  OBVIOUS
<1>2. ASSUME NEW n \in Nat, n \in T PROVE n + 1 \in T
  <2>1. At(f, a, n + 1) = NextLink(f, At(f, a, n))
    BY AtStep
  <2>2. At(f, a, n + 1) \in Clusters => At(f, a, n) \in Clusters
    BY <2>1, ClusterNumbers DEF NextLink
  <2>3. \A k \in 0 .. (n + 1) : k = n + 1 \/ k \in 0 .. n
    OBVIOUS
  <2> QED  BY <1>2, <2>2, <2>3
<1>3. \A n \in Nat : n \in T
  <2> HIDE DEF T
  <2> QED  BY <1>1, <1>2, Induct
<1> QED  BY <1>3

\* No walk that starts elsewhere comes to a cluster that nothing links to.
LEMMA OffWalk ==
  ASSUME NEW f, NEW a, NEW i \in Nat, NEW c \in Clusters, c # a, Unlinked(f, c)
  PROVE  At(f, a, i) # c
<1> DEFINE T == {n \in Nat : At(f, a, n) # c}
<1>1. 0 \in T
  BY AtStep
<1>2. ASSUME NEW n \in Nat, n \in T PROVE n + 1 \in T
  <2>1. At(f, a, n + 1) = NextLink(f, At(f, a, n))
    BY AtStep
  <2>2. NextLink(f, At(f, a, n)) # c
    BY ClusterNumbers DEF NextLink, Unlinked
  <2> QED  BY <2>1, <2>2
<1>3. \A n \in Nat : n \in T
  <2> HIDE DEF T
  <2> QED  BY <1>1, <1>2, Induct
<1> QED  BY <1>3

\* Without a power loss every allocated cluster is on the chain of an entry or
\* on one that a local of the call in progress holds.
Root(c) == HasOwner(c) \/ Held(c)
Leads(f, a, c) == \E i \in Nat : At(f, a, i) = c
Reached ==
  crashes = 0 =>
    /\ ~torn
    /\ \A c \in Clusters :
         fat[c] # Free => \E a \in Clusters : Root(a) /\ Leads(fat, a, c)

\* A step that leaves the FAT alone and keeps the roots keeps it.
LEMMA SameReach ==
  ASSUME Reached, fat' = fat, torn' = torn, crashes' = crashes,
         \A a \in Clusters : Root(a) => Root(a)'
  PROVE  Reached'
BY DEF Reached, Leads

\* Setting the entry of a cluster that the walk does not pass changes nothing.
LEMMA LeadsElsewhere ==
  ASSUME NEW S, NEW f \in [Clusters -> S], NEW a, NEW c, NEW k \in Clusters, NEW v,
         k # a, Unlinked(f, k), Leads(f, a, c)
  PROVE  Leads([f EXCEPT ![k] = v], a, c)
<1>1. PICK i \in Nat : At(f, a, i) = c
  BY DEF Leads
<1>2. Avoids(f, a, i, k)
  BY OffWalk DEF Avoids
<1>3. SameLinks(f, [f EXCEPT ![k] = v], a, i)
  BY <1>2, OtherLink
<1>4. At([f EXCEPT ![k] = v], a, i) = At(f, a, i)
  BY <1>3, SameWalk
<1> QED  BY <1>1, <1>4 DEF Leads

\* When a call begins, the entry it deletes gives its root to the call.
LEMMA BeginReached ==
  ASSUME TypeOK, Control, Reached, pc = "idle",
         NEW op, NEW n, NEW data, BeginDelete(op, n, data)
  PROVE  Reached'
<1>1. UNCHANGED <<fat, dir, torn, crashes>>
  BY DEF BeginDelete, disk
<1>2. ASSUME NEW a \in Clusters, Root(a) PROVE Root(a)'
  <2>1. ~Held(a)
    BY DEF Held
  <2>2. PICK s \in Owners : dir[s].first = a
    BY <1>2, <2>1 DEF Root, HasOwner
  <2>3. CASE Found(n) /\ s = SlotOf(n)
    BY <2>2, <2>3 DEF BeginDelete, Root, Held
  <2>4. CASE ~(Found(n) /\ s = SlotOf(n))
    <3>1. s \in Owners'
      BY <1>1, <2>2, <2>4 DEF BeginDelete, Owners, IsFile, AfterDelete
    <3> QED  BY <1>1, <2>2, <3>1 DEF Root, HasOwner
  <2> QED  BY <2>3, <2>4
<1> QED  BY <1>1, <1>2, SameReach

\* The next cluster of the chain becomes the root.
LEMMA FreeOneReached ==
  ASSUME TypeOK, Chains, Reached, FreeOne
  PROVE  Reached'
<1>1. /\ cluster \in Clusters /\ pc \in {"free_old", "free_new"} /\ pc' = pc
      /\ fat' = [fat EXCEPT ![cluster] = Free] /\ cluster' = fat[cluster]
      /\ UNCHANGED <<dir, victim, torn, crashes>>
  BY DEF FreeOne, FatSet
<1> SUFFICES ASSUME crashes = 0, NEW c \in Clusters, fat'[c] # Free
             PROVE  \E a \in Clusters : Root(a)' /\ Leads(fat', a, c)
  BY <1>1 DEF Reached
<1>2. ~torn /\ c # cluster /\ fat[c] # Free
  BY <1>1 DEF Reached, TypeOK
<1>3. Held(cluster) /\ Unlinked(fat, cluster) /\ ~HasOwner(cluster)
  <2>1. Held(cluster)
    BY <1>1 DEF Held
  <2> QED  BY <1>1, <1>2, <2>1 DEF Chains, NoSharing, HasLink, Unlinked
<1>4. PICK a \in Clusters : Root(a) /\ Leads(fat, a, c)
  BY <1>2 DEF Reached
<1>5. CASE a # cluster
  <2>1. HasOwner(a)'
    BY <1>1, <1>4, <1>5 DEF Root, Held, HasOwner, Owners, IsFile
  <2> QED  BY <1>1, <1>3, <1>4, <1>5, <2>1, LeadsElsewhere DEF Root, TypeOK
<1>6. CASE a = cluster
  <2>0. PICK next : next = fat[cluster]
    OBVIOUS
  <2>1. PICK i \in Nat : At(fat, cluster, i) = c
    BY <1>4, <1>6 DEF Leads
  <2>2. i # 0
    BY <1>2, <2>1, AtStep
  <2>3. i - 1 \in Nat /\ (i - 1) + 1 = i
    BY <2>2
  <2>4. At(fat, next, i - 1) = c
    BY <1>1, <2>0, <2>1, <2>3, ShiftedWalk DEF NextLink
  <2>5. next \in Clusters
    <3>1. At(fat, next, 0) \in Clusters
      BY <2>3, <2>4, WalkWithin
    <3> QED  BY <3>1, AtStep
  <2>6. next # cluster /\ Leads(fat, next, c)
    BY <1>1, <1>3, <2>0, <2>3, <2>4 DEF Unlinked, Leads
  <2>7. Leads(fat', next, c)
    BY <1>1, <1>3, <2>6, LeadsElsewhere DEF TypeOK
  <2>8. Root(next)'
    BY <1>1, <2>0 DEF Root, Held
  <2> QED  BY <2>5, <2>7, <2>8
<1> QED  BY <1>5, <1>6

\* The new cluster is a root of its own until it is linked.
LEMMA AllocReached ==
  ASSUME TypeOK, Control, Chains, Reached, Alloc
  PROVE  Reached'
<1>1. PICK k \in Clusters :
        /\ fat[k] = Free /\ fat' = [fat EXCEPT ![k] = EOC]
        /\ cluster' = k /\ first' = IF first = 0 THEN k ELSE first
  BY DEF Alloc, FatSet, LowestFree
<1>2. /\ pc = "alloc"
      /\ \/ first = 0 /\ pc' = "data"
         \/ first # 0 /\ pc' = "link"
      /\ UNCHANGED <<dir, torn, crashes>>
  BY DEF Alloc, Control
<1> SUFFICES ASSUME crashes = 0, NEW c \in Clusters, fat'[c] # Free
             PROVE  \E a \in Clusters : Root(a)' /\ Leads(fat', a, c)
  BY <1>2 DEF Reached
<1>3. ~torn /\ Unlinked(fat, k) /\ ~Root(k)
  BY <1>1, <1>2 DEF Reached, Chains, NoDangling, HasLink, Unlinked, Root
<1>4. CASE c = k
  <2>1. Root(k)'
    BY <1>1, <1>2 DEF Root, Held
  <2>2. Leads(fat', k, k)
    BY AtStep DEF Leads
  <2> QED  BY <1>4, <2>1, <2>2
<1>5. CASE c # k
  <2>1. PICK a \in Clusters : Root(a) /\ Leads(fat, a, c)
    BY <1>1, <1>5 DEF Reached, TypeOK
  <2>2. a # k
    BY <1>3, <2>1
  <2>3. Leads(fat', a, c)
    BY <1>1, <1>3, <2>1, <2>2, LeadsElsewhere DEF TypeOK
  <2>4. Root(a)'
    BY <1>1, <1>2, <2>1, ClusterNumbers DEF Root, Held, HasOwner, Owners, IsFile
  <2> QED  BY <2>3, <2>4
<1> QED  BY <1>4, <1>5

\* Then it is led to from the head of the new chain.
LEMMA LinkReached ==
  ASSUME TypeOK, Control, Chains, Fit, Fit', Reached, Link
  PROVE  Reached'
<1>1. /\ prev \in Clusters /\ cluster \in Clusters /\ first \in Clusters
      /\ fat[prev] = EOC /\ fat[cluster] = EOC /\ prev # cluster
      /\ fat' = [fat EXCEPT ![prev] = cluster]
      /\ pc = "link" /\ pc' = "data"
      /\ UNCHANGED <<cluster, first, dir, torn, crashes, done>>
  BY DEF Link, FatSet, Control, TypeOK, locals
<1> SUFFICES ASSUME crashes = 0, NEW c \in Clusters, fat'[c] # Free
             PROVE  \E a \in Clusters : Root(a)' /\ Leads(fat', a, c)
  BY <1>1 DEF Reached
<1>2. ~torn /\ fat[c] # Free
  BY <1>1, ClusterNumbers DEF Reached, TypeOK
<1>3. PICK a \in Clusters : Root(a) /\ Leads(fat, a, c)
  BY <1>2 DEF Reached
<1>4. PICK i \in Nat : At(fat, a, i) = c
  BY <1>3 DEF Leads
<1>5. CASE a = cluster
  <2>1. i = 0
    <3> SUFFICES ASSUME i # 0 PROVE FALSE
      OBVIOUS
    <3>1. 1 \in 0 .. i /\ 0 + 1 = 1
      OBVIOUS
    <3>2. At(fat, cluster, 1) \in Clusters
      BY <1>4, <1>5, <3>1, WalkWithin
    <3>3. At(fat, cluster, 0 + 1) = NextLink(fat, At(fat, cluster, 0))
            /\ At(fat, cluster, 0) = cluster
      BY AtStep
    <3> QED  BY <1>1, <3>1, <3>2, <3>3, ClusterNumbers DEF NextLink
  <2>2. c = cluster
    BY <1>4, <1>5, <2>1, AtStep
  <2>3. Built' \in Nat /\ Built' # 0 /\ At(fat', first, Built' - 1) = cluster
    <3>1. SectorsFor(done) \in Nat /\ Built' = SectorsFor(done) + 1
      BY <1>1, BuiltType DEF Built
    <3> QED  BY <1>1, <1>2, <3>1 DEF Fit, FitsNew
  <2>4. Leads(fat', first, c)
    BY <2>2, <2>3 DEF Leads
  <2>5. Root(first)'
    BY <1>1 DEF Root, Held
  <2> QED  BY <1>1, <2>4, <2>5
<1>6. CASE a # cluster
  <2>1. Avoids(fat, a, i, prev)
    <3> SUFFICES ASSUME NEW j \in 0 .. (i - 1), At(fat, a, j) = prev PROVE FALSE
      BY DEF Avoids
    <3>1. j \in Nat /\ j + 1 \in 0 .. i
      OBVIOUS
    <3>2. At(fat, a, j + 1) \in Clusters
      BY <1>4, <3>1, WalkWithin
    <3>3. At(fat, a, j + 1) = NextLink(fat, At(fat, a, j))
      BY <3>1, AtStep
    <3> QED  BY <1>1, <3>2, <3>3, ClusterNumbers DEF NextLink
  <2>2. SameLinks(fat, fat', a, i)
    BY <1>1, <2>1, OtherLink DEF TypeOK
  <2>3. At(fat', a, i) = At(fat, a, i)
    BY <2>2, SameWalk
  <2>4. Leads(fat', a, c)
    BY <1>4, <2>3 DEF Leads
  <2>5. Root(a)'
    BY <1>1, <1>3, <1>6 DEF Root, Held, HasOwner, Owners, IsFile
  <2> QED  BY <2>4, <2>5
<1> QED  BY <1>5, <1>6

\* Every step keeps it.
LEMMA ReachedStep ==
  TypeOK /\ Control /\ Chains /\ Fit /\ Fit' /\ Reached /\ [Next]_vars => Reached'
<1> SUFFICES ASSUME TypeOK, Control, Chains, Fit, Fit', Reached, [Next]_vars PROVE Reached'
  OBVIOUS
<1>1. ASSUME NEW old \in FatName, NEW new \in FatName, Rename(old, new)
      PROVE  Reached'
  <2>1. /\ UNCHANGED <<fat, torn, crashes, pc, victim, cluster, first>>
        /\ \A s \in Slots : IsFile(s) => IsFile(s)' /\ dir'[s].first = dir[s].first
    <3>1. CASE MayRename(old, new)
      <4> DEFINE k == SlotOf(old)
      <4>1. k \in Slots /\ IsFile(k)
        BY <3>1, FoundSlot DEF Matches, MayRename
      <4>2. dir' = [dir EXCEPT ![k] = FileEntry(new, dir[k].first, dir[k].size)]
            /\ UNCHANGED <<fat, torn, crashes, pc, victim, cluster, first>>
        BY <1>1, <3>1 DEF Rename, locals
      <4> HIDE DEF k
      <4> QED  BY <4>1, <4>2 DEF IsFile, FileEntry, TypeOK
    <3>2. CASE ~MayRename(old, new)
      BY <1>1, <3>2 DEF Rename, Refuse, disk, locals, IsFile
    <3> QED  BY <3>1, <3>2
  <2>2. \A a \in Clusters : Root(a) => Root(a)'
    BY <2>1 DEF Root, HasOwner, Held, Owners
  <2> QED  BY <2>1, <2>2, SameReach
<1>2. CASE \/ \E n \in FatName : Delete(n)
           \/ \E n \in FatName, data \in Texts : Write(n, data)
           \/ \E n \in FatName, text \in Texts : Append_(n, text)
           \/ \E src, dst \in FatName : Copy(src, dst)
  <2>1. \/ pc = "idle" /\ \E op, n, data : BeginDelete(op, n, data)
        \/ Refuse
    BY <1>2, Zenon DEF Delete, Write, Append_, Copy
  <2>2. CASE Refuse
    <3>1. UNCHANGED <<fat, dir, torn, crashes, pc, victim, cluster, first>>
      BY <2>2 DEF Refuse, disk, locals
    <3> QED  BY <3>1, SameReach DEF Root, HasOwner, Held, Owners, IsFile
  <2> QED  BY <2>1, <2>2, BeginReached
<1>3. CASE EraseEntry
  <2>1. /\ pc = "free_old" /\ cluster \notin Clusters
        /\ dir' = [dir EXCEPT ![victim] = ErasedSlot] /\ UNCHANGED <<fat, torn, crashes>>
        /\ pc' # "free_old"
    BY <1>3 DEF EraseEntry, Return, AfterDelete
  <2>2. \A a \in Clusters : Root(a) => Root(a)'
    BY <2>1 DEF Root, HasOwner, Held, Owners, IsFile, TypeOK
  <2> QED  BY <2>1, <2>2, SameReach
<1>4. CASE CreateEntry
  <2>1. PICK k \in Slots :
          ~IsFile(k) /\ dir' = [dir EXCEPT ![k] = FileEntry(job.name, first, Len(job.data))]
    BY <1>4 DEF CreateEntry, FirstOpen
  <2>2. pc = "entry" /\ pc' = "idle" /\ UNCHANGED <<fat, torn, crashes>>
    BY <1>4 DEF CreateEntry, Return
  <2>3. /\ k \in Owners' /\ dir'[k].first = first
        /\ \A s \in Owners : s \in Owners' /\ dir'[s].first = dir[s].first
    BY <2>1, <2>2 DEF Owners, IsFile, FileEntry, TypeOK
  <2>4. \A a \in Clusters : Root(a) => Root(a)'
    BY <2>2, <2>3 DEF Root, HasOwner, Held
  <2> QED  BY <2>2, <2>4, SameReach
<1>5. CASE WriteSecondFat \/ WriteData \/ Seal \/ UNCHANGED vars
  <2>1. /\ UNCHANGED <<fat, dir, first, victim, torn, crashes>>
        /\ \/ UNCHANGED <<pc, cluster>>
           \/ pc \in {"data", "seal"} /\ pc' \in {"alloc", "seal", "entry"}
    BY <1>5 DEF WriteSecondFat, WriteData, Seal, FatSet, Control, TypeOK, vars, disk, locals
  <2>2. \A a \in Clusters : Root(a) => Root(a)'
    BY <2>1 DEF Root, HasOwner, Held, Owners, IsFile
  <2> QED  BY <2>1, <2>2, SameReach
<1>6. CASE AllocFull \/ CreateFull \/ GiveUp
  <2>1. /\ UNCHANGED <<fat, dir, torn, crashes>>
        /\ \/ pc \in {"alloc", "entry"} /\ first = 0 /\ pc' = "idle"
           \/ pc \in {"alloc", "entry"} /\ pc' = "free_new" /\ cluster' = first
           \/ pc = "free_new" /\ cluster \notin Clusters /\ pc' = "idle"
    BY <1>6 DEF AllocFull, CreateFull, GiveUp, GiveBack, Return, disk
  <2>2. \A a \in Clusters : Root(a) => Root(a)'
    BY <2>1, ClusterNumbers DEF Root, HasOwner, Held, Owners, IsFile
  <2> QED  BY <2>1, <2>2, SameReach
<1>7. CASE Crash
  BY <1>7 DEF Crash, Reached, TypeOK
<1> QED
  BY <1>1, <1>2, <1>3, <1>4, <1>5, <1>6, <1>7, FreeOneReached, AllocReached, LinkReached
     DEF Next, Call, Step

LEMMA ReachedAlways == Spec => []Reached
<1>1. Init => Reached
  BY DEF Init, Reached
<1> QED  BY <1>1, ReachedStep, FitAlways, ChainsAlways, Typed, PTL DEF Spec

\* A chain has fewer clusters than the FAT has entries.
LEMMA ShortChain ==
  ASSUME NEW f, NEW a \in Clusters, NEW n \in Nat, OneLinkEach(f), Unlinked(f, a),
         EndsAfter(f, a, n), NEW i \in 0 .. (n - 1)
  PROVE  i + 1 \in 1 .. MaxClusters
<1> DEFINE visit == [k \in 0 .. i |-> At(f, a, k)]
<1>1. visit \in [0 .. i -> Clusters]
  BY DEF EndsAfter
<1>2. IsInjective(visit)
  <2> SUFFICES ASSUME NEW k \in 0 .. i, NEW l \in 0 .. i, At(f, a, k) = At(f, a, l)
               PROVE  k = l
    BY DEF IsInjective
  <2>1. k \in 0 .. (n - 1) /\ l \in 0 .. (n - 1)
    OBVIOUS
  <2> QED  BY <2>1, WalksApart
<1> HIDE DEF visit
<1>3. visit \in Injection(0 .. i, Clusters)
  BY <1>1, <1>2 DEF Injection
<1>4. /\ IsFiniteSet(Clusters) /\ Cardinality(Clusters) <= MaxClusters
      /\ Cardinality(Clusters) \in Nat /\ MaxClusters \in Nat
  <2>1. 2 \in Int /\ MaxClusters - 1 \in Int /\ ~(2 > MaxClusters - 1)
          /\ MaxClusters \in Nat
    BY SizesAssumption DEF FirstEnd
  <2>2. IsFiniteSet(2 .. (MaxClusters - 1))
          /\ Cardinality(2 .. (MaxClusters - 1)) = (MaxClusters - 1) - 2 + 1
    BY <2>1, FS_Interval
  <2> QED  BY <2>1, <2>2 DEF Clusters
<1>5. Cardinality(0 .. i) = i + 1
  <2>1. 0 \in Int /\ i \in Int /\ i - 0 + 1 = i + 1 /\ ~(0 > i)
    OBVIOUS
  <2> QED  BY <2>1, FS_Interval
<1>6. Cardinality(0 .. i) <= Cardinality(Clusters)
  BY <1>3, <1>4, FS_Injection
<1> QED  BY <1>4, <1>5, <1>6

\* Between calls, and without a power loss, fs_free_space reports exactly the
\* clusters the sizes of the files leave over: failed writes cost no space.
THEOREM FreeSpaceStaysExact == Spec => []FreeSpaceExact
<1>1. TypeOK /\ Control /\ Chains /\ Fit /\ Reached => FreeSpaceExact
  <2> SUFFICES ASSUME TypeOK, Chains, Fit, Reached, crashes = 0, pc = "idle"
               PROVE  FreeSpace + SectorSize * Cardinality({p \in Slots \X (1 .. MaxClusters) :
                         IsFile(p[1]) /\ p[2] <= SectorsFor(dir[p[1]].size)})
                        = SectorSize * Cardinality(Clusters)
    BY DEF FreeSpaceExact
  <2> DEFINE size(s) == SectorsFor(dir[s].size)
             Pieces == {p \in Slots \X (1 .. MaxClusters) : IsFile(p[1])
               /\ p[2] <= size(p[1])}
             FreeOnes == {c \in Clusters : fat[c] = Free}
             Used == Clusters \ FreeOnes
             where == [p \in Pieces |-> At(fat, dir[p[1]].first, p[2] - 1)]
  <2>1. ~torn /\ \A s \in Slots : IsFile(s) <=> s \in Owners
    BY DEF Reached, Owners
  <2>2. \A s \in Owners : size(s) \in Nat /\ EndsAfter(fat, dir[s].first, size(s))
    BY <2>1, SectorsForType DEF Fit, FitsFiles, Whole, Tearing, Owners, TypeOK, DirEntry
  <2>3. \A s \in Owners : dir[s].first \in Clusters => Unlinked(fat, dir[s].first)
    BY <2>1 DEF Chains, NoSharing, Unlinked
  <2>4. OneLinkEach(fat)
    BY <2>1 DEF Chains, NoSharing, OneLinkEach
  <2>5. ASSUME NEW p \in Pieces
        PROVE  /\ p[1] \in Owners /\ p[2] \in Nat /\ p[2] - 1 \in 0 .. (size(p[1]) - 1)
               /\ dir[p[1]].first \in Clusters
               /\ At(fat, dir[p[1]].first, p[2] - 1) \in Used
    <3>1. p[1] \in Owners /\ p[2] \in 1 .. MaxClusters /\ p[2] <= size(p[1])
      BY <2>1
    <3>2. size(p[1]) \in Nat /\ EndsAfter(fat, dir[p[1]].first, size(p[1]))
      BY <2>2, <3>1
    <3> HIDE DEF size, Pieces
    <3>3. p[2] - 1 \in 0 .. (size(p[1]) - 1) /\ size(p[1]) # 0
      BY <3>1, <3>2
    <3>4. dir[p[1]].first \in Clusters
      BY <3>2, <3>3, HeadOfChain
    <3>5. At(fat, dir[p[1]].first, p[2] - 1) \in Used
      BY <3>2, <3>3, OnChain
    <3> QED  BY <3>1, <3>3, <3>4, <3>5
  <2>6. where \in [Pieces -> Used]
    BY <2>5
  <2>7. IsInjective(where)
    <3> SUFFICES ASSUME NEW p \in Pieces, NEW q \in Pieces, where[p] = where[q] PROVE p = q
      BY DEF IsInjective
    <3>1. At(fat, dir[p[1]].first, p[2] - 1) = At(fat, dir[q[1]].first, q[2] - 1)
      OBVIOUS
    <3>2. /\ p[1] \in Owners /\ p[2] \in Nat /\ p[2] - 1 \in 0 .. (size(p[1]) - 1)
          /\ dir[p[1]].first \in Clusters
      BY <2>5
    <3>3. /\ q[1] \in Owners /\ q[2] \in Nat /\ q[2] - 1 \in 0 .. (size(q[1]) - 1)
          /\ dir[q[1]].first \in Clusters
      BY <2>5
    <3>4. p = <<p[1], p[2]>> /\ q = <<q[1], q[2]>>
      OBVIOUS
    <3> HIDE DEF size, Pieces, where
    <3>5. dir[p[1]].first = dir[q[1]].first /\ p[2] - 1 = q[2] - 1
      BY <2>2, <2>3, <2>4, <3>1, <3>2, <3>3, WalksApart
    <3>6. p[1] = q[1]
      BY <2>1, <3>2, <3>3, <3>5 DEF Chains, NoSharing
    <3>7. p[2] = q[2]
      BY <3>2, <3>3, <3>5
    <3> QED  BY <3>4, <3>6, <3>7
  <2>8. ASSUME NEW c \in Used PROVE \E p \in Pieces : where[p] = c
    <3>1. PICK a \in Clusters : Root(a) /\ Leads(fat, a, c)
      BY DEF Reached
    <3>2. PICK s \in Owners : dir[s].first = a
      BY <3>1 DEF Root, Held, HasOwner
    <3>3. PICK i \in Nat : At(fat, a, i) = c
      BY <3>1 DEF Leads
    <3>4. size(s) \in Nat /\ EndsAfter(fat, a, size(s)) /\ Unlinked(fat, a) /\ s \in Slots
      BY <2>2, <2>3, <3>2 DEF Owners
    <3> HIDE DEF size
    <3>5. i \in 0 .. (size(s) - 1)
      <4> SUFFICES ASSUME size(s) <= i PROVE FALSE
        BY <3>4
      <4>1. size(s) \in 0 .. i
        BY <3>4
      <4>2. At(fat, a, size(s)) \in Clusters
        BY <3>3, <4>1, WalkWithin
      <4> QED  BY <3>4, <4>2, ClusterNumbers DEF EndsAfter
    <3>6. i + 1 \in 1 .. MaxClusters
      BY <2>4, <3>4, <3>5, ShortChain
    <3>7. <<s, i + 1>> \in Pieces
      BY <2>1, <3>2, <3>4, <3>5, <3>6
    <3>8. where[<<s, i + 1>>] = At(fat, dir[s].first, (i + 1) - 1)
      BY <3>7
    <3>9. (i + 1) - 1 = i
      OBVIOUS
    <3> HIDE DEF where, Pieces
    <3> QED  BY <3>2, <3>3, <3>7, <3>8, <3>9
  <2>9. where \in Bijection(Pieces, Used)
    <3> HIDE DEF where, Pieces, Used
    <3> QED  BY <2>6, <2>7, <2>8 DEF Bijection, Injection, Surjection
  <2>10. IsFiniteSet(Clusters) /\ Cardinality(Clusters) \in Nat
    BY SizesAssumption, FS_Interval, FS_CardinalityType DEF Clusters, FirstEnd
  <2>11. /\ IsFiniteSet(FreeOnes) /\ Cardinality(FreeOnes) \in Nat
         /\ IsFiniteSet(Used)
              /\ Cardinality(Used) = Cardinality(Clusters) - Cardinality(FreeOnes)
    <3>1. FreeOnes \in SUBSET Clusters /\ Clusters \cap FreeOnes = FreeOnes
      OBVIOUS
    <3> HIDE DEF FreeOnes
    <3>2. IsFiniteSet(FreeOnes) /\ Cardinality(FreeOnes) \in Nat
      BY <2>10, <3>1, FS_Subset, FS_CardinalityType
    <3>3. IsFiniteSet(Used)
            /\ Cardinality(Used) = Cardinality(Clusters) - Cardinality(Clusters \cap FreeOnes)
      BY <2>10, FS_Difference
    <3> QED  BY <3>1, <3>2, <3>3
  <2>12. Cardinality(Pieces) = Cardinality(Used)
    <3> HIDE DEF where, Pieces, Used
    <3>1. where \in Injection(Pieces, Used)
      BY <2>9 DEF Bijection
    <3>2. where \in Surjection(Pieces, Used)
      BY <2>9 DEF Bijection
    <3> QED  BY <2>11, <3>1, <3>2, FS_Injection
  <2>13. FreeSpace = Cardinality(FreeOnes) * SectorSize
    BY DEF FreeSpace
  <2> HIDE DEF Pieces, FreeOnes, Used
  <2>14. FreeSpace + SectorSize * Cardinality(Pieces) = SectorSize * Cardinality(Clusters)
    <3> DEFINE x == Cardinality(FreeOnes)
               y == Cardinality(Clusters)
    <3>1. x \in Nat /\ y \in Nat /\ SectorSize \in Nat
      BY <2>10, <2>11, SizesAssumption
    <3>2. Cardinality(Pieces) = y - x /\ FreeSpace = x * SectorSize
      BY <2>11, <2>12, <2>13
    <3> HIDE DEF x, y
    <3>3. x * SectorSize + SectorSize * (y - x) = SectorSize * y
      BY <3>1
    <3> QED  BY <3>2, <3>3 DEF y
  <2> QED  BY <2>14 DEF Pieces
<1> QED  BY <1>1, ReachedAlways, FitAlways, ChainsAlways, Typed, PTL

-----------------------------------------------------------------------------
\* The data written.

\* The end of the chain under construction lies on it once.
LEMMA EndApart ==
  ASSUME TypeOK, Chains, Fit, ~torn, pc \in {"link", "data"}, Built # 0,
         NEW m \in Nat, m = Built - 1
  PROVE  Avoids(fat, first, m, At(fat, first, m))
<1>1. Built \in Nat /\ EndsAfter(fat, first, Built)
  BY BuiltType DEF Fit, FitsNew, Building
<1>2. first \in Clusters
  BY <1>1, HeadOfChain
<1>3. OneLinkEach(fat) /\ Unlinked(fat, first)
  <2>1. Held(first)
    BY DEF Held
  <2> QED  BY <1>2, <2>1 DEF Chains, NoSharing, OneLinkEach, Unlinked, HasLink
<1> SUFFICES ASSUME NEW i \in 0 .. (m - 1), At(fat, first, i) = At(fat, first, m)
             PROVE  FALSE
  BY DEF Avoids
<1>4. i \in 0 .. (Built - 1) /\ m \in 0 .. (Built - 1) /\ i # m
  BY <1>1
<1> QED  BY <1>1, <1>2, <1>3, <1>4, WalksApart

\* The data of a sector, padded, and the invariant: what is written of the file
\* in the making is in the sectors of its chain.
PieceOf(data, i) == [k \in 1 .. SectorSize |->
                       IF i * SectorSize + k <= Len(data) THEN data[i * SectorSize + k] ELSE Zero]
Written ==
  Building => \A i \in 0 .. (SectorsFor(done) - 1) : sectors[At(fat, first, i)] = PieceOf(job.data, i)

\* A step that goes on with the same data, and does not touch what is written.
LEMMA WrittenKept ==
  ASSUME TypeOK, Written, Building, job' = job, done' = done, sectors' = sectors,
         \A i \in 0 .. (SectorsFor(done) - 1) : At(fat', first', i) = At(fat, first, i)
  PROVE  Written'
BY DEF Written

\* The cluster that is allocated holds nothing yet.
LEMMA AllocWritten ==
  ASSUME TypeOK, Control, Fit, ~torn, Written, Alloc
  PROVE  Written'
<1>1. PICK c \in Clusters :
        /\ fat[c] = Free /\ fat' = [fat EXCEPT ![c] = EOC]
        /\ first' = IF first = 0 THEN c ELSE first
  BY DEF Alloc, FatSet, LowestFree
<1>2. pc = "alloc" /\ UNCHANGED <<job, done, sectors>>
  BY DEF Alloc
<1>3. Built \in Nat /\ EndsAfter(fat, first, Built) /\ Built = SectorsFor(done)
        /\ fat \in [Clusters -> Clusters \cup {Free, EOC}]
  BY <1>2, BuiltType DEF Fit, FitsNew, Building, Built, TypeOK
<1>4. CASE first = 0
  <2>1. Built = 0
    BY <1>3, <1>4, HeadOfChain
  <2> QED  BY <1>2, <1>3, <2>1, WrittenKept DEF Building
<1>5. CASE first # 0
  <2>1. Avoids(fat, first, Built, c)
    BY <1>1, <1>3, OffChain
  <2>2. SameLinks(fat, fat', first, Built)
    BY <1>1, <1>3, <2>1, OtherLink
  <2>3. \A i \in 0 .. Built : At(fat', first, i) = At(fat, first, i)
    BY <1>3, <2>2, ChainKept
  <2>4. first' = first
    BY <1>1, <1>5
  <2>5. \A i \in 0 .. (Built - 1) : At(fat', first', i) = At(fat, first, i)
    BY <1>3, <2>3, <2>4
  <2> QED  BY <1>2, <1>3, <2>5, WrittenKept DEF Building
<1> QED  BY <1>4, <1>5

\* Linking it moves no sector of what is written.
LEMMA LinkWritten ==
  ASSUME TypeOK, Control, Chains, Fit, ~torn, Written, Link
  PROVE  Written'
<1>1. /\ pc = "link" /\ fat' = [fat EXCEPT ![prev] = cluster] /\ first # 0
      /\ UNCHANGED <<first, job, done, sectors>>
  BY DEF Link, FatSet, Control, locals
<1>2. Built \in Nat /\ EndsAfter(fat, first, Built) /\ Built = SectorsFor(done)
      /\ (Built # 0 => At(fat, first, Built - 1) = prev)
  BY <1>1, BuiltType DEF Fit, FitsNew, Building, Built
<1>3. Built # 0
  BY <1>1, <1>2, HeadOfChain
<1>4. PICK m \in Nat : m = Built - 1
  BY <1>2, <1>3
<1>5. At(fat, first, m) = prev
  BY <1>2, <1>3, <1>4
<1>6. Avoids(fat, first, m, prev)
  <2>1. Avoids(fat, first, m, At(fat, first, m))
    BY <1>1, <1>3, <1>4, EndApart
  <2> QED  BY <1>5, <2>1
<1>7. SameLinks(fat, fat', first, m)
  BY <1>1, <1>6, OtherLink DEF TypeOK
<1>8. \A i \in 0 .. m : At(fat', first, i) = At(fat, first, i)
  BY <1>7, SameWalk
<1> QED  BY <1>1, <1>2, <1>4, <1>8, WrittenKept DEF Building

\* Every cluster in use has its sector on the device.
UsedOnDevice == \A c \in Clusters : fat[c] # Free => c <= LastOnDevice

\* One more sector of the data is written, where the chain ends.
LEMMA WriteDataWritten ==
  ASSUME UsedOnDevice, TypeOK, Control, Chains, Fit, ~torn, Written, WriteData
  PROVE  Written'
<1>1. /\ pc = "data" /\ UNCHANGED <<fat, first, job>> /\ cluster \in Clusters
      /\ done' = done + SectorSize \/ done' = Len(job.data)
      /\ sectors' = [sectors EXCEPT ![cluster] = Chunk]
  <2>1. pc = "data" /\ cluster \in Clusters /\ fat[cluster] # Free
    BY ClusterNumbers DEF WriteData, Control
  <2>2. cluster <= LastOnDevice
    BY <2>1 DEF UsedOnDevice
  <2> QED  BY <2>1, <2>2 DEF WriteData, Target
<1> DEFINE k == SectorsFor(done)
<1>2. /\ k \in Nat /\ done = k * SectorSize /\ done < Len(job.data) /\ done \in Nat
      /\ Len(job.data) \in Nat /\ SectorSize \in Nat \ {0}
  BY <1>1, BuiltType, SizesAssumption DEF Fit, Progress, TypeOK
<1>3. Built = k + 1 /\ At(fat, first, k) = cluster
  BY <1>1, <1>2 DEF Built, Fit, FitsNew
<1>4. Avoids(fat, first, k, cluster)
  <2>1. Built # 0 /\ k = Built - 1
    BY <1>2, <1>3
  <2> QED  BY <1>1, <1>2, <1>3, <2>1, EndApart
<1>5. Chunk = PieceOf(job.data, k)
  BY <1>2 DEF Chunk, PieceOf
<1>6. EndsAfter(fat, first, k + 1)
  BY <1>1, <1>3 DEF Fit, FitsNew, Building
<1>7. SectorsFor(done') \in {k, k + 1}
  <2> HIDE DEF k
  <2>1. \/ done' = done + SectorSize /\ Len(job.data) - done > SectorSize
        \/ done' = Len(job.data) /\ ~(Len(job.data) - done > SectorSize)
    BY DEF WriteData, MoreToWrite
  <2>2. done' \in Nat /\ done < done' /\ done' <= done + SectorSize
    <3>1. done < Len(job.data) /\ done \in Nat /\ Len(job.data) \in Nat
            /\ SectorSize \in Nat \ {0}
      BY <1>2
    <3> QED  BY <2>1, <3>1
  <2>3. SectorsFor(done') = k + 1
    BY <1>2, <2>2, WholeSectors
  <2> QED  BY <2>3
<1> HIDE DEF k
<1>8. \A i \in 0 .. (k - 1) : sectors[At(fat, first, i)] = PieceOf(job.data, i)
  BY <1>1 DEF Written, Building, k
<1>9. ASSUME NEW i \in 0 .. k PROVE sectors'[At(fat, first, i)] = PieceOf(job.data, i)
  <2>1. CASE i = k
    BY <1>1, <1>3, <1>5, <2>1 DEF TypeOK
  <2>2. CASE i # k
    <3>1. i \in 0 .. (k - 1)
      BY <1>2, <2>2
    <3>2. At(fat, first, i) # cluster
      BY <1>4, <3>1 DEF Avoids
    <3>3. At(fat, first, i) \in Clusters
      BY <1>2, <1>6 DEF EndsAfter
    <3> QED  BY <1>1, <1>8, <3>1, <3>2, <3>3 DEF TypeOK
  <2> QED  BY <2>1, <2>2
<1>10. \A i \in 0 .. (SectorsFor(done') - 1) : i \in 0 .. k
  BY <1>2, <1>7
<1> QED  BY <1>1, <1>9, <1>10 DEF Written

-----------------------------------------------------------------------------
\* What the files hold.

\* The bytes of a file, when its chain fits its size and lies on the device.
HoldsBytes(s) ==
  Contents[s] = [j \in 1 .. dir[s].size |->
                   sectors[At(fat, dir[s].first, (j - 1) \div SectorSize)][((j - 1) % SectorSize) + 1]]
\* An entry has the chain its size asks for.
ChainFits(s) == EndsAfter(fat, dir[s].first, SectorsFor(dir[s].size))

\* No cluster has the number of an end of a chain.
LEMMA BelowFirstEnd == \A c \in Clusters : c < FirstEnd
<1>1. MaxClusters \in 4 .. FirstEnd
  BY SizesAssumption
<1>2. FirstEnd = 4088
  BY DEF FirstEnd
<1> SUFFICES ASSUME NEW c \in Clusters PROVE c < FirstEnd
  OBVIOUS
<1>3. c \in 2 .. (MaxClusters - 1)
  BY DEF Clusters
<1>4. MaxClusters \in Int /\ MaxClusters <= FirstEnd
  BY <1>1, <1>2
<1>5. c \in Int /\ c <= MaxClusters - 1
  BY <1>3, <1>4
<1> QED  BY <1>2, <1>4, <1>5

LEMMA FileHoldsBytes ==
  ASSUME UsedOnDevice, TypeOK, NEW s \in Slots, IsFile(s), ChainFits(s)
  PROVE  HoldsBytes(s)
<1> DEFINE a == dir[s].first
           size == dir[s].size
           n == SectorsFor(size)
           w == Walk(fat, a, n)
           visited == {i \in 0 .. (n - 1) : w[i] < FirstEnd}
           q(j) == (j - 1) \div SectorSize
           r(j) == ((j - 1) % SectorSize) + 1
<1>1. size \in Nat /\ n \in Nat /\ SectorSize \in Nat \ {0}
  BY SectorsForType, SizesAssumption DEF TypeOK, DirEntry
<1>2. \A i \in 0 .. n : w[i] = At(fat, a, i)
  BY <1>1, WalkAt
<1>3. \A i \in 0 .. (n - 1) : At(fat, a, i) \in Clusters
  BY DEF ChainFits, EndsAfter
<1>4. Cardinality(visited) = n
  <2> HIDE DEF w, n
  <2>0. n \in Nat
    BY <1>1
  <2>1. \A i \in 0 .. (n - 1) : w[i] < FirstEnd
    <3>1. \A c \in Clusters : c < FirstEnd
      BY BelowFirstEnd
    <3>2. \A i \in 0 .. (n - 1) : w[i] \in Clusters
      BY <2>0, <1>2, <1>3
    <3> QED  BY <3>1, <3>2
  <2>2. visited = 0 .. (n - 1)
    BY <2>1
  <2>3. 0 \in Int /\ n - 1 \in Int /\ (n - 1) - 0 + 1 = n
    BY <1>1
  <2>4. Cardinality(0 .. (n - 1)) = IF 0 > n - 1 THEN 0 ELSE (n - 1) - 0 + 1
    BY <2>3, FS_Interval
  <2>5. Cardinality(0 .. (n - 1)) = n
    BY <2>0, <2>4
  <2> QED  BY <2>2, <2>5
<1>5. AtMost(n * SectorSize, size) = size
  <2>1. n * SectorSize \in Nat /\ size <= n * SectorSize
    <3>1. size + SectorSize - 1 \in Nat
      BY <1>1
    <3>2. size + SectorSize - 1 < n * SectorSize + SectorSize
      BY <1>1, <3>1 DEF SectorsFor
    <3> HIDE DEF n, size
    <3>3. n * SectorSize \in Nat
      BY <1>1
    <3> QED  BY <1>1, <3>2, <3>3
  <2> HIDE DEF n, size
  <2> QED  BY <1>1, <2>1 DEF AtMost
<1>6. Contents[s] = [j \in 1 .. size |-> SectorOf(w[q(j)])[r(j)]]
  BY <1>4, <1>5 DEF Contents, Deliver, Chain
<1>7. ASSUME NEW j \in 1 .. size
      PROVE  SectorOf(w[q(j)]) = sectors[At(fat, a, q(j))]
  <2>1. q(j) \in 0 .. (n - 1)
    BY <1>1, SectorOfByte
  <2> HIDE DEF q, n, w
  <2>2. w[q(j)] = At(fat, a, q(j)) /\ At(fat, a, q(j)) \in Clusters
    BY <1>1, <1>2, <1>3, <2>1
  <2>3. fat[At(fat, a, q(j))] # Free
    <3>1. n \in Nat /\ q(j) \in Nat /\ q(j) + 1 \in 1 .. n /\ n # 0
      BY <1>1, <2>1
    <3>2. fat[At(fat, a, q(j))] = At(fat, a, q(j) + 1)
      BY <2>2, <3>1, AtStep DEF NextLink
    <3>3. At(fat, a, q(j) + 1) \in Clusters \cup {EOC}
      BY <3>1 DEF ChainFits, EndsAfter, n
    <3> QED  BY <3>2, <3>3, ClusterNumbers
  <2>4. At(fat, a, q(j)) <= LastOnDevice
    BY <2>2, <2>3 DEF UsedOnDevice
  <2> QED  BY <2>2, <2>4 DEF SectorOf
<1> HIDE DEF w, q, r
<1>8. Contents[s] = [j \in 1 .. size |-> sectors[At(fat, a, q(j))][r(j)]]
  BY <1>6, <1>7
<1> QED  BY <1>8 DEF HoldsBytes, q, r

\* fs_read follows the chain of a file of at most one sector.
LEMMA ShortRead ==
  ASSUME TypeOK, NEW s \in Slots, IsFile(s), ChainFits(s), dir[s].size <= SectorSize,
         NEW m \in Nat, dir[s].size <= m
  PROVE  ReadFile(s, m) = Contents[s]
<1> DEFINE a == dir[s].first
           size == dir[s].size
           n == SectorsFor(size)
           step(at, i) == IF i = 0 THEN a
                          ELSE IF at[i - 1] >= FirstEnd THEN at[i - 1] ELSE NextWord(at[i - 1])
           solves(at) == at = [i \in 0 .. n |-> step(at, i)]
<1>1. size \in Nat /\ n \in Nat /\ SectorSize \in Nat \ {0}
  BY SectorsForType, SizesAssumption DEF TypeOK, DirEntry
<1>2. n \in 0 .. 1
  BY <1>1 DEF SectorsFor
<1>3. AtMost(size, m) = size
  BY <1>1 DEF AtMost
<1> HIDE DEF n
<1>4. PICK u : u = [i \in 0 .. n |-> IF i = 0 THEN a
                                     ELSE IF a >= FirstEnd THEN a ELSE NextWord(a)]
  OBVIOUS
<1>5. solves(u)
  BY <1>2, <1>4
<1>6. PICK v : v = CHOOSE at : solves(at)
  OBVIOUS
<1>7. solves(v)
  BY <1>5, <1>6, Zenon
<1>8. v[0] = a
  BY <1>2, <1>7
<1>9. ReadFile(s, m) = Deliver(s, v, n)
  BY <1>3, <1>6 DEF ReadFile, n
<1>10. Walk(fat, a, n)[0] = a
  BY <1>2, WalkSteps
<1>11. PICK w : w = Walk(fat, a, n)
  OBVIOUS
<1>12. Contents[s] = Deliver(s, w, n)
  BY <1>11 DEF Contents, Chain, n
<1>13. \A i \in 0 .. (n - 1) : i = 0
  BY <1>2
<1>14. {i \in 0 .. (n - 1) : v[i] < FirstEnd} = {i \in 0 .. (n - 1) : w[i] < FirstEnd}
  BY <1>8, <1>10, <1>11, <1>13
<1>15. PICK len : len = AtMost(Cardinality({i \in 0 .. (n - 1) : w[i] < FirstEnd}) * SectorSize, size)
  OBVIOUS
<1>16. \A j \in 1 .. len : (j - 1) \div SectorSize = 0
  <2>1. len \in Nat /\ len <= size
    <3> DEFINE visited == {i \in 0 .. (n - 1) : w[i] < FirstEnd}
    <3>0. 0 \in Int /\ n - 1 \in Int
      BY <1>1
    <3>1. IsFiniteSet(0 .. (n - 1)) /\ visited \in SUBSET (0 .. (n - 1))
      BY <3>0, FS_Interval
    <3>2. Cardinality(visited) \in Nat
      BY <3>1, FS_Subset, FS_CardinalityType
    <3> HIDE DEF visited
    <3> QED  BY <1>1, <1>15, <3>2 DEF AtMost, visited
  <2> SUFFICES ASSUME NEW j \in 1 .. len PROVE (j - 1) \div SectorSize = 0
    OBVIOUS
  <2>2. j - 1 \in Nat /\ 0 * SectorSize <= j - 1 /\ j - 1 < 0 * SectorSize + SectorSize
    BY <1>1, <2>1
  <2> QED  BY <1>1, <2>2, Quotient
<1>17. Deliver(s, v, n) = [j \in 1 .. len |-> SectorOf(v[(j - 1) \div SectorSize])[((j - 1) % SectorSize) + 1]]
  BY <1>14, <1>15 DEF Deliver
<1>18. Deliver(s, w, n) = [j \in 1 .. len |-> SectorOf(w[(j - 1) \div SectorSize])[((j - 1) % SectorSize) + 1]]
  BY <1>15 DEF Deliver
<1>19. \A j \in 1 .. len : v[(j - 1) \div SectorSize] = w[(j - 1) \div SectorSize]
  BY <1>8, <1>10, <1>11, <1>16
<1>20. Deliver(s, v, n) = Deliver(s, w, n)
  BY <1>17, <1>18, <1>19
<1> QED  BY <1>9, <1>12, <1>20

-----------------------------------------------------------------------------
\* The store that the directory and the chains make up, and the call in progress.

StoreNow == [n \in {m \in FatName : HasFile(m)} |->
              Contents[CHOOSE s \in Slots : Whole(s) /\ dir[s].name = n]]
PendingNow == CASE job.op = "none"   -> [op |-> "none"]
               [] job.op = "delete" -> [op |-> "delete", name |-> job.name]
               [] job.op = "write"  -> job

\* Steps of the store, told of these.
LEMMA IsStutter ==
  ASSUME UNCHANGED <<StoreNow, PendingNow, result>>
  PROVE  UNCHANGED Store!svars
BY DEF Store!svars, StoreNow, PendingNow

LEMMA IsAccept ==
  ASSUME NEW call, PendingNow.op = "none", PendingNow' = call, result' = "none",
         StoreNow' = StoreNow
  PROVE  Store!Accept(call)
BY DEF Store!Accept, Store!Ready, StoreNow, PendingNow

LEMMA IsReject ==
  ASSUME PendingNow.op = "none", result' = "failed", UNCHANGED <<StoreNow, PendingNow>>
  PROVE  Store!Reject
BY DEF Store!Reject, Store!Ready, StoreNow, PendingNow

LEMMA IsDelete ==
  ASSUME NEW n,
         IF n \in DOMAIN StoreNow THEN Store!Accept([op |-> "delete", name |-> n]) ELSE Store!Reject
  PROVE  Store!Delete(n)
BY DEF Store!Delete, Store!Missing, StoreNow

LEMMA IsExtend ==
  ASSUME NEW n, NEW text,
         Store!Accept([op |-> "write", name |-> n,
                       data |-> IF n \in DOMAIN StoreNow THEN StoreNow[n] \o text ELSE text])
  PROVE  Store!Extend(n, text)
BY DEF Store!Extend, Store!WriteOf, Store!Missing, StoreNow

LEMMA IsCopy ==
  ASSUME NEW src, NEW dst,
         IF src \in DOMAIN StoreNow
         THEN Store!Accept([op |-> "write", name |-> dst, data |-> StoreNow[src]])
         ELSE Store!Reject
  PROVE  Store!Copy(src, dst)
BY DEF Store!Copy, Store!WriteOf, Store!Missing, StoreNow

LEMMA IsRename ==
  ASSUME NEW old, NEW new,
         IF old \in DOMAIN StoreNow /\ new \notin DOMAIN StoreNow
         THEN /\ PendingNow.op = "none" /\ result' = "ok" /\ PendingNow' = PendingNow
              /\ StoreNow' = [m \in (DOMAIN StoreNow \ {old}) \cup {new} |->
                                IF m = new THEN StoreNow[old] ELSE StoreNow[m]]
         ELSE Store!Reject
  PROVE  Store!Rename(old, new)
BY DEF Store!Rename, Store!Missing, Store!Ready, StoreNow, PendingNow

LEMMA IsDrop ==
  ASSUME PendingNow.op # "none", PendingNow.name \in DOMAIN StoreNow,
         StoreNow' = [m \in DOMAIN StoreNow \ {PendingNow.name} |-> StoreNow[m]],
         UNCHANGED <<PendingNow, result>>
  PROVE  Store!Drop
BY DEF Store!Drop, Store!Ready, Store!Missing, Store!Without, StoreNow, PendingNow

LEMMA IsDeleted ==
  ASSUME PendingNow.op = "delete",
         StoreNow' = [m \in DOMAIN StoreNow \ {PendingNow.name} |-> StoreNow[m]],
         PendingNow' = [op |-> "none"], result' = "ok"
  PROVE  Store!Deleted
BY DEF Store!Deleted, Store!Without, Store!Answer, Store!NoCall, StoreNow, PendingNow

LEMMA IsPut ==
  ASSUME PendingNow.op = "write", PendingNow.name \notin DOMAIN StoreNow,
         StoreNow' = [m \in DOMAIN StoreNow \cup {PendingNow.name} |->
                        IF m = PendingNow.name THEN PendingNow.data ELSE StoreNow[m]],
         PendingNow' = [op |-> "none"], result' = "ok"
  PROVE  Store!Put
BY DEF Store!Put, Store!Missing, Store!With, Store!Answer, Store!NoCall, StoreNow,
   PendingNow

LEMMA IsNoSpace ==
  ASSUME PendingNow.op = "write", PendingNow.name \notin DOMAIN StoreNow,
         StoreNow' = StoreNow, PendingNow' = [op |-> "none"], result' = "failed"
  PROVE  Store!NoSpace
BY DEF Store!NoSpace, Store!Missing, Store!Answer, Store!NoCall, StoreNow, PendingNow

LEMMA IsPowerLoss ==
  ASSUME PendingNow.op # "none", StoreNow' = StoreNow, PendingNow' = [op |-> "none"],
         result' = "none"
  PROVE  Store!PowerLoss
BY DEF Store!PowerLoss, Store!Ready, Store!Answer, Store!NoCall, StoreNow, PendingNow

-----------------------------------------------------------------------------
\* S is the store of the files whose names and texts N and C give, slot by slot.
IsStore(S, N, C) ==
  /\ S = [n \in DOMAIN S |-> S[n]]
  /\ DOMAIN S = {N[s] : s \in Slots} \ {NoName}
  /\ \A s \in Slots : N[s] # NoName => S[N[s]] = C[s]

\* How a store changes with them.
LEMMA SameStore ==
  ASSUME NEW S, NEW N, NEW C, NEW T, NEW M, NEW D, IsStore(S, N, C), IsStore(T, M, D),
         \A s \in Slots : M[s] = N[s] /\ (N[s] # NoName => D[s] = C[s])
  PROVE  T = S
<1>1. DOMAIN T = DOMAIN S
  BY DEF IsStore
<1>2. \A n \in DOMAIN S : T[n] = S[n]
  BY DEF IsStore
<1> QED  BY <1>1, <1>2 DEF IsStore

\* Nothing changes but at slot k, and no other slot has one of the names.
OthersAlike(k, used, N, C, M, D) ==
  \A s \in Slots \ {k} : M[s] = N[s] /\ N[s] \notin used /\ (N[s] # NoName => D[s] = C[s])
\* One file goes.
LEMMA LessOne ==
  ASSUME NEW S, NEW N, NEW C, NEW T, NEW M, NEW D, IsStore(S, N, C), IsStore(T, M, D),
         NEW k \in Slots, NEW n, n # NoName, M[k] = NoName, N[k] \in {n, NoName},
         OthersAlike(k, {n}, N, C, M, D)
  PROVE  T = [m \in DOMAIN S \ {n} |-> S[m]]
<1>1. DOMAIN T = DOMAIN S \ {n}
  BY DEF IsStore, OthersAlike
<1>2. \A m \in DOMAIN S \ {n} : T[m] = S[m]
  BY DEF IsStore, OthersAlike
<1> QED  BY <1>1, <1>2 DEF IsStore, OthersAlike

\* One file comes.
LEMMA OneMore ==
  ASSUME NEW S, NEW N, NEW C, NEW T, NEW M, NEW D, IsStore(S, N, C), IsStore(T, M, D),
         NEW k \in Slots, NEW n, n # NoName, M[k] = n, N[k] = NoName,
         OthersAlike(k, {n}, N, C, M, D)
  PROVE  /\ n \notin DOMAIN S
         /\ T = [m \in DOMAIN S \cup {n} |-> IF m = n THEN D[k] ELSE S[m]]
<1>1. DOMAIN T = DOMAIN S \cup {n} /\ n \notin DOMAIN S
  BY DEF IsStore, OthersAlike
<1>2. \A m \in DOMAIN S : T[m] = S[m]
  BY DEF IsStore, OthersAlike
<1>3. T[n] = D[k]
  BY DEF IsStore, OthersAlike
<1> QED  BY <1>1, <1>2, <1>3 DEF IsStore, OthersAlike

\* One file changes its name.
LEMMA OtherName ==
  ASSUME NEW S, NEW N, NEW C, NEW T, NEW M, NEW D, IsStore(S, N, C), IsStore(T, M, D),
         NEW k \in Slots, NEW old, NEW new, old # NoName, new # NoName, old # new,
         M[k] = new, N[k] = old, D[k] = C[k],
         OthersAlike(k, {old, new}, N, C, M, D)
  PROVE  T = [m \in (DOMAIN S \ {old}) \cup {new} |-> IF m = new THEN S[old] ELSE S[m]]
<1>1. DOMAIN T = (DOMAIN S \ {old}) \cup {new} /\ new \notin DOMAIN S
  BY DEF IsStore, OthersAlike
<1>2. \A m \in DOMAIN S \ {old} : T[m] = S[m]
  BY DEF IsStore, OthersAlike
<1>3. T[new] = S[old]
  BY DEF IsStore, OthersAlike
<1> QED  BY <1>1, <1>2, <1>3 DEF IsStore, OthersAlike

\* The names of the slots that hold a file which is still whole.
Named == [s \in Slots |-> IF Whole(s) THEN dir[s].name ELSE NoName]
\* Files have names that make_fat_name yields.
NamesInUse == \A s \in Slots : IsFile(s) => dir[s].name \in FatName

\* The store of the refinement is that of the files.
LEMMA StoreFits ==
  ASSUME UniqueNames, NamesInUse
  PROVE  IsStore(StoreNow, Named, Contents)
<1>1. \A s \in Slots : Whole(s) => IsFile(s) /\ dir[s].name \in FatName
        /\ dir[s].name # NoName
  BY NamesAssumption DEF Whole, NamesInUse
<1>2. DOMAIN StoreNow = {Named[s] : s \in Slots} \ {NoName}
  BY <1>1, NamesAssumption DEF StoreNow, Named, HasFile
<1>3. ASSUME NEW s \in Slots, Named[s] # NoName
      PROVE  StoreNow[Named[s]] = Contents[s]
  <2>1. Whole(s) /\ Named[s] = dir[s].name /\ dir[s].name \in FatName
    BY <1>1, <1>3 DEF Named
  <2>2. PICK t : t = CHOOSE u \in Slots : Whole(u) /\ dir[u].name = dir[s].name
    OBVIOUS
  <2>3. t \in Slots /\ Whole(t) /\ dir[t].name = dir[s].name
    BY <2>1, <2>2, Zenon
  <2>4. t = s
    BY <1>1, <2>1, <2>3 DEF UniqueNames
  <2>5. HasFile(dir[s].name)
    BY <2>1 DEF HasFile
  <2> QED  BY <2>1, <2>2, <2>4, <2>5 DEF StoreNow
<1>4. StoreNow = [n \in DOMAIN StoreNow |-> StoreNow[n]]
  BY DEF StoreNow
<1> QED  BY <1>2, <1>3, <1>4 DEF IsStore

-----------------------------------------------------------------------------
\* The call in progress, as its caller asked for it.
Jobs ==
  /\ ~torn
  /\ pc = "idle" <=> job.op = "none"
  /\ pc \notin {"idle", "free_old"} => job.op = "write"
  /\ NamesInUse
  /\ pc = "free_new" => \A s \in Slots : IsFile(s) => dir[s].name # job.name

\* A call begins.
LEMMA BeginJobs ==
  ASSUME Control, Jobs, NEW op \in {"delete", "write"}, NEW n \in FatName, NEW data,
         op = "delete" => Found(n), BeginDelete(op, n, data)
  PROVE  Jobs'
<1>1. /\ job' = [op |-> op, name |-> n, data |-> data] /\ UNCHANGED <<dir, torn>>
      /\ \/ pc' = "free_old"
         \/ pc' \in {"alloc", "entry"} /\ ~Found(n)
  BY DEF BeginDelete, disk, AfterDelete
<1> QED  BY <1>1 DEF Jobs, NamesInUse, IsFile

\* A call that answers.
LEMMA ReturnJobs ==
  ASSUME Jobs, torn' = torn, pc' = "idle", job' = NoJob,
         \A s \in Slots : IsFile(s)' => dir'[s].name \in FatName
  PROVE  Jobs'
BY DEF Jobs, NamesInUse, NoJob

\* Every step keeps it.
LEMMA JobsStep ==
  ASSUME ~TornDeletes, TypeOK, Control, Directory, Jobs, [Next]_vars
  PROVE  Jobs'
<1>1. ASSUME Refuse PROVE Jobs'
  BY <1>1 DEF Refuse, disk, Jobs, NamesInUse, IsFile
<1>2. ASSUME NEW n \in FatName, Delete(n) PROVE Jobs'
  BY <1>1, <1>2, BeginJobs DEF Delete
<1>3. ASSUME NEW n \in FatName, NEW data \in Texts, Write(n, data) PROVE Jobs'
  BY <1>3, BeginJobs DEF Write
<1>4. ASSUME NEW n \in FatName, NEW text \in Texts, Append_(n, text) PROVE Jobs'
  <2>1. Refuse \/ \E data : BeginDelete("write", n, data)
    BY <1>4, Zenon DEF Append_
  <2> QED  BY <1>1, <2>1, BeginJobs
<1>5. ASSUME NEW src \in FatName, NEW dst \in FatName, Copy(src, dst) PROVE Jobs'
  <2>1. Refuse \/ \E data : BeginDelete("write", dst, data)
    BY <1>5, Zenon DEF Copy
  <2> QED  BY <1>1, <2>1, BeginJobs
<1>6. ASSUME NEW old \in FatName, NEW new \in FatName, Rename(old, new) PROVE Jobs'
  <2>1. CASE MayRename(old, new)
    <3> DEFINE k == SlotOf(old)
    <3>1. k \in Slots /\ IsFile(k)
      BY <2>1, FoundSlot DEF Matches, MayRename
    <3>2. /\ pc = "idle" /\ UNCHANGED <<pc, job, torn>>
          /\ dir' = [dir EXCEPT ![k] = FileEntry(new, dir[k].first, dir[k].size)]
      BY <1>6, <2>1 DEF Rename
    <3> HIDE DEF k
    <3>3. NamesInUse'
      BY <3>1, <3>2 DEF Jobs, NamesInUse, IsFile, FileEntry, TypeOK
    <3> QED  BY <3>2, <3>3 DEF Jobs
  <2>2. CASE ~MayRename(old, new)
    BY <1>1, <1>6, <2>2 DEF Rename
  <2> QED  BY <2>1, <2>2
<1>7. CASE WriteSecondFat \/ FreeOne
  BY <1>7 DEF WriteSecondFat, FreeOne, Jobs, NamesInUse, IsFile
<1>8. CASE EraseEntry
  <2>1. /\ dir' = [dir EXCEPT ![victim] = ErasedSlot] /\ torn' = torn /\ pc = "free_old"
        /\ \/ pc' = "idle" /\ job' = NoJob
           \/ pc' \in {"alloc", "entry"} /\ job' = job /\ job.op # "delete"
    BY <1>8 DEF EraseEntry, Return, AfterDelete
  <2>2. NamesInUse'
    BY <2>1 DEF Jobs, NamesInUse, IsFile, TypeOK, ErasedSlot
  <2>3. job.op # "delete" => job.op = "write"
    BY <2>1 DEF Jobs, TypeOK
  <2> QED  BY <2>1, <2>2, <2>3 DEF Jobs, NoJob
<1>9. CASE Alloc \/ Link \/ WriteData \/ Seal
  <2>1. /\ UNCHANGED <<dir, job, torn>> /\ pc \in {"alloc", "link", "data", "seal"}
        /\ pc' \in {"alloc", "link", "data", "seal", "entry"}
    BY <1>9 DEF Alloc, Link, WriteData, Seal
  <2> QED  BY <2>1 DEF Jobs, NamesInUse, IsFile
<1>10. CASE AllocFull \/ CreateFull
  <2>1. /\ UNCHANGED <<dir, torn>> /\ pc \in {"alloc", "entry"}
        /\ \/ pc' = "idle" /\ job' = NoJob
           \/ pc' = "free_new" /\ job' = job
    BY <1>10 DEF AllocFull, CreateFull, GiveBack, Return, disk
  <2> QED  BY <2>1 DEF Jobs, NamesInUse, IsFile, NoJob, Directory, NameIsFree
<1>11. CASE CreateEntry
  <2>1. PICK k \in Slots : dir' = [dir EXCEPT ![k] = FileEntry(job.name, first, Len(job.data))]
    BY <1>11 DEF CreateEntry
  <2>2. pc = "entry" /\ torn' = torn /\ pc' = "idle" /\ job' = NoJob
    BY <1>11 DEF CreateEntry, Return
  <2>3. job.name \in FatName
    BY <2>2 DEF Control
  <2>4. NamesInUse'
    BY <2>1, <2>3 DEF Jobs, NamesInUse, IsFile, FileEntry, TypeOK
  <2> QED  BY <2>2, <2>4 DEF Jobs, NoJob
<1>12. CASE GiveUp \/ Crash
  <2>1. /\ dir' = dir /\ pc' = "idle" /\ job' = NoJob /\ torn' = torn
    BY <1>12 DEF GiveUp, Crash, Return, disk, Jobs, TypeOK
  <2> QED  BY <2>1, ReturnJobs DEF Jobs, NamesInUse, IsFile
<1>13. CASE UNCHANGED vars
  BY <1>13 DEF vars, disk, Jobs, NamesInUse, IsFile
<1> QED
  BY <1>2, <1>3, <1>4, <1>5, <1>6, <1>7, <1>8, <1>9, <1>10, <1>11, <1>12, <1>13
     DEF Next, Call, Step

\* The data written so far stays what it should be.
LEMMA WrittenStep ==
  ASSUME UsedOnDevice, TypeOK, Control, Chains, Fit, Fit', ~torn, Written, [Next]_vars
  PROVE  Written'
<1>1. ASSUME ~Building' \/ done' = 0 PROVE Written'
  BY <1>1, NothingWritten DEF Written
<1>2. ASSUME UNCHANGED <<fat, first, done, job, sectors>>, Building' => Building PROVE Written'
  BY <1>2 DEF Written
<1>3. CASE Call
  <2>1. CASE \E old, new \in FatName : Rename(old, new)
    BY <1>1, <2>1 DEF Rename, Refuse, Building, locals
  <2>2. CASE \/ \E n \in FatName : Delete(n)
             \/ \E n \in FatName, data \in Texts : Write(n, data)
             \/ \E n \in FatName, text \in Texts : Append_(n, text)
             \/ \E src, dst \in FatName : Copy(src, dst)
    <3>1. pc = "idle" /\ (Refuse \/ \E op, n, data : BeginDelete(op, n, data))
      BY <2>2, Zenon DEF Delete, Write, Append_, Copy
    <3>2. done = 0
      BY <3>1 DEF Fit, Progress
    <3>3. done' = done
      BY <3>1 DEF Refuse, BeginDelete, locals
    <3> QED  BY <1>1, <3>2, <3>3
  <2> QED  BY <1>3, <2>1, <2>2 DEF Call
<1>4. CASE WriteSecondFat
  BY <1>2, <1>4 DEF WriteSecondFat, locals, Building
<1>5. CASE FreeOne \/ AllocFull \/ CreateEntry \/ CreateFull \/ GiveUp \/ Crash
  BY <1>1, <1>5 DEF FreeOne, AllocFull, CreateEntry, CreateFull, GiveUp, Crash, GiveBack,
                    Return, Building
<1>6. CASE EraseEntry
  BY <1>1, <1>6 DEF EraseEntry, Return, Fit, Progress
<1>7. CASE Seal
  BY <1>2, <1>7 DEF Seal, FatSet, Control, TypeOK, locals, Building
<1>8. CASE UNCHANGED vars
  BY <1>2, <1>8 DEF vars, disk, locals, Building
<1> QED
  BY <1>3, <1>4, <1>5, <1>6, <1>7, <1>8, AllocWritten, LinkWritten, WriteDataWritten
     DEF Next, Step

\* A file that stays whole keeps its bytes.
LEMMA WholeKept ==
  ASSUME TypeOK, Control, Chains, Fit, ~torn, [Next]_vars, NEW s \in Slots, Whole(s), Whole(s)'
  PROVE  Contents'[s] = Contents[s]
<1>1. IsFile(s) /\ IsFile(s)'
  BY DEF Whole
<1>2. CASE s \in Owners
  BY <1>1, <1>2, OwnersKept, SameBytes DEF KeepsFile
<1>3. CASE s \notin Owners
  <2>1. pc = "free_old" /\ s = victim /\ cluster = dir[victim].first
    BY <1>1, <1>3 DEF Owners, Whole, Tearing
  <2>2. CASE FreeOne
    <3>1. /\ cluster \in Clusters /\ cluster' = fat[cluster]
          /\ UNCHANGED <<pc, dir, victim>>
      BY <2>2 DEF FreeOne
    <3>2. Unlinked(fat, cluster)
      BY <2>1, <3>1 DEF Fit, HeadUnlinked
    <3> QED  BY <2>1, <3>1, <3>2 DEF Whole, Tearing, Unlinked
  <2>3. CASE EraseEntry
    BY <1>1, <2>1, <2>3 DEF EraseEntry, IsFile, ErasedSlot, TypeOK
  <2>4. CASE WriteSecondFat \/ Crash \/ UNCHANGED vars
    <3>1. UNCHANGED <<fat, dir, sectors>>
      BY <2>4 DEF WriteSecondFat, Crash, vars, disk
    <3>2. KeepsFile(s)
      BY <1>1, <3>1, SameFat DEF KeepsFile, IsFile
    <3> QED  BY <1>1, <3>2, SameBytes DEF KeepsFile
  <2>5. FreeOne \/ EraseEntry \/ WriteSecondFat \/ Crash \/ UNCHANGED vars
    BY <2>1, Zenon DEF Next, Call, Step, Delete, Write, Append_, Copy, Rename, Alloc,
       AllocFull,
       Link, WriteData, Seal, CreateEntry, CreateFull, GiveUp
  <2> QED  BY <2>2, <2>3, <2>4, <2>5
<1> QED  BY <1>2, <1>3

-----------------------------------------------------------------------------
\* The refinement, step by step.

\* What the steps of the refinement start from.
StoreHolds == IsStore(StoreNow, Named, Contents)
StoreInv == TypeOK /\ Control /\ Directory /\ Chains /\ Fit /\ Jobs /\ StoreHolds

\* The call in progress, told of the job.
LEMMA PendingIs ==
  /\ job.op = "none" => PendingNow = [op |-> "none"] /\ PendingNow.op = "none"
  /\ job.op = "delete" => /\ PendingNow = [op |-> "delete", name |-> job.name]
                          /\ PendingNow.op = "delete" /\ PendingNow.name = job.name
  /\ job.op = "write" => PendingNow = job
BY DEF PendingNow

LEMMA PendingKept ==
  ASSUME job' = job
  PROVE  PendingNow' = PendingNow
BY DEF PendingNow

LEMMA PendingOver ==
  ASSUME job' = NoJob
  PROVE  PendingNow' = [op |-> "none"]
BY DEF PendingNow, NoJob

\* The same files: the same store.
LEMMA KeepsStore ==
  ASSUME StoreInv, StoreHolds', [Next]_vars,
         \A s \in Slots : /\ Whole(s)' <=> Whole(s)
                          /\ Whole(s) => dir'[s].name = dir[s].name
  PROVE  StoreNow' = StoreNow
<1>1. \A s \in Slots : Named'[s] = Named[s] /\ (Named[s] # NoName => Whole(s) /\ Whole(s)')
  BY DEF Named
<1>2. \A s \in Slots : Named[s] # NoName => Contents'[s] = Contents[s]
  BY <1>1, WholeKept DEF StoreInv, Jobs
<1>3. IsStore(StoreNow, Named, Contents) /\ IsStore(StoreNow', Named', Contents')
  BY DEF StoreInv, StoreHolds
<1> HIDE DEF StoreNow, Named, Contents
<1> QED  BY <1>1, <1>2, <1>3, SameStore

\* One file less.
LEMMA LosesOne ==
  ASSUME StoreInv, StoreHolds', [Next]_vars, NEW k \in Slots, IsFile(k), ~Whole(k)',
         \A s \in Slots \ {k} : /\ Whole(s)' <=> Whole(s)
                                /\ Whole(s) => dir'[s].name = dir[s].name
  PROVE  StoreNow' = [m \in DOMAIN StoreNow \ {dir[k].name} |-> StoreNow[m]]
<1> DEFINE n == dir[k].name
<1>1. \A s \in Slots \ {k} : /\ Named'[s] = Named[s]
                             /\ Named[s] # NoName => Whole(s) /\ Whole(s)'
  BY DEF Named
<1>2. \A s \in Slots \ {k} : Named[s] # NoName => Contents'[s] = Contents[s]
  BY <1>1, WholeKept DEF StoreInv, Jobs
<1>3. IsStore(StoreNow, Named, Contents) /\ IsStore(StoreNow', Named', Contents')
  BY DEF StoreInv, StoreHolds
<1>4. n # NoName
  BY NamesAssumption DEF StoreInv, Jobs, NamesInUse
<1>5. Named'[k] = NoName /\ Named[k] \in {n, NoName}
  BY DEF Named
<1>6. \A s \in Slots \ {k} : Named[s] # n
  BY <1>4 DEF Named, StoreInv, Directory, UniqueNames, Whole
<1> HIDE DEF StoreNow, Named, Contents, n
<1>7. OthersAlike(k, {n}, Named, Contents, Named', Contents')
  BY <1>1, <1>2, <1>6 DEF OthersAlike
<1>8. PICK S, T, N, M, C, D : /\ S = StoreNow /\ N = Named /\ C = Contents
                              /\ T = StoreNow' /\ M = Named' /\ D = Contents'
  OBVIOUS
<1>9. T = [m \in DOMAIN S \ {n} |-> S[m]]
  BY <1>3, <1>4, <1>5, <1>7, <1>8, LessOne
<1> QED  BY <1>8, <1>9 DEF n

\* Between calls every file is whole, and the scan finds those that the store has.
LEMMA BetweenCalls ==
  ASSUME StoreInv, pc = "idle"
  PROVE  /\ \A s \in Slots : Whole(s) <=> IsFile(s)
         /\ PendingNow = [op |-> "none"] /\ PendingNow.op = "none"
         /\ \A n \in FatName : Found(n) <=> n \in DOMAIN StoreNow
         /\ \A n \in FatName : Found(n) =>
              /\ SlotOf(n) \in Slots /\ IsFile(SlotOf(n)) /\ dir[SlotOf(n)].name = n
              /\ StoreNow[n] = Contents[SlotOf(n)]
<1>1. \A s \in Slots : Whole(s) <=> IsFile(s)
  BY DEF Whole, Tearing
<1>2. PendingNow = [op |-> "none"] /\ PendingNow.op = "none"
  BY PendingIs DEF StoreInv, Jobs
<1>3. ASSUME NEW n, Found(n)
      PROVE  SlotOf(n) \in Slots /\ IsFile(SlotOf(n)) /\ dir[SlotOf(n)].name = n
  BY <1>3, FoundSlot DEF Matches
<1>4. \A n \in FatName : n \in DOMAIN StoreNow <=> \E s \in Slots : IsFile(s)
        /\ dir[s].name = n
  BY <1>1 DEF StoreNow, HasFile
<1>5. ASSUME NEW n \in FatName PROVE Found(n) <=> n \in DOMAIN StoreNow
  <2>1. Found(n) => n \in DOMAIN StoreNow
    BY <1>3, <1>4
  <2>2. n \in DOMAIN StoreNow => Found(n)
    BY <1>4, ScanFindsAll DEF StoreInv, Directory
  <2> QED  BY <2>1, <2>2
<1>6. ASSUME NEW n \in FatName, Found(n) PROVE StoreNow[n] = Contents[SlotOf(n)]
  <2>1. PICK s : s = SlotOf(n)
    OBVIOUS
  <2>2. s \in Slots /\ Named[s] = n /\ n # NoName
    BY <1>1, <1>3, <1>6, <2>1, NamesAssumption DEF Named
  <2>3. IsStore(StoreNow, Named, Contents)
    BY DEF StoreInv, StoreHolds
  <2> HIDE DEF StoreNow, Named, Contents
  <2> QED  BY <2>1, <2>2, <2>3 DEF IsStore
<1> QED  BY <1>1, <1>2, <1>3, <1>5, <1>6

\* A call is accepted.
LEMMA BeginAccepts ==
  ASSUME StoreInv, StoreHolds', [Next]_vars, pc = "idle",
         NEW op \in {"delete", "write"}, NEW n \in FatName, NEW data, BeginDelete(op, n, data)
  PROVE  Store!Accept(IF op = "delete" THEN [op |-> "delete", name |-> n]
                      ELSE [op |-> "write", name |-> n, data |-> data])
<1>1. job' = [op |-> op, name |-> n, data |-> data] /\ result' = "none" /\ dir' = dir
  BY DEF BeginDelete, disk
<1>2. PendingNow' = IF op = "delete" THEN [op |-> "delete", name |-> n]
                    ELSE [op |-> "write", name |-> n, data |-> data]
  BY <1>1 DEF PendingNow
<1>3. \A s \in Slots : IsFile(s)' <=> IsFile(s)
  BY <1>1 DEF IsFile
<1>4. ~Tearing'
  BY <1>1, Zenon DEF Tearing, BeginDelete, AfterDelete
<1>5. \A s \in Slots : (Whole(s)' <=> Whole(s)) /\ dir'[s].name = dir[s].name
  BY <1>1, <1>3, <1>4, BetweenCalls DEF Whole
<1>6. StoreNow' = StoreNow
  BY <1>5, KeepsStore
<1>7. PendingNow.op = "none"
  BY BetweenCalls
<1> HIDE DEF StoreNow, PendingNow
<1> QED  BY <1>1, <1>2, <1>6, <1>7, IsAccept

\* A call is refused.
LEMMA RefuseRejects ==
  ASSUME StoreInv, StoreHolds', [Next]_vars, pc = "idle", Refuse
  PROVE  Store!Reject
<1>1. UNCHANGED <<dir, job, pc, victim, cluster>> /\ result' = "failed"
  BY DEF Refuse, disk, locals
<1>2. \A s \in Slots : (Whole(s)' <=> Whole(s)) /\ dir'[s].name = dir[s].name
  BY <1>1 DEF Whole, IsFile, Tearing
<1>3. StoreNow' = StoreNow /\ PendingNow' = PendingNow
  BY <1>1, <1>2, KeepsStore, PendingKept
<1> QED  BY <1>1, <1>3, BetweenCalls, IsReject

\* append and cp start from files of at most one sector, which fit in cp's buffer.
ShortReads ==
  MaxReadBack \in Nat /\ MaxReadBack <= SectorSize /\ MaxReadBack <= MaxFileSize

\* Of these they get all.
LEMMA ReadsAll ==
  ASSUME UsedOnDevice, ShortReads,
         StoreInv, pc = "idle", NEW n \in FatName, Found(n),
         dir[SlotOf(n)].size <= MaxReadBack
  PROVE  /\ ReadFile(SlotOf(n), dir[SlotOf(n)].size) = StoreNow[n]
         /\ ReadFile(SlotOf(n), MaxFileSize) = StoreNow[n]
         /\ Len(StoreNow[n]) = dir[SlotOf(n)].size
<1>1. PICK s : s = SlotOf(n)
  OBVIOUS
<1>2. s \in Slots /\ IsFile(s) /\ Whole(s) /\ StoreNow[n] = Contents[s]
  BY <1>1, BetweenCalls
<1>3. ChainFits(s)
  BY <1>2 DEF StoreInv, Fit, FitsFiles, ChainFits, Jobs
<1>4. dir[s].size \in Nat /\ dir[s].size <= SectorSize /\ dir[s].size <= MaxFileSize
      /\ MaxFileSize \in Nat
  BY <1>1, <1>2, SizesAssumption DEF ShortReads, StoreInv, TypeOK, DirEntry
<1>5. ReadFile(s, dir[s].size) = Contents[s] /\ ReadFile(s, MaxFileSize) = Contents[s]
  BY <1>2, <1>3, <1>4, ShortRead DEF StoreInv
<1>6. HoldsBytes(s)
  BY <1>2, <1>3, FileHoldsBytes DEF StoreInv
<1>7. Len(Contents[s]) = dir[s].size
  BY <1>4, <1>6 DEF HoldsBytes
<1> QED  BY <1>1, <1>2, <1>5, <1>7

-----------------------------------------------------------------------------
\* Each call of the file system is a call of the store.

\* A step that changes no file and answers no call is none of the store.
LEMMA Stutters ==
  ASSUME StoreInv, StoreHolds', [Next]_vars, job' = job, result' = result,
         \A s \in Slots : /\ Whole(s)' <=> Whole(s)
                          /\ Whole(s) => dir'[s].name = dir[s].name
  PROVE  UNCHANGED Store!svars
BY KeepsStore, PendingKept, IsStutter

\* fs_delete.
LEMMA DeleteStep ==
  ASSUME StoreInv, StoreHolds', [Next]_vars, NEW n \in FatName, Delete(n)
  PROVE  Store!Delete(n)
<1>1. pc = "idle" /\ (Found(n) <=> n \in DOMAIN StoreNow)
  BY BetweenCalls DEF Delete
<1>2. CASE Found(n)
  <2>1. BeginDelete("delete", n, <<>>)
    BY <1>2 DEF Delete
  <2>2. Store!Accept(IF "delete" = "delete" THEN [op |-> "delete", name |-> n]
                     ELSE [op |-> "write", name |-> n, data |-> <<>>])
    BY <1>1, <2>1, BeginAccepts
  <2> QED  BY <1>1, <1>2, <2>2, IsDelete
<1>3. CASE ~Found(n)
  <2>1. Store!Reject
    BY <1>1, <1>3, RefuseRejects DEF Delete
  <2> QED  BY <1>1, <1>3, <2>1, IsDelete
<1> QED  BY <1>2, <1>3

\* fs_write, fs_append and cp begin a write.
LEMMA BeginWrites ==
  ASSUME StoreInv, StoreHolds', [Next]_vars, pc = "idle",
         NEW n \in FatName, NEW data, BeginDelete("write", n, data)
  PROVE  Store!Accept([op |-> "write", name |-> n, data |-> data])
<1>1. Store!Accept(IF "write" = "delete" THEN [op |-> "delete", name |-> n]
                   ELSE [op |-> "write", name |-> n, data |-> data])
  BY BeginAccepts
<1> QED  BY <1>1

LEMMA WriteStep ==
  ASSUME StoreInv, StoreHolds', [Next]_vars, NEW n \in FatName, NEW data, Write(n, data)
  PROVE  Store!Write(n, data)
<1>1. Store!Accept([op |-> "write", name |-> n, data |-> data])
  BY BeginWrites DEF Write
<1> QED  BY <1>1 DEF Store!Write, Store!WriteOf

\* fs_append has read the whole file when it begins to write.
LEMMA AppendStep ==
  ASSUME UsedOnDevice, ShortReads,
         StoreInv, StoreHolds', [Next]_vars, NEW n \in FatName, NEW text, Append_(n, text)
  PROVE  Store!Extend(n, text)
<1>1. pc = "idle" /\ (Found(n) <=> n \in DOMAIN StoreNow)
  BY BetweenCalls DEF Append_
<1>2. CASE Found(n)
  <2>1. dir[SlotOf(n)].size <= MaxReadBack
    BY <1>2 DEF Append_
  <2>2. PICK old : old = ReadFile(SlotOf(n), dir[SlotOf(n)].size)
    OBVIOUS
  <2>3. old = StoreNow[n] /\ Len(old) = dir[SlotOf(n)].size
    BY <1>1, <1>2, <2>1, <2>2, ReadsAll
  <2>4. BeginDelete("write", n, old \o text)
    BY <1>2, <2>2, <2>3 DEF Append_
  <2>5. Store!Accept([op |-> "write", name |-> n, data |-> old \o text])
    BY <1>1, <2>4, BeginWrites
  <2> QED  BY <1>1, <1>2, <2>3, <2>5, IsExtend
<1>3. CASE ~Found(n)
  <2>1. Store!Accept([op |-> "write", name |-> n, data |-> text])
    BY <1>1, <1>3, BeginWrites DEF Append_
  <2> QED  BY <1>1, <1>3, <2>1, IsExtend
<1> QED  BY <1>2, <1>3

\* So has cp.
LEMMA CopyStep ==
  ASSUME UsedOnDevice, ShortReads,
         StoreInv, StoreHolds', [Next]_vars, NEW src \in FatName, NEW dst \in FatName,
         Copy(src, dst)
  PROVE  Store!Copy(src, dst)
<1>1. pc = "idle" /\ (Found(src) <=> src \in DOMAIN StoreNow)
  BY BetweenCalls DEF Copy
<1>2. CASE Found(src)
  <2>1. dir[SlotOf(src)].size <= MaxReadBack
    BY <1>2 DEF Copy
  <2>2. PICK text : text = ReadFile(SlotOf(src), MaxFileSize)
    OBVIOUS
  <2>3. text = StoreNow[src]
    BY <1>1, <1>2, <2>1, <2>2, ReadsAll
  <2>4. BeginDelete("write", dst, text)
    BY <1>2, <2>2 DEF Copy
  <2>5. Store!Accept([op |-> "write", name |-> dst, data |-> text])
    BY <1>1, <2>4, BeginWrites
  <2> QED  BY <1>1, <1>2, <2>3, <2>5, IsCopy
<1>3. CASE ~Found(src)
  <2>1. Store!Reject
    BY <1>1, <1>3, RefuseRejects DEF Copy
  <2> QED  BY <1>1, <1>3, <2>1, IsCopy
<1> QED  BY <1>2, <1>3

\* fs_rename.
LEMMA RenameStep ==
  ASSUME StoreInv, StoreHolds', [Next]_vars, NEW old \in FatName, NEW new \in FatName,
         Rename(old, new)
  PROVE  Store!Rename(old, new)
<1>1. /\ pc = "idle" /\ (Found(old) <=> old \in DOMAIN StoreNow)
      /\ (Found(new) <=> new \in DOMAIN StoreNow) /\ PendingNow.op = "none"
  BY BetweenCalls DEF Rename
<1>2. CASE ~MayRename(old, new)
  <2>1. Store!Reject
    BY <1>1, <1>2, RefuseRejects DEF Rename
  <2>2. ~(old \in DOMAIN StoreNow /\ new \notin DOMAIN StoreNow)
    BY <1>1, <1>2 DEF MayRename
  <2> QED  BY <2>1, <2>2, IsRename
<1>3. CASE MayRename(old, new)
  <2>1. PICK k \in Slots : k = SlotOf(old) /\ IsFile(k) /\ dir[k].name = old
    BY <1>1, <1>3, BetweenCalls DEF MayRename
  <2>2. /\ dir' = [dir EXCEPT ![k] = FileEntry(new, dir[k].first, dir[k].size)]
        /\ result' = "ok" /\ job' = job /\ UNCHANGED <<pc, victim, cluster>>
    BY <1>3, <2>1 DEF Rename, locals
  <2>3. /\ IsFile(k)' /\ dir'[k].name = new
        /\ \A s \in Slots \ {k} : dir'[s] = dir[s]
    BY <2>1, <2>2 DEF IsFile, FileEntry, StoreInv, TypeOK
  <2>4. \A s \in Slots : (Whole(s) <=> IsFile(s)) /\ (Whole(s)' <=> IsFile(s)')
    BY <1>1, <2>2 DEF Whole, Tearing
  <2>5. Named[k] = old /\ Named'[k] = new /\ \A s \in Slots \ {k} : Named'[s] = Named[s]
    BY <2>1, <2>3, <2>4 DEF Named, IsFile
  <2>6. Contents'[k] = Contents[k]
    BY <2>1, <2>3, <2>4, WholeKept DEF StoreInv, Jobs
  <2>7. \A s \in Slots \ {k} : Named[s] \notin {old, new}
    <3> SUFFICES ASSUME NEW s \in Slots \ {k} PROVE Named[s] \notin {old, new}
      OBVIOUS
    <3>1. NoName \notin {old, new}
      BY NamesAssumption
    <3>2. IsFile(s) => dir[s].name # old
      BY <2>1 DEF StoreInv, Directory, UniqueNames
    <3>3. IsFile(s) => dir[s].name # new
      BY <1>3, ScanFindsAll DEF MayRename, StoreInv, Directory
    <3> QED  BY <2>4, <3>1, <3>2, <3>3 DEF Named
  <2>8. \A s \in Slots \ {k} : Named[s] # NoName => Contents'[s] = Contents[s]
    <3> SUFFICES ASSUME NEW s \in Slots \ {k}, Named[s] # NoName PROVE Contents'[s] = Contents[s]
      OBVIOUS
    <3>1. Whole(s) /\ Whole(s)'
      BY <2>3, <2>4 DEF Named, IsFile
    <3> QED  BY <3>1, WholeKept DEF StoreInv, Jobs
  <2>9. IsStore(StoreNow, Named, Contents) /\ IsStore(StoreNow', Named', Contents')
    BY DEF StoreInv, StoreHolds
  <2>10. PendingNow' = PendingNow
    BY <2>2, PendingKept
  <2>11. old # NoName /\ new # NoName /\ old # new
    BY <1>3, NamesAssumption DEF MayRename
  <2> HIDE DEF StoreNow, Named, Contents, PendingNow
  <2>12. OthersAlike(k, {old, new}, Named, Contents, Named', Contents')
    BY <2>5, <2>7, <2>8 DEF OthersAlike
  <2>13. PICK S, T, N, M, C, D : /\ S = StoreNow /\ N = Named /\ C = Contents
                                 /\ T = StoreNow' /\ M = Named' /\ D = Contents'
    OBVIOUS
  <2>14. T = [m \in (DOMAIN S \ {old}) \cup {new} |-> IF m = new THEN S[old] ELSE S[m]]
    <3>1. IsStore(S, N, C) /\ IsStore(T, M, D) /\ OthersAlike(k, {old, new}, N, C, M, D)
      BY <2>9, <2>12, <2>13
    <3>2. N[k] = old /\ M[k] = new /\ D[k] = C[k]
      BY <2>5, <2>6, <2>13
    <3> QED  BY <2>11, <3>1, <3>2, OtherName
  <2>15. old \in DOMAIN StoreNow /\ new \notin DOMAIN StoreNow
    BY <1>1, <1>3 DEF MayRename
  <2> QED  BY <1>1, <2>2, <2>10, <2>13, <2>14, <2>15, IsRename
<1> QED  BY <1>2, <1>3

-----------------------------------------------------------------------------
\* The steps of a call in progress are steps of the store.

\* Once the first cluster of its chain is freed, a file is no longer whole.
LEMMA FreeOneTears ==
  ASSUME StoreInv, FreeOne, pc = "free_old"
  PROVE  Tearing' /\ victim' = victim
<1>1. /\ cluster \in Clusters /\ cluster' = fat[cluster] /\ Held(cluster)
      /\ UNCHANGED <<pc, dir, victim>>
  BY DEF FreeOne, Held
<1>2. fat[cluster] # Free
  BY <1>1 DEF StoreInv, Chains, NoDangling, Jobs
<1>3. dir[victim].first \in Clusters \/ dir[victim].first = 0
  BY DEF StoreInv, Control, TypeOK, DirEntry
<1>4. dir[victim].first \in Clusters => fat[cluster] # dir[victim].first
  BY <1>1 DEF StoreInv, Fit, Jobs, HeadUnlinked, Unlinked
<1> QED  BY <1>1, <1>2, <1>3, <1>4, ClusterNumbers DEF Tearing

\* The name a call works for has a file while its entry is whole.
LEMMA CallsFile ==
  ASSUME StoreInv, pc = "free_old"
  PROVE  /\ victim \in Slots /\ IsFile(victim) /\ dir[victim].name = job.name
         /\ job.op \in {"delete", "write"} /\ PendingNow.op = job.op
         /\ PendingNow.name = job.name
         /\ Whole(victim) => job.name \in DOMAIN StoreNow
<1>1. /\ victim \in Slots /\ IsFile(victim) /\ dir[victim].name = job.name
      /\ job.name \in FatName /\ job.op \in {"delete", "write"}
  BY DEF StoreInv, Control, Jobs, TypeOK
<1>2. PendingNow.op = job.op /\ PendingNow.name = job.name
  BY <1>1, PendingIs
<1> QED  BY <1>1, <1>2 DEF StoreNow, HasFile

\* The first cluster freed is what takes the file from the store.
LEMMA FreeOneStep ==
  ASSUME StoreInv, StoreHolds', [Next]_vars, FreeOne
  PROVE  Store!Drop \/ UNCHANGED Store!svars
<1>1. /\ pc \in {"free_old", "free_new"} /\ UNCHANGED <<pc, dir, victim, job, result>>
  BY DEF FreeOne
<1>2. \A s \in Slots : IsFile(s)' <=> IsFile(s)
  BY <1>1 DEF IsFile
<1>3. CASE pc = "free_new"
  <2>1. \A s \in Slots : Whole(s)' <=> Whole(s)
    BY <1>1, <1>2, <1>3 DEF Whole, Tearing
  <2> QED  BY <1>1, <2>1, Stutters
<1>4. CASE pc = "free_old"
  <2>0. PICK v \in Slots : v = victim /\ IsFile(v)
    BY <1>4, CallsFile
  <2>1. Tearing' /\ victim' = v
    BY <1>4, <2>0, FreeOneTears
  <2>2. \A s \in Slots \ {v} : Whole(s)' <=> Whole(s)
    BY <1>2, <2>0, <2>1 DEF Whole
  <2>3. ~Whole(v)'
    BY <2>1 DEF Whole
  <2>4. CASE Whole(v)
    <3>1. PICK n : n = dir[v].name
      OBVIOUS
    <3>2. StoreNow' = [m \in DOMAIN StoreNow \ {dir[v].name} |-> StoreNow[m]]
      BY <1>1, <2>0, <2>2, <2>3, LosesOne
    <3>3. PendingNow' = PendingNow
      BY <1>1, PendingKept
    <3>4. /\ PendingNow.op # "none" /\ PendingNow.name = n /\ n \in DOMAIN StoreNow
      BY <1>4, <2>0, <2>4, <3>1, CallsFile
    <3> HIDE DEF StoreNow, PendingNow
    <3> QED  BY <1>1, <3>1, <3>2, <3>3, <3>4, IsDrop
  <2>5. CASE ~Whole(v)
    <3>1. \A s \in Slots : Whole(s)' <=> Whole(s)
      BY <2>2, <2>3, <2>5
    <3> QED  BY <1>1, <3>1, Stutters
  <2> QED  BY <2>4, <2>5
<1> QED  BY <1>1, <1>3, <1>4

\* Erasing the entry takes it when there was no cluster to free.
LEMMA EraseStep ==
  ASSUME StoreInv, StoreHolds', [Next]_vars, EraseEntry
  PROVE  Store!Drop \/ Store!Deleted \/ UNCHANGED Store!svars
<1>1. /\ pc = "free_old" /\ dir' = [dir EXCEPT ![victim] = ErasedSlot] /\ pc' # "free_old"
      /\ \/ job.op = "delete" /\ job' = NoJob /\ result' = "ok"
         \/ job.op # "delete" /\ UNCHANGED <<job, result>>
  BY DEF EraseEntry, Return, AfterDelete
<1>2. PICK v \in Slots :
      /\ v = victim /\ IsFile(v) /\ dir[v].name = job.name
      /\ job.op \in {"delete", "write"} /\ PendingNow.op = job.op
      /\ PendingNow.name = job.name
      /\ Whole(v) => job.name \in DOMAIN StoreNow
  BY <1>1, CallsFile
<1>3. ~IsFile(v)' /\ \A s \in Slots \ {v} : dir'[s] = dir[s]
  BY <1>1, <1>2 DEF IsFile, ErasedSlot, StoreInv, TypeOK
<1>4. \A s \in Slots \ {v} : Whole(s)' <=> Whole(s)
  BY <1>1, <1>2, <1>3 DEF Whole, Tearing, IsFile
<1>5. ~Whole(v)'
  BY <1>3 DEF Whole
<1>6. StoreNow' = [m \in DOMAIN StoreNow \ {dir[v].name} |-> StoreNow[m]]
  BY <1>2, <1>3, <1>4, <1>5, LosesOne
<1>7. CASE job.op = "delete"
  <2>1. PendingNow' = [op |-> "none"] /\ result' = "ok"
    BY <1>1, <1>7, PendingOver
  <2> HIDE DEF StoreNow, PendingNow
  <2> QED  BY <1>2, <1>6, <1>7, <2>1, IsDeleted
<1>8. CASE job.op # "delete" /\ Whole(v)
  <2>1. PendingNow' = PendingNow /\ result' = result
    BY <1>1, <1>8, PendingKept
  <2> HIDE DEF StoreNow, PendingNow
  <2> QED  BY <1>2, <1>6, <1>8, <2>1, IsDrop
<1>9. CASE job.op # "delete" /\ ~Whole(v)
  <2>1. \A s \in Slots : /\ Whole(s)' <=> Whole(s)
                         /\ Whole(s) => dir'[s].name = dir[s].name
    BY <1>3, <1>4, <1>5, <1>9
  <2> QED  BY <1>1, <1>9, <2>1, Stutters
<1> QED  BY <1>7, <1>8, <1>9

\* The steps that write the FAT and the data of the new file.
LEMMA SilentStep ==
  ASSUME StoreInv, StoreHolds', [Next]_vars,
         WriteSecondFat \/ Alloc \/ Link \/ WriteData \/ Seal
  PROVE  UNCHANGED Store!svars
<1>1. UNCHANGED <<dir, job, victim, result>>
  BY DEF WriteSecondFat, Alloc, Link, WriteData, Seal, locals
<1>2. Tearing' <=> Tearing
  BY DEF WriteSecondFat, Alloc, Link, WriteData, Seal, locals, Tearing
<1>3. \A s \in Slots : Whole(s)' <=> Whole(s)
  BY <1>1, <1>2 DEF Whole, IsFile
<1> QED  BY <1>1, <1>3, Stutters

\* A write answers that it has failed.
LEMMA FailStep ==
  ASSUME StoreInv, StoreHolds', [Next]_vars, pc \notin {"idle", "free_old"}, Return("failed"),
         dir' = dir
  PROVE  Store!NoSpace
<1>1. \A s \in Slots : (Whole(s)' <=> Whole(s)) /\ dir'[s].name = dir[s].name
  BY DEF Whole, IsFile, Tearing, Return
<1>2. StoreNow' = StoreNow
  BY <1>1, KeepsStore
<1>3. PendingNow' = [op |-> "none"] /\ result' = "failed"
  BY PendingOver DEF Return
<1>4. job.op = "write" /\ PendingNow = job
  BY PendingIs DEF StoreInv, Jobs
<1>5. \A s \in Slots : IsFile(s) => dir[s].name # job.name
  BY DEF StoreInv, Jobs, Directory, NameIsFree, TypeOK
<1>6. job.name \notin DOMAIN StoreNow
  BY <1>5 DEF StoreNow, HasFile, Whole
<1> HIDE DEF StoreNow, PendingNow
<1> QED  BY <1>2, <1>3, <1>4, <1>6, IsNoSpace

\* A full disk, or a full directory.
LEMMA FullStep ==
  ASSUME StoreInv, StoreHolds', [Next]_vars, AllocFull \/ CreateFull \/ GiveUp
  PROVE  Store!NoSpace \/ UNCHANGED Store!svars
<1>1. dir' = dir /\ pc \in {"alloc", "entry", "free_new"}
  BY DEF AllocFull, CreateFull, GiveUp, disk
<1>2. CASE Return("failed")
  BY <1>1, <1>2, FailStep
<1>3. CASE pc \in {"alloc", "entry"} /\ pc' = "free_new" /\ UNCHANGED <<job, result>>
  <2>1. \A s \in Slots : (Whole(s)' <=> Whole(s)) /\ dir'[s].name = dir[s].name
    BY <1>1, <1>3 DEF Whole, IsFile, Tearing
  <2> QED  BY <1>3, <2>1, Stutters
<1>4. \/ Return("failed")
      \/ pc \in {"alloc", "entry"} /\ pc' = "free_new" /\ UNCHANGED <<job, result>>
  BY Zenon DEF AllocFull, CreateFull, GiveUp, GiveBack
<1> QED  BY <1>2, <1>3, <1>4

\* Power is lost.
LEMMA CrashStep ==
  ASSUME ~TornDeletes, StoreInv, StoreHolds', [Next]_vars, Crash
  PROVE  Store!PowerLoss
<1>1. /\ pc # "idle" /\ ~Tearing /\ pc' = "idle" /\ dir' = dir /\ job' = NoJob
           /\ result' = "none"
  BY DEF Crash, Return, disk
<1>2. \A s \in Slots : (Whole(s)' <=> Whole(s)) /\ dir'[s].name = dir[s].name
  BY <1>1 DEF Whole, IsFile, Tearing
<1>3. StoreNow' = StoreNow
  BY <1>2, KeepsStore
<1>4. PendingNow' = [op |-> "none"]
  BY <1>1, PendingOver
<1>5. PendingNow.op # "none"
  BY <1>1, PendingIs DEF StoreInv, Jobs, TypeOK
<1> HIDE DEF StoreNow, PendingNow
<1> QED  BY <1>1, <1>3, <1>4, <1>5, IsPowerLoss

-----------------------------------------------------------------------------
\* The file that a write has completed.

\* FileHoldsBytes as a formula, and of the next state.
LEMMA FilesHoldBytes ==
  UsedOnDevice /\ TypeOK => \A s \in Slots : IsFile(s) /\ ChainFits(s) => HoldsBytes(s)
BY FileHoldsBytes

LEMMA FilesHoldBytesNext ==
  (UsedOnDevice /\ TypeOK => \A s \in Slots : IsFile(s) /\ ChainFits(s) => HoldsBytes(s))'
BY FilesHoldBytes, PTL

\* Its chain holds the data of the call.
LEMMA NewFileHolds ==
  ASSUME UsedOnDevice, StoreInv, TypeOK', Fit', Written, pc = "entry", ~torn',
         NEW k \in Slots, Whole(k)', UNCHANGED <<fat, sectors>>,
         dir'[k].first = first, dir'[k].size = Len(job.data)
  PROVE  Contents'[k] = job.data
<1> DEFINE len == Len(job.data)
           q(j) == (j - 1) \div SectorSize
           r(j) == ((j - 1) % SectorSize) + 1
<1>1. done = len /\ len \in Nat /\ job.data \in Seq(Byte)
  BY DEF StoreInv, Fit, Progress, TypeOK
<1>2. IsFile(k)' /\ ChainFits(k)'
  BY DEF Whole, Fit, FitsFiles, ChainFits
<1>3. HoldsBytes(k)'
  <2>1. UsedOnDevice'
    BY DEF UsedOnDevice
  <2> QED  BY <1>2, <2>1, FilesHoldBytesNext
<1>4. Contents'[k] = [j \in 1 .. len |-> sectors[At(fat, first, q(j))][r(j)]]
  BY <1>3 DEF HoldsBytes
<1>5. ASSUME NEW j \in 1 .. len PROVE sectors[At(fat, first, q(j))][r(j)] = job.data[j]
  <2>1. q(j) \in 0 .. (SectorsFor(done) - 1)
    BY <1>1, SectorOfByte
  <2>2. sectors[At(fat, first, q(j))] = PieceOf(job.data, q(j))
    BY <2>1 DEF Written, Building
  <2>3. SectorSize \in Nat \ {0} /\ j \in Nat /\ j <= len /\ j - 1 \in Nat
    BY <1>1, SizesAssumption
  <2>4. r(j) \in 1 .. SectorSize /\ q(j) * SectorSize + r(j) = j
    BY <2>3
  <2> HIDE DEF q, r, len
  <2>5. PieceOf(job.data, q(j))[r(j)] = job.data[j]
    BY <2>3, <2>4 DEF PieceOf, len
  <2> QED  BY <2>2, <2>5
<1>6. job.data = [j \in 1 .. len |-> job.data[j]]
  BY <1>1
<1> QED  BY <1>4, <1>5, <1>6

\* The entry puts it into the store.
LEMMA CreateStep ==
  ASSUME UsedOnDevice, StoreInv, StoreHolds', TypeOK', Fit', ~torn', Written, [Next]_vars,
         CreateEntry
  PROVE  Store!Put
<1>1. PICK k \in Slots :
        ~IsFile(k) /\ dir' = [dir EXCEPT ![k] = FileEntry(job.name, first, Len(job.data))]
  BY DEF CreateEntry, FirstOpen
<1>2. /\ pc = "entry" /\ pc' = "idle" /\ job' = NoJob /\ result' = "ok"
           /\ UNCHANGED <<fat, sectors>>
  BY DEF CreateEntry, Return
<1>3. /\ dir'[k] = FileEntry(job.name, first, Len(job.data))
      /\ \A s \in Slots \ {k} : dir'[s] = dir[s]
  BY <1>1 DEF StoreInv, TypeOK
<1>4. \A s \in Slots : (Whole(s) <=> IsFile(s)) /\ (Whole(s)' <=> IsFile(s)')
  BY <1>2 DEF Whole, Tearing
<1>5. Whole(k)' /\ dir'[k].name = job.name /\ dir'[k].first = first
        /\ dir'[k].size = Len(job.data)
  BY <1>3, <1>4 DEF IsFile, FileEntry
<1>6. Contents'[k] = job.data
  BY <1>2, <1>5, NewFileHolds
<1>7. Named[k] = NoName /\ Named'[k] = job.name
  BY <1>1, <1>4, <1>5 DEF Named
<1>8. \A s \in Slots \ {k} : /\ Named'[s] = Named[s]
                             /\ Whole(s)' <=> Whole(s)
                             /\ Named[s] # NoName => Whole(s)
  BY <1>3, <1>4 DEF Named, IsFile
<1>9. job.name \in FatName /\ job.name # NoName
  BY <1>2, NamesAssumption DEF StoreInv, Control
<1>10. \A s \in Slots \ {k} : Named[s] # job.name
  BY <1>2, <1>4, <1>9 DEF Named, StoreInv, Directory, NameIsFree
<1>11. \A s \in Slots \ {k} : Named[s] # NoName => Contents'[s] = Contents[s]
  <2> SUFFICES ASSUME NEW s \in Slots \ {k}, Named[s] # NoName PROVE Contents'[s] = Contents[s]
    OBVIOUS
  <2>1. Whole(s) /\ Whole(s)'
    BY <1>8
  <2> QED  BY <2>1, WholeKept DEF StoreInv, Jobs
<1>12. IsStore(StoreNow, Named, Contents) /\ IsStore(StoreNow', Named', Contents')
  BY DEF StoreInv, StoreHolds
<1>13. /\ PendingNow = job /\ job.op = "write"
       /\ PendingNow' = [op |-> "none"]
  BY <1>2, PendingIs, PendingOver DEF StoreInv, Jobs
<1> HIDE DEF StoreNow, Named, Contents, PendingNow
<1>14. PICK n, data : n = job.name /\ data = job.data
  OBVIOUS
<1>15. OthersAlike(k, {n}, Named, Contents, Named', Contents')
  BY <1>8, <1>10, <1>11, <1>14 DEF OthersAlike
<1>16. PICK S, T, N, M, C, D : /\ S = StoreNow /\ N = Named /\ C = Contents
                               /\ T = StoreNow' /\ M = Named' /\ D = Contents'
  OBVIOUS
<1>17. /\ n \notin DOMAIN S
       /\ T = [m \in DOMAIN S \cup {n} |-> IF m = n THEN D[k] ELSE S[m]]
  BY <1>7, <1>9, <1>12, <1>14, <1>15, <1>16, OneMore
<1>18. D[k] = data
  BY <1>6, <1>14, <1>16
<1> QED  BY <1>2, <1>13, <1>14, <1>16, <1>17, <1>18, IsPut

-----------------------------------------------------------------------------
\* The refinement.

\* Every step of fs.c is a step of the store, or none.
LEMMA StoreStep ==
  ASSUME UsedOnDevice, ShortReads,
         ~TornDeletes, StoreInv, Written, StoreHolds', TypeOK', Fit', ~torn', [Next]_vars
  PROVE  [Store!Next]_(Store!svars)
<1>1. ASSUME NEW n \in FatName, Delete(n) PROVE Store!Call
  BY <1>1, DeleteStep DEF Store!Call
<1>2. ASSUME NEW n \in FatName, NEW data \in Texts, Write(n, data) PROVE Store!Call
  BY <1>2, WriteStep DEF Store!Call
<1>3. ASSUME NEW n \in FatName, NEW text \in Texts, Append_(n, text) PROVE Store!Call
  BY <1>3, AppendStep DEF Store!Call
<1>4. ASSUME NEW src \in FatName, NEW dst \in FatName, Copy(src, dst) PROVE Store!Call
  BY <1>4, CopyStep DEF Store!Call
<1>5. ASSUME NEW old \in FatName, NEW new \in FatName, Rename(old, new) PROVE Store!Call
  BY <1>5, RenameStep DEF Store!Call
<1>6. CASE Call
  BY <1>1, <1>2, <1>3, <1>4, <1>5, <1>6 DEF Call, Store!Next
<1>7. CASE FreeOne \/ EraseEntry \/ AllocFull \/ CreateFull \/ GiveUp \/ CreateEntry
  BY <1>7, FreeOneStep, EraseStep, FullStep, CreateStep DEF Store!Next, Store!Work
<1>8. CASE WriteSecondFat \/ Alloc \/ Link \/ WriteData \/ Seal
  BY <1>8, SilentStep
<1>9. CASE Crash
  BY <1>9, CrashStep DEF Store!Next
<1>10. CASE UNCHANGED vars
  <2>1. \A s \in Slots : (Whole(s)' <=> Whole(s)) /\ dir'[s].name = dir[s].name
    BY <1>10 DEF vars, disk, locals, Whole, IsFile, Tearing
  <2> QED  BY <1>10, <2>1, Stutters DEF vars
<1> QED  BY <1>6, <1>7, <1>8, <1>9, <1>10 DEF Next, Step

\* The invariants give what the steps start from.
LEMMA StoreHoldsIf == Directory /\ Jobs => StoreHolds
BY StoreFits DEF Directory, Jobs, StoreHolds

\* An empty disk is an empty store.
LEMMA StoreStarts == Init => Jobs /\ Written /\ Store!Init
<1> SUFFICES ASSUME Init PROVE Jobs /\ Written /\ Store!Init
  OBVIOUS
<1>1. \A s \in Slots : ~IsFile(s)
  BY DEF Init, IsFile, UnusedSlot
<1>2. Jobs /\ Written
  BY <1>1 DEF Init, Jobs, Written, Building, NamesInUse, NoJob
<1>3. StoreNow = [n \in {} |-> <<>>]
  BY <1>1 DEF StoreNow, HasFile, Whole
<1>4. PendingNow = [op |-> "none"] /\ result = "none"
  BY PendingIs DEF Init, NoJob
<1> QED  BY <1>2, <1>3, <1>4 DEF Store!Init, Store!NoCall, StoreNow, PendingNow

\* Every behaviour of fs.c in which power does not fail while a chain is being
\* freed is one of the store fs.h promises, its fairness apart, when no cluster
\* is used that is not on the device and the files that append and cp start from
\* fit in one sector and in the buffer of cp.
THEOREM FilesAreStore ==
  ASSUME ShortReads, ~TornDeletes
  PROVE  Spec /\ []UsedOnDevice => Store!Init /\ [][Store!Next]_(Store!svars)
<1>1. Init => Jobs /\ Written /\ Store!Init
  BY StoreStarts
<1>2. TypeOK /\ Control /\ Directory /\ Jobs /\ [Next]_vars => Jobs'
  BY JobsStep
<1>3. UsedOnDevice /\ TypeOK /\ Control /\ Chains /\ Fit /\ Fit' /\ Jobs /\ Written
        /\ [Next]_vars => Written'
  BY WrittenStep DEF Jobs
<1>4. Spec => []Jobs
  BY <1>1, <1>2, Typed, DirectoryAlways, PTL DEF Spec
<1>5. Spec /\ []UsedOnDevice => []Written
  BY <1>1, <1>3, <1>4, Typed, ChainsAlways, FitAlways, PTL DEF Spec
<1>6. Spec => []StoreHolds
  BY <1>4, StoreHoldsIf, DirectoryAlways, PTL
<1>7. UsedOnDevice /\ StoreInv /\ Written /\ StoreHolds' /\ TypeOK' /\ Fit' /\ Jobs'
        /\ [Next]_vars => [Store!Next]_(Store!svars)
  BY StoreStep DEF Jobs
<1>8. TypeOK /\ Control /\ Directory /\ Chains /\ Fit /\ Jobs /\ StoreHolds => StoreInv
  BY DEF StoreInv
<1> QED
  BY <1>1, <1>4, <1>5, <1>6, <1>7, <1>8, Typed, DirectoryAlways, ChainsAlways, FitAlways,
     PTL
     DEF Spec

\* No cluster behind the end of the device is taken while one before it is
\* free, and none is at all when the device has a sector for every cluster.
LEMMA OnDeviceFirst ==
  ASSUME TypeOK, Alloc, NEW c \in Clusters, fat[c] = Free, c <= LastOnDevice
  PROVE  cluster' <= LastOnDevice
<1>1. PICK d \in Clusters : LowestFree(d) /\ cluster' = d
  BY DEF Alloc
<1>2. ~(c < d)
  BY <1>1 DEF LowestFree
<1>3. c \in Nat /\ d \in Nat /\ LastOnDevice \in Nat
  BY ClusterNumbers, SizesAssumption
<1> QED  BY <1>1, <1>2, <1>3

LEMMA AllOnDevice ==
  ASSUME LastOnDevice >= MaxClusters - 1 PROVE UsedOnDevice
BY SizesAssumption DEF UsedOnDevice, Clusters, FirstEnd

-----------------------------------------------------------------------------
\* How long a call runs.

\* Steps a call has still to take: at most two for each cluster that freeing
\* meets, at most five for each sector still to be written, and those that end
\* it; one more while the second copy of the FAT is an entry behind.
Used    == {c \in Clusters : fat[c] # Free}
Freeing == 2 * Cardinality(Used) + (IF cluster \in Clusters THEN 2 ELSE 0) + 1
Ending  == 2 * MaxClusters + 1
Left    == 5 * SectorsFor(Len(job.data) - done)
StepsLeft ==
  (IF mirror = 0 THEN 0 ELSE 1) +
  CASE pc = "idle"     -> 0
    [] pc = "free_new" -> Freeing
    [] pc = "entry"    -> Ending
    [] pc = "seal"     -> Ending + 2
    [] pc = "data"     -> Ending + 3 + Left
    [] pc = "link"     -> Ending + 5 + Left
    [] pc = "alloc"    -> Ending + 7 + Left
    [] pc = "free_old" -> Ending + 7 + Left + Freeing

\* A length that is more than one sector asks for one sector more than what is
\* left of it after the first.
LEMMA OneSectorLess ==
  ASSUME NEW m \in Nat \ {0}
  PROVE  /\ SectorsFor(m) \in Nat \ {0}
         /\ m > SectorSize => SectorsFor(m - SectorSize) = SectorsFor(m) - 1
<1>1. SectorSize \in Nat \ {0} /\ SectorsFor(m) \in Nat
  BY SizesAssumption, SectorsForType
<1> DEFINE n == SectorsFor(m)
<1>2. n * SectorSize <= m + SectorSize - 1 /\ m + SectorSize - 1 < n * SectorSize + SectorSize
  BY <1>1 DEF SectorsFor
<1>3. n # 0
  BY <1>1, <1>2
<1>4. ASSUME m > SectorSize PROVE SectorsFor(m - SectorSize) = n - 1
  <2>1. /\ (n - 1) * SectorSize = n * SectorSize - SectorSize
        /\ n * SectorSize \in Nat /\ (n - 1) * SectorSize \in Nat
    BY <1>1, <1>3
  <2>2. /\ (n - 1) * SectorSize <= m - 1
        /\ m - 1 < (n - 1) * SectorSize + SectorSize
    BY <1>1, <1>2, <2>1
  <2>3. (m - 1) \div SectorSize = n - 1
    <3>1. n - 1 \in Nat /\ m - 1 \in Nat
      BY <1>1, <1>3
    <3> HIDE DEF n
    <3> QED  BY <1>1, <2>2, <3>1, Quotient
  <2>4. (m - SectorSize) + SectorSize - 1 = m - 1
    BY <1>1
  <2> QED  BY <2>3, <2>4 DEF SectorsFor
<1> QED  BY <1>1, <1>3, <1>4

LEMMA UsedCount ==
  /\ IsFiniteSet(Used)
  /\ Cardinality(Used) \in Nat
  /\ Cardinality(Used) <= MaxClusters - 2
<1>1. /\ IsFiniteSet(Clusters)
      /\ Cardinality(Clusters) = MaxClusters - 2
  <2>1. 2 \in Int /\ MaxClusters - 1 \in Int /\ MaxClusters >= 4
    BY SizesAssumption DEF FirstEnd
  <2>2. /\ IsFiniteSet(2 .. (MaxClusters - 1))
        /\ Cardinality(2 .. (MaxClusters - 1)) =
             IF 2 > MaxClusters - 1 THEN 0 ELSE (MaxClusters - 1) - 2 + 1
    BY <2>1, FS_Interval, Zenon
  <2>3. ~(2 > MaxClusters - 1) /\ (MaxClusters - 1) - 2 + 1 = MaxClusters - 2
    BY SizesAssumption DEF FirstEnd
  <2> QED  BY <2>2, <2>3 DEF Clusters
<1>2. Used \in SUBSET Clusters
  BY DEF Used
<1> QED  BY <1>1, <1>2, FS_Subset, FS_CardinalityType

\* The parts of StepsLeft, at every state.
PartsBounded ==
  /\ Freeing \in Nat \ {0} /\ Freeing < Ending /\ Ending \in Nat
  /\ pc \in {"free_old", "alloc", "link", "data"} => Left \in Nat
  /\ pc \in {"alloc", "link", "data"} => Left >= 5
  /\ pc \in {"idle", "free_old", "free_new", "alloc", "link", "data", "seal", "entry"}

LEMMA StepParts == TypeOK /\ Progress => PartsBounded
<1> SUFFICES ASSUME TypeOK, Progress PROVE PartsBounded
  OBVIOUS
<1>1. MaxClusters \in Nat /\ MaxClusters >= 4
  BY SizesAssumption DEF FirstEnd
<1>2. Freeing \in Nat \ {0} /\ Freeing < Ending /\ Ending \in Nat
  BY <1>1, UsedCount DEF Freeing, Ending
<1>3. Len(job.data) \in Nat /\ done \in Nat
  BY DEF TypeOK
<1>4. ASSUME pc = "free_old" PROVE Left \in Nat
  <2>1. Len(job.data) - done \in Nat
    <3>1. done = 0
      BY <1>4 DEF Progress
    <3> QED  BY <1>3, <3>1
  <2>2. SectorsFor(Len(job.data) - done) \in Nat
    BY <2>1, SectorsForType
  <2> QED  BY <2>2 DEF Left
<1>5. ASSUME pc \in {"alloc", "link", "data"} PROVE Left \in Nat /\ Left >= 5
  <2>1. Len(job.data) - done \in Nat \ {0}
    BY <1>3, <1>5 DEF Progress
  <2> QED  BY <2>1, OneSectorLess DEF Left
<1>6. pc \in {"idle", "free_old", "free_new", "alloc", "link", "data", "seal", "entry"}
  BY Zenon DEF TypeOK
<1> QED  BY <1>2, <1>4, <1>5, <1>6 DEF PartsBounded

LEMMA StepPartsNext == (TypeOK /\ Progress => PartsBounded)'
BY StepParts, PTL

LEMMA StepsLeftType ==
  ASSUME PartsBounded PROVE StepsLeft \in Nat /\ (pc # "idle" => StepsLeft # 0)
BY DEF StepsLeft, PartsBounded

\* Freeing a cluster leaves less to free.
LEMMA FreeOneShortens ==
  ASSUME TypeOK, FreeOne
  PROVE  Freeing' + 1 < Freeing
<1>1. /\ cluster \in Clusters /\ fat' = [fat EXCEPT ![cluster] = Free]
      /\ cluster' = fat[cluster]
  BY DEF FreeOne, FatSet
<1>2. /\ IsFiniteSet(Used) /\ Cardinality(Used) \in Nat
  BY UsedCount
<1>3. Used' = Used \ {cluster}
  BY <1>1 DEF Used, TypeOK
<1>4. CASE cluster \in Used
  <2>1. Cardinality(Used') = Cardinality(Used) - 1
    BY <1>2, <1>3, <1>4, FS_RemoveElement
  <2> QED  BY <1>1, <1>2, <2>1 DEF Freeing
<1>5. CASE cluster \notin Used
  <2>1. Used' = Used /\ cluster' \notin Clusters
    BY <1>1, <1>3, <1>5, ClusterNumbers DEF Used
  <2> QED  BY <1>1, <1>2, <2>1 DEF Freeing
<1> QED  BY <1>4, <1>5

LEMMA StepsLeftFalls ==
  ASSUME TypeOK, Control, Progress, TypeOK', Control', Progress',
         pc # "idle", Step \/ Crash
  PROVE  StepsLeft' < StepsLeft
<1>0. /\ StepsLeft \in Nat \ {0}
      /\ Freeing \in Nat \ {0} /\ Freeing < Ending /\ Ending \in Nat
      /\ pc \in {"free_old", "alloc", "link", "data"} => Left \in Nat
      /\ pc \in {"alloc", "link", "data"} => Left >= 5
      /\ pc \in {"free_old", "free_new", "alloc", "link", "data", "seal", "entry"}
  BY StepsLeftType, StepParts DEF PartsBounded
<1>1. /\ Freeing' \in Nat \ {0} /\ Freeing' < Ending /\ Ending' = Ending
      /\ (pc \in {"free_old", "alloc", "link", "data"})' => Left' \in Nat
      /\ (pc \in {"alloc", "link", "data"})' => Left' >= 5
  BY StepPartsNext DEF PartsBounded, Ending
<1>2. ASSUME UNCHANGED <<job, done>> PROVE Left' = Left
  BY <1>2 DEF Left
<1>3. ASSUME pc' = "idle", mirror' = 0 PROVE StepsLeft' < StepsLeft
  <2>1. StepsLeft' = 0
    BY <1>3 DEF StepsLeft
  <2> QED  BY <1>0, <2>1
<1>4. CASE Crash
  BY <1>3, <1>4 DEF Crash, Return
<1>5. CASE WriteSecondFat
  <2>1. UNCHANGED <<fat, cluster, pc, job, done>> /\ mirror # 0 /\ mirror' = 0
    BY <1>5 DEF WriteSecondFat, locals
  <2>2. Freeing' = Freeing /\ Left' = Left
    BY <2>1 DEF Freeing, Used, Left
  <2> QED  BY <1>0, <1>1, <2>1, <2>2 DEF StepsLeft
<1>6. CASE FreeOne
  <2>1. UNCHANGED <<pc, job, done>> /\ mirror = 0 /\ pc \in {"free_old", "free_new"}
    BY <1>6 DEF FreeOne, Running
  <2>2. Freeing' + 1 < Freeing /\ Left' = Left
    BY <1>2, <1>6, <2>1, FreeOneShortens
  <2> QED  BY <1>0, <1>1, <2>1, <2>2 DEF StepsLeft
<1>7. CASE EraseEntry
  <2>1. pc = "free_old" /\ mirror = 0 /\ mirror' = 0
    BY <1>7 DEF EraseEntry, Running
  <2>2. CASE job.op = "delete"
    BY <1>3, <1>7, <2>1, <2>2 DEF EraseEntry, Return
  <2>3. CASE job.op # "delete"
    <3>1. UNCHANGED <<job, done>> /\ pc' \in {"entry", "alloc"}
      BY <1>7, <2>3 DEF EraseEntry, AfterDelete
    <3> QED  BY <1>0, <1>1, <1>2, <2>1, <3>1 DEF StepsLeft
  <2> QED  BY <2>2, <2>3
<1>8. CASE Alloc
  <2>1. /\ pc = "alloc" /\ mirror = 0 /\ pc' \in {"data", "link"}
        /\ UNCHANGED <<job, done>>
    BY <1>8 DEF Alloc, Running
  <2> QED  BY <1>0, <1>1, <1>2, <2>1 DEF StepsLeft
<1>9. CASE AllocFull \/ CreateFull
  <2>1. pc \in {"alloc", "entry"} /\ mirror = 0 /\ mirror' = 0
    BY <1>9 DEF AllocFull, CreateFull, Running
  <2>2. pc' = "idle" \/ pc' = "free_new"
    BY <1>9 DEF AllocFull, CreateFull, GiveBack, Return
  <2> QED  BY <1>0, <1>1, <1>3, <2>1, <2>2 DEF StepsLeft
<1>10. CASE Link
  <2>1. /\ pc = "link" /\ mirror = 0 /\ pc' = "data" /\ UNCHANGED <<job, done>>
    BY <1>10 DEF Link, Running, locals
  <2> QED  BY <1>0, <1>1, <1>2, <2>1 DEF StepsLeft
<1>11. CASE WriteData
  <2>1. pc = "data" /\ mirror = 0 /\ mirror' = 0 /\ job' = job
    BY <1>11 DEF WriteData, Running
  <2>2. CASE ~MoreToWrite
    <3>1. pc' = "seal"
      BY <1>11, <2>2 DEF WriteData
    <3> QED  BY <1>0, <1>1, <2>1, <3>1 DEF StepsLeft
  <2>3. CASE MoreToWrite
    <3>1. pc' = "alloc" /\ done' = done + SectorSize
      BY <1>11, <2>3 DEF WriteData
    <3>2. Len(job.data) - done \in Nat \ {0} /\ Len(job.data) - done > SectorSize
      BY <2>1, <2>3, SizesAssumption DEF MoreToWrite, Progress, TypeOK
    <3>3. Len(job'.data) - done' = (Len(job.data) - done) - SectorSize
      BY <2>1, <3>1, SizesAssumption DEF TypeOK
    <3>4. Left' + 5 = Left
      BY <3>2, <3>3, OneSectorLess DEF Left
    <3> QED  BY <1>0, <1>1, <2>1, <3>1, <3>4 DEF StepsLeft
  <2> QED  BY <2>2, <2>3
<1>12. CASE Seal
  <2>1. pc = "seal" /\ mirror = 0 /\ pc' = "entry"
    BY <1>12 DEF Seal, Running
  <2> QED  BY <1>0, <1>1, <2>1 DEF StepsLeft
<1>13. CASE CreateEntry \/ GiveUp
  <2>1. pc' = "idle" /\ mirror' = 0
    BY <1>13 DEF CreateEntry, GiveUp, Return, Running, disk
  <2> QED  BY <1>3, <2>1
<1> QED  BY <1>4, <1>5, <1>6, <1>7, <1>8, <1>9, <1>10, <1>11, <1>12, <1>13 DEF Step

\* fs.c: no call goes round for ever, on a full disk or after a power loss
\* that has let two files share clusters either: StepsLeft is a number, and
\* every step of a call makes it smaller.
THEOREM CallsRunOut ==
  Spec => [](StepsLeft \in Nat) /\ [][pc # "idle" => StepsLeft' < StepsLeft]_vars
<1>1. TypeOK /\ Fit => StepsLeft \in Nat
  BY StepsLeftType, StepParts DEF Fit
<1>2. ASSUME TypeOK, Control, Fit, TypeOK', Control', Fit', [Next]_vars
      PROVE  [pc # "idle" => StepsLeft' < StepsLeft]_vars
  <2> SUFFICES ASSUME pc # "idle", Next PROVE StepsLeft' < StepsLeft
    BY <1>2
  <2>1. Step \/ Crash
    BY DEF Next, Call, Delete, Write, Append_, Copy, Rename
  <2> QED  BY <1>2, <2>1, StepsLeftFalls DEF Fit
<1> QED  BY <1>1, <1>2, Typed, FitAlways, PTL DEF Spec
=============================================================================
