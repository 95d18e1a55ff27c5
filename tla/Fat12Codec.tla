----------------------------- MODULE Fat12Codec ------------------------------
(***************************************************************************)
(* fat_get and fat_set of src/src/fs.c: twelve-bit entries packed three    *)
(* bytes to two into the sectors of both copies of the FAT.  Each reads    *)
(* ONE sector into a buffer of that size, also for an entry whose second   *)
(* byte is the first of the next sector; the byte behind the buffer is     *)
(* then whatever the stack holds there.                                    *)
(*                                                                         *)
(* Module Fat12 reads and writes entries whole: this module says for which *)
(* clusters that is what the code does.                                    *)
(***************************************************************************)
EXTENDS Integers, FiniteSets

CONSTANTS
  SectorBytes,   \* SECTOR_SIZE
  FatSize,       \* sectors of one copy of the FAT
  Values,        \* what alloc, link and free store
  StackBytes     \* what the byte behind the buffer may hold

ASSUME LayoutAssumption ==
  /\ SectorBytes \in Nat \ {0, 1} /\ FatSize \in Nat \ {0}
  /\ Values \subseteq 0 .. 4095 /\ StackBytes \subseteq 0 .. 255

VARIABLES
  disk,    \* the sectors of both copies, byte by byte
  stored,  \* what was last stored for each cluster
  read     \* the last cluster read, and the value fat_get returned

codec_vars == <<disk, stored, read>>

Copies       == 0 .. 1
max_clusters == (FatSize * SectorBytes * 2) \div 3
Clusters     == 2 .. (max_clusters - 1)

ByteOffset(c) == c + (c \div 2)
FatSector(c)  == ByteOffset(c) \div SectorBytes
IndexIn(c)    == ByteOffset(c) % SectorBytes
IsOdd(c)      == c % 2 = 1
Straddles(c)  == IndexIn(c) = SectorBytes - 1

\* The entry of c in its two bytes.
DecodeBug(c, low, high) ==                       \* fault: parity swapped
  IF IsOdd(c) THEN low + 256 * (high % 16) ELSE (low \div 16) + 16 * high
Decode(c, low, high) ==
  IF IsOdd(c) THEN (low \div 16) + 16 * high ELSE low + 256 * (high % 16)

\* The two bytes with the entry of c stored: the other half-byte is kept.
LowByteBug(c, low, v)   == IF IsOdd(c) THEN 16 * (v % 16) ELSE v % 256   \* fault: mask dropped
LowByte(c, low, v)      == IF IsOdd(c) THEN (low % 16) + 16 * (v % 16) ELSE v % 256
HighByte(c, high, v)    == IF IsOdd(c) THEN (v \div 16) % 256
                           ELSE 16 * (high \div 16) + (v \div 256)

-----------------------------------------------------------------------------
\* fat_get reads the first copy.
fat_get(c) ==
  LET buf == disk[0][FatSector(c)]
      low == buf[IndexIn(c)]
  IN  /\ \E behind \in StackBytes :
           read' = [cluster |-> c,
                    value |-> Decode(c, low, IF Straddles(c) THEN behind
                                             ELSE buf[IndexIn(c) + 1])]
      /\ UNCHANGED <<disk, stored>>

\* fat_set stores into both; of an entry that straddles, the second byte goes
\* behind the buffer and never to the disk.
Stored(buf, c, v) ==
  [b \in 0 .. (SectorBytes - 1) |->
     CASE b = IndexIn(c)     -> LowByte(c, buf[b], v)
       [] b = IndexIn(c) + 1 -> HighByte(c, buf[b], v)
       [] OTHER              -> buf[b]]
fat_set(c, v) ==
  /\ disk' = [k \in Copies |->
                [disk[k] EXCEPT ![FatSector(c)] = Stored(disk[k][FatSector(c)], c, v)]]
  /\ stored' = [stored EXCEPT ![c] = v]
  /\ UNCHANGED read

CodecInit ==
  /\ disk = [k \in Copies |-> [s \in 0 .. (FatSize - 1) |->
               [b \in 0 .. (SectorBytes - 1) |-> 0]]]
  /\ stored = [c \in Clusters |-> 0]
  /\ read = [cluster |-> 2, value |-> 0]

CodecNext == \E c \in Clusters : fat_get(c) \/ \E v \in Values : fat_set(c, v)

CodecSpec == CodecInit /\ [][CodecNext]_codec_vars

-----------------------------------------------------------------------------
ByteOfDisk(k, off) == disk[k][off \div SectorBytes][off % SectorBytes]
Whole == {c \in Clusters : ~Straddles(c)}
Entry(k, c) == Decode(c, ByteOfDisk(k, ByteOffset(c)), ByteOfDisk(k, ByteOffset(c) + 1))

\* Both copies hold, for every cluster whose entry lies in one sector, what
\* was last stored for it, whatever has been stored for its neighbours since,
\* the straddling ones included.
EntriesKept == \A k \in Copies, c \in Whole : Entry(k, c) = stored[c]

\* fat_get returns it. (Of a straddling entry it does not: the second byte
\* comes from behind its buffer.)
ReadsWhole ==
  [][read' # read /\ read'.cluster \in Whole =>
       read'.value = stored[read'.cluster]]_codec_vars
=============================================================================
