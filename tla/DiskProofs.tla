----------------------------- MODULE DiskProofs -----------------------------
(***************************************************************************)
(* Proofs about the disk below the file system: AtaDrive, for every size   *)
(* of a sector and every address, and Fat12Codec, for every size of a      *)
(* sector and of the FAT.                                                  *)
(***************************************************************************)
EXTENDS AtaDrive, Fat12Codec, TLAPS

Ranges ==
  /\ pc \in {"idle", "bsy", "drq", "words", "finish"}
  /\ job.op \in {"none", "read", "write"}
  /\ i \in Nat /\ left \in Nat /\ bsy \in BOOLEAN /\ drq \in BOOLEAN

\* Where the drive is when the driver is at each pc.
Idle     == pc = "idle" => job = NoJob /\ ~bsy /\ ~drq /\ left = 0
Waiting  == pc = "bsy" => /\ job.op # "none" /\ phase = job.op /\ i = 0
                          /\ \/ bsy /\ ~drq
                             \/ ~bsy /\ drq /\ left = WordsPerSector
Offered  == pc = "drq" => /\ job.op # "none" /\ phase = job.op /\ i = 0
                          /\ ~bsy /\ drq /\ left = WordsPerSector
Passing  == pc = "words" =>
              /\ job.op # "none" /\ left = WordsPerSector - i /\ (drq <=> left > 0)
              /\ left > 0 => phase = job.op /\ ~bsy
              /\ left = 0 => IF job.op = "read" THEN ~bsy ELSE phase = "store"
Storing  == pc = "finish" => job.op = "write" /\ ~drq /\ left = 0 /\ phase = "store"

Inv == Ranges /\ Idle /\ Waiting /\ Offered /\ Passing /\ Storing

LEMMA InitInv ==
  ASSUME DriveAssumption, Init
  PROVE  Inv
BY DEF DriveAssumption, Init, Inv, Ranges, Idle, Waiting, Offered, Passing, Storing, NoJob

LEMMA NextInv ==
  ASSUME DriveAssumption, Inv, [Next]_vars
  PROVE  Inv'
<1> USE DEF DriveAssumption, Inv, Ranges, Idle, Waiting, Offered, Passing, Storing
<1>1. ASSUME NEW lba \in Lba, ata_read_sector(lba) PROVE Inv'
  BY <1>1 DEF ata_read_sector, Issue
<1>2. ASSUME NEW lba \in Lba, NEW data \in Sector, ata_write_sector(lba, data) PROVE Inv'
  BY <1>2 DEF ata_write_sector, Issue
<1>3. CASE WaitReady
  BY <1>3 DEF WaitReady, drive
<1>4. CASE WaitData
  BY <1>4 DEF WaitData, drive
<1>5. CASE ReadWord
  BY <1>5 DEF ReadWord, More, Passed
<1>6. CASE WriteWord
  BY <1>6 DEF WriteWord, More, Passed
<1>7. CASE EndOfWords
  BY <1>7 DEF EndOfWords, More, AfterWords, drive, NoJob
<1>8. CASE WaitWritten
  BY <1>8 DEF WaitWritten, drive, NoJob
<1>9. CASE Ready
  <2>1. pc = "bsy"
    BY <1>9 DEF Ready
  <2>2. UNCHANGED driver /\ phase' = phase /\ bsy' = FALSE /\ drq' = TRUE
          /\ left' = WordsPerSector
    BY <1>9 DEF Ready
  <2> QED  BY <2>1, <2>2 DEF driver
<1>10. CASE Store
  BY <1>10 DEF Store, driver
<1>11. CASE PowerOff
  BY <1>11 DEF PowerOff, NoJob
<1>12. CASE UNCHANGED vars
  BY <1>12 DEF vars, driver, drive
<1> QED
  BY <1>1, <1>2, <1>3, <1>4, <1>5, <1>6, <1>7, <1>8, <1>9, <1>10, <1>11, <1>12
     DEF Next, Call, Driver, Drive

\* Between calls of ata_read_sector and ata_write_sector the drive is neither
\* at work nor in the middle of a transfer, and during one it is at the word
\* the driver is at.
THEOREM StaysInStep == Spec => []InStep
<1>1. Inv => InStep
  BY DEF Inv, InStep, Idle, Passing
<1> QED  BY <1>1, DriveAssumption, InitInv, NextInv, PTL DEF Spec

-----------------------------------------------------------------------------
(* The waits.                                                              *)

\* Steps of driver and drive that a call still takes: two for each word, since
\* the last one of a write sets the drive to work, and those around them.
StepsToGo ==
  (IF bsy THEN 1 ELSE 0) +
  CASE pc = "idle"   -> 0
    [] pc = "finish" -> 1
    [] pc = "words"  -> 2 + 2 * (WordsPerSector - i)
    [] pc = "drq"    -> 3 + 2 * WordsPerSector
    [] pc = "bsy"    -> 4 + 2 * WordsPerSector

\* The drive is at work, or what the driver waits for has come.
SomebodyMoves ==
  \/ bsy /\ phase \in {"read", "write", "store"}
  \/ pc = "bsy" /\ ~bsy
  \/ pc = "drq" /\ drq
  \/ pc = "words" /\ job.op \in {"read", "write"}
  \/ pc = "finish" /\ ~bsy /\ ~drq

\* ata.c:33-36, 58-73: no loop waits for what does not come, since the driver
\* waits only for a drive that is at work or is done; and no transfer goes on
\* for ever, since every step of either brings its end nearer.
THEOREM WaitsEnd ==
  Spec => /\ [](pc # "idle" => SomebodyMoves)
          /\ [](StepsToGo \in Nat)
          /\ [][pc # "idle" => StepsToGo' < StepsToGo]_vars
<1> USE DEF Ranges, Idle, Waiting, Offered, Passing, Storing
<1>1. Inv => (pc # "idle" => SomebodyMoves)
  BY DEF Inv, SomebodyMoves
<1>2. Inv => StepsToGo \in Nat
  BY DriveAssumption DEF DriveAssumption, Inv, StepsToGo
<1>3. ASSUME Inv, Inv', [Next]_vars
      PROVE  [pc # "idle" => StepsToGo' < StepsToGo]_vars
  <2> SUFFICES ASSUME pc # "idle", Next PROVE StepsToGo' < StepsToGo
    BY <1>3
  <2> USE DriveAssumption DEF DriveAssumption, StepsToGo
  <2>1. CASE WaitReady \/ WaitData
    BY <1>3, <2>1 DEF Inv, WaitReady, WaitData, drive
  <2>2. CASE ReadWord
    BY <1>3, <2>2 DEF Inv, ReadWord, More, Passed
  <2>3. CASE WriteWord
    BY <1>3, <2>3 DEF Inv, WriteWord, More, Passed
  <2>4. CASE EndOfWords
    <3>1. pc = "words" /\ i = WordsPerSector
      BY <1>3, <2>4 DEF Inv, EndOfWords, More
    <3>2. bsy' = bsy /\ pc' \in {"idle", "finish"}
      BY <2>4 DEF EndOfWords, AfterWords, drive
    <3> QED  BY <3>1, <3>2
  <2>5. CASE WaitWritten
    BY <1>3, <2>5 DEF Inv, WaitWritten, drive
  <2>6. CASE Ready \/ Store
    BY <1>3, <2>6 DEF Inv, Ready, Store, driver
  <2>7. CASE PowerOff
    BY <1>3, <2>7 DEF Inv, PowerOff
  <2> QED  BY <2>1, <2>2, <2>3, <2>4, <2>5, <2>6, <2>7
           DEF Next, Call, ata_read_sector, ata_write_sector, Issue, Driver, Drive
<1>4. Inv /\ [Next]_vars => Inv'
  BY DriveAssumption, NextInv
<1>5. Init => Inv
  BY DriveAssumption, InitInv
<1> QED  BY <1>1, <1>2, <1>3, <1>4, <1>5, PTL DEF Spec

-----------------------------------------------------------------------------
(* The address.                                                            *)

LEMMA DivMod ==
  ASSUME NEW n \in Nat, NEW m \in Nat \ {0}
  PROVE  n \div m \in Nat /\ n % m \in Nat /\ n % m < m /\ n = m * (n \div m) + (n % m)
BY SMT

LEMMA DivUnique ==
  ASSUME NEW n \in Nat, NEW m \in Nat \ {0}, NEW q \in Nat, NEW r \in Nat,
         r < m, n = m * q + r
  PROVE  n \div m = q
<1> DEFINE p == n \div m
<1>1. p \in Nat /\ n % m \in Nat /\ n % m < m /\ n = m * p + (n % m)
  BY DivMod
<1> HIDE DEF p
<1>2. CASE p < q
  <2>1. m * (p + 1) <= m * q
    BY <1>1, <1>2
  <2> QED BY <1>1, <2>1
<1>3. CASE q < p
  <2>1. m * (q + 1) <= m * p
    BY <1>1, <1>3
  <2> QED BY <1>1, <2>1
<1> QED BY <1>1, <1>2, <1>3 DEF p

LEMMA DivDiv ==
  ASSUME NEW n \in Nat, NEW a \in Nat \ {0}, NEW b \in Nat \ {0}
  PROVE  n \div (a * b) = (n \div a) \div b
<1> DEFINE q == n \div a  r == n % a  p == q \div b  s == q % b
<1>1. q \in Nat /\ r \in Nat /\ r < a /\ n = a * q + r
  BY DivMod
<1>2. p \in Nat /\ s \in Nat /\ s < b /\ q = b * p + s
  BY <1>1, DivMod
<1> HIDE DEF q, r, p, s
<1>3. n = (a * b) * p + (a * s + r)
  BY <1>1, <1>2
<1>4. a * (s + 1) <= a * b
  BY <1>2
<1>5. a * s + r \in Nat /\ a * s + r < a * b /\ a * b \in Nat \ {0}
  BY <1>1, <1>2, <1>4
<1>6. n \div (a * b) = p
  BY <1>2, <1>3, <1>5, DivUnique
<1> QED BY <1>6 DEF p, q

\* The four registers hold the whole address.
LEMMA AddressArrives ==
  ASSUME NEW lba \in Lba, registers = Registers(lba)
  PROVE  Addressed = lba
<1> DEFINE R == RegisterSize  q1 == lba \div R  q2 == q1 \div R  q3 == q2 \div R
<1>1. R \in Nat \ {0} /\ DriveBits \in Nat \ {0} /\ lba \in Nat
        /\ lba < R * R * R * DriveBits
  BY DriveAssumption
<1>2. q1 \in Nat /\ lba % R \in Nat /\ lba = R * q1 + (lba % R)
  BY <1>1, DivMod
<1>3. q2 \in Nat /\ q1 % R \in Nat /\ q1 = R * q2 + (q1 % R)
  BY <1>1, <1>2, DivMod
<1>4. q3 \in Nat /\ q2 % R \in Nat /\ q2 = R * q3 + (q2 % R)
  BY <1>1, <1>3, DivMod
<1>5. lba \div (R * R) = q2 /\ lba \div (R * R * R) = q3
  <2>1. R * R \in Nat \ {0}
    BY <1>1
  <2>2. lba \div (R * R) = q2
    BY <1>1, DivDiv
  <2> DEFINE S == R * R
  <2>3. S \in Nat \ {0}
    BY <2>1
  <2> HIDE DEF S
  <2>4. lba \div (S * R) = (lba \div S) \div R
    BY <1>1, <2>3, DivDiv
  <2> QED BY <2>2, <2>4 DEF S
<1> HIDE DEF q1, q2, q3
<1>6. q3 < DriveBits
  <2>1. (R * R * R) * q3 <= lba
    BY <1>1, <1>2, <1>3, <1>4
  <2>2. (R * R * R) * q3 < (R * R * R) * DriveBits /\ R * R * R \in Nat \ {0}
    BY <1>1, <1>4, <2>1
  <2> QED BY <1>1, <1>4, <2>2
<1>7. q3 % DriveBits = q3
  BY <1>1, <1>4, <1>6
<1>8. registers = [low |-> lba % R, mid |-> q1 % R, high |-> q2 % R, top |-> q3]
  BY <1>5, <1>7 DEF Registers, q1
<1>9. Addressed = ((q3 * R + (q2 % R)) * R + (q1 % R)) * R + (lba % R)
  BY <1>8 DEF Addressed
<1>10. q3 * R + (q2 % R) = q2 /\ q2 * R + (q1 % R) = q1 /\ q1 * R + (lba % R) = lba
  BY <1>1, <1>2, <1>3, <1>4
<1> QED BY <1>9, <1>10

-----------------------------------------------------------------------------
(* The refinement.                                                         *)

\* What is where while a sector is read or written.
Sectors ==
  /\ platter \in [Lba -> Sector] /\ latch \in Sector /\ buffer \in Sector
  /\ job = NoJob \/ job \in Disk!Request
Address == job # NoJob => registers = Registers(job.lba)
Reading ==
  job.op = "read" =>
    /\ pc \in {"bsy", "drq", "words"}
    /\ pc \in {"drq", "words"} \/ (pc = "bsy" /\ ~bsy) => latch = platter[job.lba]
    /\ pc = "words" => i <= WordsPerSector /\ \A j \in 0 .. (i - 1) : buffer[j] = latch[j]
Writing ==
  job.op = "write" =>
    /\ buffer = job.data /\ pc # "idle"
    /\ pc = "words" => i <= WordsPerSector /\ \A j \in 0 .. (i - 1) : latch[j] = buffer[j]
    /\ pc = "finish" => latch = buffer
    /\ ~bsy /\ (pc = "finish" \/ (pc = "words" /\ left = 0)) => platter[job.lba] = buffer
DataInv == Sectors /\ Address /\ Reading /\ Writing

LEMMA BlankIsSector == Blank \in Sector
<1>1. PICK w \in Word : TRUE
  BY DriveAssumption
<1>2. [j \in 0 .. (WordsPerSector - 1) |-> w] \in Sector
  BY <1>1 DEF Sector
<1> QED BY <1>2, Zenon DEF Blank

LEMMA InitData ==
  ASSUME Init
  PROVE  DataInv
BY BlankIsSector DEF Init, DataInv, Sectors, Address, Reading, Writing, NoJob

\* A call.
LEMMA CallData ==
  ASSUME Inv, DataInv, Call
  PROVE  DataInv' /\ \E c \in Disk!Request : Disk!Ask(c)
<1> USE BlankIsSector DEF Inv, Idle, DataInv, Sectors, Address, Reading, Writing, NoJob, Issue,
        Disk!Request, Disk!Ask, Disk!NoCall
<1>1. ASSUME NEW lba \in Lba, ata_read_sector(lba)
      PROVE  DataInv' /\ \E c \in Disk!Request : Disk!Ask(c)
  <2>1. [op |-> "read", lba |-> lba] \in Disk!Request
    OBVIOUS
  <2> QED BY <1>1, <2>1 DEF ata_read_sector
<1>2. ASSUME NEW lba \in Lba, NEW data \in Sector, ata_write_sector(lba, data)
      PROVE  DataInv' /\ \E c \in Disk!Request : Disk!Ask(c)
  <2>1. [op |-> "write", lba |-> lba, data |-> data] \in Disk!Request
    OBVIOUS
  <2> QED BY <1>2, <2>1 DEF ata_write_sector
<1> QED BY <1>1, <1>2 DEF Call

\* A word passes, and is the one the loop is at.
LEMMA WordsData ==
  ASSUME Inv, DataInv, ReadWord \/ WriteWord
  PROVE  DataInv' /\ UNCHANGED Disk!vars
<1>1. /\ pc = "words" /\ i < WordsPerSector /\ i \in Nat /\ left = WordsPerSector - i /\ drq
      /\ WordsPerSector - left = i /\ i' = i + 1
           /\ UNCHANGED <<pc, job, registers, platter>>
  BY DriveAssumption DEF ReadWord, WriteWord, More, Inv, Ranges, Passing
<1>2. i \in 0 .. (WordsPerSector - 1) /\ platter \in [Lba -> Sector] /\ latch \in Sector
        /\ buffer \in Sector
  BY <1>1, DriveAssumption DEF DataInv, Sectors
<1>3. CASE ReadWord
  <2>1. job.op = "read" /\ buffer' = [buffer EXCEPT ![i] = latch[i]]
          /\ UNCHANGED <<latch, bsy>>
    BY <1>1, <1>3 DEF ReadWord
  <2>2. buffer' \in Sector
    BY <1>2, <2>1 DEF Sector
  <2>3. Sectors' /\ Address' /\ Writing'
    BY <1>1, <2>1, <2>2 DEF DataInv, Sectors, Address, Writing, Disk!Request
  <2>4. i' <= WordsPerSector /\ \A j \in 0 .. (i' - 1) : buffer'[j] = latch'[j]
    <3>1. \A j \in 0 .. (i - 1) : buffer[j] = latch[j]
      BY <1>1, <2>1 DEF DataInv, Reading
    <3>2. ASSUME NEW j \in 0 .. (i' - 1) PROVE j = i \/ j \in 0 .. (i - 1)
      BY <1>1
    <3>3. DOMAIN buffer = 0 .. (WordsPerSector - 1)
      BY <1>2 DEF Sector
    <3>4. \A j \in 0 .. (i - 1) : buffer'[j] = latch'[j]
      BY <1>1, <2>1, <3>1
    <3>5. buffer'[i] = latch'[i]
      BY <1>2, <2>1, <3>3
    <3>6. i' <= WordsPerSector
      BY <1>1, DriveAssumption
    <3> QED BY <3>2, <3>4, <3>5, <3>6
  <2>5. Reading'
    BY <1>1, <2>1, <2>4 DEF DataInv, Reading
  <2> QED BY <1>1, <2>1, <2>3, <2>5 DEF DataInv, Disk!vars
<1>4. CASE WriteWord
  <2>1. /\ job.op = "write" /\ latch' = [latch EXCEPT ![i] = buffer[i]] /\ UNCHANGED buffer
        /\ left' = left - 1 /\ bsy' = (left = 1)
    BY <1>1, <1>4 DEF WriteWord, Passed
  <2>2. latch' \in Sector
    BY <1>2, <2>1 DEF Sector
  <2>3. Sectors' /\ Address' /\ Reading'
    BY <1>1, <2>1, <2>2 DEF DataInv, Sectors, Address, Reading, Disk!Request
  <2>4. i' <= WordsPerSector /\ \A j \in 0 .. (i' - 1) : latch'[j] = buffer'[j]
    <3>1. \A j \in 0 .. (i - 1) : latch[j] = buffer[j]
      BY <1>1, <2>1 DEF DataInv, Writing
    <3>2. ASSUME NEW j \in 0 .. (i' - 1) PROVE j = i \/ j \in 0 .. (i - 1)
      BY <1>1
    <3>3. DOMAIN latch = 0 .. (WordsPerSector - 1)
      BY <1>2 DEF Sector
    <3>4. \A j \in 0 .. (i - 1) : latch'[j] = buffer'[j]
      BY <1>1, <2>1, <3>1
    <3>5. latch'[i] = buffer'[i]
      BY <1>2, <2>1, <3>3
    <3>6. i' <= WordsPerSector
      BY <1>1, DriveAssumption
    <3> QED BY <3>2, <3>4, <3>5, <3>6
  <2>5. ~(~bsy' /\ left' = 0)
    <3>1. left' = 0 => left = 1
      BY <1>1, <2>1, DriveAssumption
    <3>2. left = 1 => bsy'
      BY <2>1, Zenon
    <3> QED BY <3>1, <3>2
  <2>6. Writing'
    BY <1>1, <2>1, <2>4, <2>5 DEF DataInv, Writing
  <2> QED BY <1>1, <2>1, <2>3, <2>6 DEF DataInv, Disk!vars
<1> QED BY <1>3, <1>4

\* At the end of its loop the driver, or the drive, has the whole sector.
LEMMA AllWords ==
  ASSUME NEW s \in Sector, NEW t \in Sector, NEW n, n = WordsPerSector,
         \A j \in 0 .. (n - 1) : s[j] = t[j]
  PROVE  s = t
<1>1. \A j \in 0 .. (WordsPerSector - 1) : s[j] = t[j]
  OBVIOUS
<1>2. s = [j \in 0 .. (WordsPerSector - 1) |-> s[j]]
        /\ t = [j \in 0 .. (WordsPerSector - 1) |-> t[j]]
  BY DEF Sector
<1>3. [j \in 0 .. (WordsPerSector - 1) |-> s[j]] = [j \in 0 .. (WordsPerSector - 1) |-> t[j]]
  BY <1>1
<1> QED BY <1>2, <1>3, Zenon

\* The driver's other steps: it waits, or answers.
LEMMA DriverData ==
  ASSUME Inv, DataInv, WaitReady \/ WaitData \/ EndOfWords \/ WaitWritten
  PROVE  DataInv' /\ (UNCHANGED Disk!vars \/ Disk!Answer)
<1>1. CASE WaitReady \/ WaitData
  <2>1. /\ UNCHANGED <<job, buffer, i, drive>> /\ pc' \in {"drq", "words"} /\ i = 0
        /\ pc = "bsy" => ~bsy
    BY <1>1 DEF WaitReady, WaitData, Inv, Waiting, Offered
  <2>2. pc \in {"bsy", "drq"} /\ (pc' = "words" => left = WordsPerSector)
    BY <1>1 DEF WaitReady, WaitData, Inv, Waiting, Offered
  <2>3. UNCHANGED Disk!vars
    BY <2>1 DEF Disk!vars, drive
  <2>4. Sectors' /\ Address'
    BY <2>1 DEF drive, DataInv, Sectors, Address, Disk!Request
  <2>5. Reading'
    BY <2>1, <2>2, DriveAssumption DEF drive, DataInv, Reading
  <2>6. Writing'
    BY <2>1, <2>2, DriveAssumption DEF drive, DataInv, Writing
  <2> QED BY <2>3, <2>4, <2>5, <2>6 DEF DataInv
<1>2. CASE EndOfWords
  <2>1. pc = "words" /\ i >= WordsPerSector /\ UNCHANGED <<buffer, i, drive>>
          /\ i \in Nat /\ job.op # "none"
        /\ left = WordsPerSector - i /\ left \in Nat
    BY <1>2, DriveAssumption DEF EndOfWords, More, Inv, Ranges, Passing
  <2>2. i = WordsPerSector /\ left = 0 /\ job # NoJob /\ job \in Disk!Request
    BY <2>1, DriveAssumption DEF NoJob, DataInv, Sectors
  <2>3. CASE job.op = "read"
    <3>1. job' = NoJob
      BY <1>2, <2>3 DEF EndOfWords, AfterWords
    <3>2. buffer = latch /\ latch = platter[job.lba]
      BY <2>1, <2>2, <2>3, AllWords DEF DataInv, Sectors, Reading
    <3>3. DataInv'
      BY <2>1, <3>1 DEF DataInv, Sectors, Address, Reading, Writing, NoJob, drive
    <3>4. Disk!Answer
      BY <2>1, <2>2, <2>3, <3>1, <3>2 DEF Disk!Answer, Disk!NoCall, NoJob, drive
    <3> QED BY <3>3, <3>4
  <2>4. CASE job.op = "write"
    <3>1. pc' = "finish" /\ job' = job
      BY <1>2, <2>4 DEF EndOfWords, AfterWords
    <3>2. buffer = latch
      BY <2>1, <2>2, <2>4, AllWords DEF DataInv, Sectors, Writing
    <3>3. DataInv'
      BY <2>1, <2>2, <2>4, <3>1, <3>2 DEF DataInv, Sectors, Address, Reading, Writing,
         drive, Disk!Request, NoJob
    <3>4. UNCHANGED Disk!vars
      BY <2>1, <2>4, <3>1 DEF Disk!vars, drive
    <3> QED BY <3>3, <3>4
  <2> QED BY <2>2, <2>3, <2>4 DEF Disk!Request
<1>3. CASE WaitWritten
  <2>1. /\ pc = "finish" /\ ~bsy /\ job' = NoJob /\ UNCHANGED <<buffer, i, drive>>
        /\ job.op = "write" /\ buffer = job.data /\ platter[job.lba] = buffer /\ job # NoJob
    BY <1>3 DEF WaitWritten, Inv, Storing, DataInv, Writing, NoJob
  <2>2. DataInv'
    BY <2>1 DEF DataInv, Sectors, Address, Reading, Writing, NoJob, drive
  <2>3. Disk!Answer
    BY <2>1 DEF Disk!Answer, Disk!NoCall, NoJob, drive
  <2> QED BY <2>2, <2>3
<1> QED BY <1>1, <1>2, <1>3

\* The drive's: it offers a sector, or stores one.
LEMMA DriveData ==
  ASSUME Inv, DataInv, Ready \/ Store
  PROVE  DataInv' /\ (UNCHANGED Disk!vars \/ Disk!Put)
<1>1. CASE Ready
  <2>1. pc = "bsy" /\ job.op # "none" /\ phase = job.op
    BY <1>1 DEF Ready, Inv, Ranges, Idle, Waiting, Offered, Passing, Storing
  <2>2. job \in Disk!Request /\ job # NoJob /\ job.lba \in Lba
    BY <2>1 DEF DataInv, Sectors, NoJob, Disk!Request
  <2>3. Addressed = job.lba
    BY <2>2, AddressArrives DEF DataInv, Address
  <2>4. latch' = (IF phase = "read" THEN platter[job.lba] ELSE latch)
          /\ UNCHANGED <<driver, registers, phase, platter>>
    BY <1>1, <2>3 DEF Ready
  <2>5. latch' \in Sector
    BY <2>2, <2>4 DEF DataInv, Sectors
  <2>6. DataInv'
    BY <2>1, <2>4, <2>5 DEF DataInv, Sectors, Address, Reading, Writing, driver,
       Disk!Request
  <2> QED BY <2>4, <2>6 DEF Disk!vars, driver
<1>2. CASE Store
  <2>1. /\ pc \in {"words", "finish"} /\ left = 0 /\ job.op = "write"
             /\ UNCHANGED <<driver, registers, latch, left>>
        /\ platter' = [platter EXCEPT ![Addressed] = latch]
    BY <1>2, DriveAssumption DEF Store, Inv, Ranges, Idle, Waiting, Offered, Passing,
       Storing, NoJob
  <2>2. job \in Disk!Request /\ job # NoJob /\ job.lba \in Lba
    BY <2>1 DEF DataInv, Sectors, NoJob, Disk!Request
  <2>3. Addressed = job.lba
    BY <2>2, AddressArrives DEF DataInv, Address
  <2>4. latch = buffer /\ buffer = job.data
    <3>1. CASE pc = "finish"
      BY <2>1, <3>1 DEF DataInv, Writing
    <3>2. CASE pc = "words"
      <4>1. i = WordsPerSector
        BY <2>1, <3>2, DriveAssumption DEF Inv, Ranges, Passing
      <4>2. \A j \in 0 .. (i - 1) : latch[j] = buffer[j]
        BY <2>1, <3>2 DEF DataInv, Writing
      <4> QED BY <2>1, <3>2, <4>1, <4>2, AllWords DEF DataInv, Sectors, Writing
    <3> QED BY <2>1, <3>1, <3>2
  <2>5. platter' = [platter EXCEPT ![job.lba] = job.data]
          /\ platter' \in [Lba -> Sector] /\ platter'[job.lba] = buffer
    BY <2>1, <2>2, <2>3, <2>4 DEF DataInv, Sectors
  <2>6. DataInv'
    BY <2>1, <2>4, <2>5 DEF DataInv, Sectors, Address, Reading, Writing, driver,
       Disk!Request
  <2>7. Disk!Put
    BY <2>1, <2>5 DEF Disk!Put, driver
  <2> QED BY <2>6, <2>7
<1> QED BY <1>1, <1>2

LEMMA PowerOffData ==
  ASSUME PowerOff, DataInv
  PROVE  DataInv' /\ Disk!PowerLoss
BY BlankIsSector DEF PowerOff, Disk!PowerLoss, Disk!NoCall, NoJob, DataInv, Sectors,
   Address, Reading, Writing

\* ata.c:26-102: the driver is a disk whose sectors are read and written whole,
\* for every size of a sector, every address the registers hold, every pace of
\* the drive, with power losses. (That it answers is left to the run.)
THEOREM DriverIsDisk == Spec => Disk!Init /\ [][Disk!Next]_(Disk!vars)
<1>1. Init => Disk!Init
  BY DEF Init, Disk!Init, Disk!NoCall, NoJob
<1>2. Init => Inv /\ DataInv
  BY DriveAssumption, InitInv, InitData
<1>3. Inv /\ DataInv /\ [Next]_vars => DataInv' /\ [Disk!Next]_(Disk!vars)
  <2>1. CASE UNCHANGED vars
    BY <2>1 DEF vars, driver, drive, DataInv, Sectors, Address, Reading, Writing, Disk!vars,
       Disk!Request
  <2> QED BY <2>1, CallData, WordsData, DriverData, DriveData, PowerOffData
          DEF Next, Driver, Drive, Disk!Next
<1>4. Inv /\ [Next]_vars => Inv'
  BY DriveAssumption, NextInv
<1> QED BY <1>1, <1>2, <1>3, <1>4, PTL DEF Spec

-----------------------------------------------------------------------------
(* The entries of the FAT.                                                 *)

\* The bytes of one copy, and the types of the disk.
DiskBytes == FatSize * SectorBytes
EntryByte  == 0 .. 255
EntryValue == 0 .. 4095
SectorBuffer == [0 .. (SectorBytes - 1) -> EntryByte]
BytesTyped   == \A k \in Copies : disk[k] \in [0 .. (FatSize - 1) -> SectorBuffer]
StoredTyped  == stored \in [Clusters -> EntryValue]

\* Where the bytes of an entry are, in the FAT and in its sector.
LEMMA Offsets ==
  ASSUME NEW c \in Clusters
  PROVE  /\ c \in Nat /\ ByteOffset(c) \in Nat
         /\ ByteOffset(c) < DiskBytes /\ DiskBytes \in Nat
<1>1. FatSize \in Nat \ {0} /\ SectorBytes \in Nat \ {0}
  BY LayoutAssumption
<1>2. DiskBytes \in Nat
  BY <1>1 DEF DiskBytes
<1> DEFINE m == (DiskBytes * 2) \div 3
<1>3. m \in Nat /\ 3 * m <= DiskBytes * 2
  BY <1>2
<1>4. c \in 2 .. (m - 1)
  BY DEF Clusters, max_clusters, DiskBytes
<1> HIDE DEF m
<1>5. c \in Nat /\ c <= m - 1
  BY <1>3, <1>4
<1>6. c \div 2 \in Nat /\ 2 * (c \div 2) <= c
  BY <1>5
<1>7. ByteOffset(c) = c + (c \div 2)
  BY DEF ByteOffset
<1>8. 2 * ByteOffset(c) <= 3 * c
  BY <1>5, <1>6, <1>7
<1> QED  BY <1>2, <1>3, <1>5, <1>6, <1>7, <1>8

\* A byte of the FAT is in one of its sectors.
LEMMA Places ==
  ASSUME NEW off \in Nat, off < DiskBytes
  PROVE  /\ off \div SectorBytes \in 0 .. (FatSize - 1)
         /\ off % SectorBytes \in 0 .. (SectorBytes - 1)
         /\ off = SectorBytes * (off \div SectorBytes) + (off % SectorBytes)
<1> DEFINE q == off \div SectorBytes
           r == off % SectorBytes
<1>1. FatSize \in Nat \ {0} /\ SectorBytes \in Nat \ {0}
  BY LayoutAssumption
<1>2. q \in Nat /\ r \in Nat /\ r < SectorBytes /\ off = SectorBytes * q + r
  BY <1>1, DivMod
<1> HIDE DEF q, r
<1>3. q < FatSize
  <2> SUFFICES ASSUME q >= FatSize PROVE FALSE
    BY <1>1, <1>2
  <2>1. SectorBytes * FatSize <= SectorBytes * q
    BY <1>1, <1>2
  <2>2. SectorBytes * q <= off
    BY <1>1, <1>2
  <2>3. FatSize * SectorBytes = SectorBytes * FatSize
    BY <1>1
  <2> QED  BY <1>1, <1>2, <2>1, <2>2, <2>3 DEF DiskBytes
<1> QED  BY <1>1, <1>2, <1>3 DEF q, r

\* The second byte of an entry is the next one of its sector, or the entry
\* straddles.
LEMMA NextPlace ==
  ASSUME NEW c \in Clusters, ~Straddles(c)
  PROVE  /\ ByteOffset(c) + 1 < DiskBytes
         /\ (ByteOffset(c) + 1) \div SectorBytes = FatSector(c)
         /\ (ByteOffset(c) + 1) % SectorBytes = IndexIn(c) + 1
         /\ IndexIn(c) + 1 \in 0 .. (SectorBytes - 1)
<1> DEFINE off == ByteOffset(c)
           q == FatSector(c)
           r == IndexIn(c)
<1>1. FatSize \in Nat \ {0} /\ SectorBytes \in Nat \ {0}
  BY LayoutAssumption
<1>2. off \in Nat /\ off < DiskBytes
  BY Offsets
<1>3. q \in 0 .. (FatSize - 1) /\ r \in 0 .. (SectorBytes - 1) /\ off = SectorBytes * q + r
  BY <1>2, Places DEF FatSector, IndexIn
<1>4. r # SectorBytes - 1
  BY DEF Straddles
<1> HIDE DEF off, q, r
<1>5. r + 1 \in Nat /\ r + 1 < SectorBytes /\ off + 1 \in Nat /\ q \in Nat
  BY <1>1, <1>2, <1>3, <1>4
<1>6. off + 1 = SectorBytes * q + (r + 1)
  BY <1>1, <1>3, <1>5
<1>7. (off + 1) \div SectorBytes = q
  BY <1>1, <1>5, <1>6, DivUnique
<1>8. off + 1 = SectorBytes * ((off + 1) \div SectorBytes) + ((off + 1) % SectorBytes)
      /\ (off + 1) % SectorBytes \in Nat
  BY <1>1, <1>5, DivMod
<1>9. (off + 1) % SectorBytes = r + 1
  <2>1. SectorBytes * q \in Nat
    BY <1>1, <1>5
  <2> QED  BY <1>5, <1>6, <1>7, <1>8, <2>1
<1>10. off + 1 < DiskBytes
  <2>1. SectorBytes * (q + 1) <= SectorBytes * FatSize
    BY <1>1, <1>3
  <2>2. SectorBytes * (q + 1) = SectorBytes * q + SectorBytes
    BY <1>1, <1>5
  <2>3. FatSize * SectorBytes = SectorBytes * FatSize /\ SectorBytes * q \in Nat
    BY <1>1, <1>5
  <2> QED  BY <1>1, <1>5, <1>6, <2>1, <2>2, <2>3 DEF DiskBytes
<1> QED  BY <1>1, <1>3, <1>5, <1>7, <1>9, <1>10 DEF off, q, r

\* Entries overlap in one byte at most, which is the second of an even one and
\* the first of the odd one that follows.
LEMMA Overlap ==
  ASSUME NEW c \in Nat, NEW d \in Nat, c # d
  PROVE  /\ ByteOffset(c) # ByteOffset(d)
         /\ ByteOffset(c) = ByteOffset(d) + 1 => IsOdd(c) /\ ~IsOdd(d)
BY DEF ByteOffset, IsOdd

\* An entry is what was stored in it, and keeps the half byte of its neighbour.
LEMMA DecodesStored ==
  ASSUME NEW c \in Nat, NEW low \in EntryByte, NEW high \in EntryByte, NEW v \in EntryValue
  PROVE  /\ LowByte(c, low, v) \in EntryByte /\ HighByte(c, high, v) \in EntryByte
         /\ Decode(c, LowByte(c, low, v), HighByte(c, high, v)) = v
<1> DEFINE a == low % 16
           b == high \div 16
<1>1. a \in 0 .. 15 /\ b \in 0 .. 15
  BY DEF EntryByte
<1>2. CASE IsOdd(c)
  <2> DEFINE m == v % 16
             n == v \div 16
  <2>1. m \in 0 .. 15 /\ n \in 0 .. 255 /\ v = m + 16 * n
    BY DEF EntryValue
  <2> HIDE DEF a, b, m, n
  <2>2. n % 256 = n /\ (a + 16 * m) \div 16 = m
    BY <1>1, <2>1
  <2>3. LowByte(c, low, v) = a + 16 * m /\ HighByte(c, high, v) = n
    BY <1>2, <2>2 DEF LowByte, HighByte, a, m, n
  <2>4. Decode(c, a + 16 * m, n) = (a + 16 * m) \div 16 + 16 * n
    BY <1>2 DEF Decode
  <2>5. a + 16 * m \in EntryByte /\ n \in EntryByte
    BY <1>1, <2>1 DEF EntryByte
  <2>6. (a + 16 * m) \div 16 + 16 * n = v
    BY <2>1, <2>2
  <2> QED  BY <2>3, <2>4, <2>5, <2>6
<1>3. CASE ~IsOdd(c)
  <2> DEFINE m == v % 256
             n == v \div 256
  <2>1. m \in 0 .. 255 /\ n \in 0 .. 15 /\ v = m + 256 * n
    BY DEF EntryValue
  <2> HIDE DEF a, b, m, n
  <2>2. (16 * b + n) % 16 = n
    BY <1>1, <2>1
  <2>3. LowByte(c, low, v) = m /\ HighByte(c, high, v) = 16 * b + n
    BY <1>3 DEF LowByte, HighByte, b, m, n
  <2>4. Decode(c, m, 16 * b + n) = m + 256 * ((16 * b + n) % 16)
    BY <1>3 DEF Decode
  <2>5. m \in EntryByte /\ 16 * b + n \in EntryByte
    BY <1>1, <2>1 DEF EntryByte
  <2>6. m + 256 * ((16 * b + n) % 16) = v
    BY <2>1, <2>2
  <2> QED  BY <2>3, <2>4, <2>5, <2>6
<1> QED  BY <1>2, <1>3

\* Storing an odd entry keeps the even one before it, and the reverse.
LEMMA LowKeepsNeighbour ==
  ASSUME NEW c \in Nat, NEW d \in Nat, IsOdd(c), ~IsOdd(d),
         NEW x \in EntryByte, NEW low \in EntryByte, NEW v \in EntryValue
  PROVE  Decode(d, low, LowByte(c, x, v)) = Decode(d, low, x)
BY DEF Decode, LowByte, EntryByte, EntryValue

LEMMA HighKeepsNeighbour ==
  ASSUME NEW c \in Nat, NEW d \in Nat, ~IsOdd(c), IsOdd(d),
         NEW x \in EntryByte, NEW high \in EntryByte, NEW v \in EntryValue
  PROVE  Decode(d, HighByte(c, x, v), high) = Decode(d, x, high)
BY DEF Decode, HighByte, EntryByte, EntryValue

\* What fat_set makes of a byte of the disk.
LEMMA BytesAfter ==
  ASSUME BytesTyped, NEW c \in Clusters, NEW v, fat_set(c, v),
         NEW k \in Copies, NEW off \in Nat, off < DiskBytes
  PROVE  ByteOfDisk(k, off)' =
           CASE off = ByteOffset(c) -> LowByte(c, ByteOfDisk(k, off), v)
             [] off = ByteOffset(c) + 1
               /\ ~Straddles(c) -> HighByte(c, ByteOfDisk(k, off), v)
             [] OTHER -> ByteOfDisk(k, off)
<1> DEFINE s == off \div SectorBytes
           r == off % SectorBytes
           x == disk[k][s][r]
<1>1. s \in 0 .. (FatSize - 1) /\ r \in 0 .. (SectorBytes - 1) /\ off = SectorBytes * s + r
  BY Places
<1>2. /\ FatSector(c) \in 0 .. (FatSize - 1) /\ IndexIn(c) \in 0 .. (SectorBytes - 1)
      /\ ByteOffset(c) = SectorBytes * FatSector(c) + IndexIn(c)
      /\ ByteOffset(c) \in Nat
  BY Offsets, Places DEF FatSector, IndexIn
<1>3. ByteOfDisk(k, off) = x /\ ByteOfDisk(k, off)' = disk'[k][s][r]
  BY DEF ByteOfDisk
<1>4. disk'[k] = [disk[k] EXCEPT ![FatSector(c)] = Stored(disk[k][FatSector(c)], c, v)]
  BY DEF fat_set
<1>5. disk[k] \in [0 .. (FatSize - 1) -> SectorBuffer]
  BY DEF BytesTyped
<1>6. off = ByteOffset(c) => s = FatSector(c) /\ r = IndexIn(c)
  BY DEF FatSector, IndexIn
<1>7. off = ByteOffset(c) + 1 /\ ~Straddles(c) => s = FatSector(c) /\ r = IndexIn(c) + 1
  BY NextPlace
<1> HIDE DEF s, r
<1>8. CASE s # FatSector(c)
  BY <1>1, <1>3, <1>4, <1>5, <1>6, <1>7, <1>8
<1>9. CASE s = FatSector(c)
  <2>1. disk'[k][s] = Stored(disk[k][s], c, v)
    BY <1>1, <1>4, <1>5, <1>9
  <2>2. disk'[k][s][r] = CASE r = IndexIn(c)     -> LowByte(c, x, v)
                           [] r = IndexIn(c) + 1 -> HighByte(c, x, v)
                           [] OTHER              -> x
    BY <1>1, <2>1 DEF Stored
  <2>3. r = IndexIn(c) => off = ByteOffset(c)
    BY <1>1, <1>2, <1>9
  <2>4. r = IndexIn(c) + 1 => off = ByteOffset(c) + 1 /\ ~Straddles(c)
    <3> SUFFICES ASSUME r = IndexIn(c) + 1 PROVE off = ByteOffset(c) + 1 /\ ~Straddles(c)
      OBVIOUS
    <3>1. SectorBytes * s \in Nat /\ SectorBytes \in Nat
      BY <1>1, LayoutAssumption
    <3> QED  BY <1>1, <1>2, <1>9, <3>1 DEF Straddles
  <2>5. IndexIn(c) # IndexIn(c) + 1 /\ ByteOffset(c) # ByteOffset(c) + 1
    BY <1>2
  <2>6. CASE r = IndexIn(c)
    BY <1>3, <2>2, <2>3, <2>5, <2>6
  <2>7. CASE r = IndexIn(c) + 1
    BY <1>3, <2>2, <2>4, <2>5, <2>7
  <2>8. CASE r # IndexIn(c) /\ r # IndexIn(c) + 1
    BY <1>3, <1>6, <1>7, <2>2, <2>8
  <2> QED  BY <2>6, <2>7, <2>8
<1> QED  BY <1>8, <1>9

LEMMA ByteType ==
  ASSUME BytesTyped, NEW k \in Copies, NEW off \in Nat, off < DiskBytes
  PROVE  ByteOfDisk(k, off) \in EntryByte
<1>1. off \div SectorBytes \in 0 .. (FatSize - 1)
        /\ off % SectorBytes \in 0 .. (SectorBytes - 1)
  BY Places
<1>2. disk[k] \in [0 .. (FatSize - 1) -> SectorBuffer]
  BY DEF BytesTyped
<1> QED  BY <1>1, <1>2 DEF ByteOfDisk, SectorBuffer

\* fat_set stores the entry, and leaves the others of both copies.
LEMMA EntryStored ==
  ASSUME BytesTyped, NEW c \in Whole, NEW v \in EntryValue, fat_set(c, v), NEW k \in Copies
  PROVE  Entry(k, c)' = v
<1>0. PICK p, low, high : /\ p = ByteOffset(c)
                          /\ low = ByteOfDisk(k, p) /\ high = ByteOfDisk(k, p + 1)
  OBVIOUS
<1>1. c \in Clusters /\ ~Straddles(c)
  BY DEF Whole
<1>2. c \in Nat /\ p \in Nat /\ p < DiskBytes /\ p + 1 \in Nat /\ p + 1 < DiskBytes
        /\ p # p + 1
  BY <1>0, <1>1, Offsets, NextPlace
<1>3. low \in EntryByte /\ high \in EntryByte
  <2>1. ByteOfDisk(k, p) \in EntryByte /\ ByteOfDisk(k, p + 1) \in EntryByte
    BY <1>2, ByteType
  <2> QED  BY <1>0, <2>1
<1>4. ByteOfDisk(k, p)' = LowByte(c, low, v)
  BY <1>0, <1>1, <1>2, BytesAfter
<1>5. ByteOfDisk(k, p + 1)' = HighByte(c, high, v)
  BY <1>0, <1>1, <1>2, BytesAfter
<1>6. Entry(k, c)' = Decode(c, ByteOfDisk(k, p)', ByteOfDisk(k, p + 1)')
  BY <1>0 DEF Entry, ByteOfDisk
<1>7. Decode(c, LowByte(c, low, v), HighByte(c, high, v)) = v
  BY <1>2, <1>3, DecodesStored
<1> QED  BY <1>4, <1>5, <1>6, <1>7

LEMMA OtherEntryKept ==
  ASSUME BytesTyped, NEW c \in Clusters, NEW d \in Whole, c # d,
         NEW v \in EntryValue, fat_set(c, v), NEW k \in Copies
  PROVE  Entry(k, d)' = Entry(k, d)
<1>0. PICK p, q, low, high : /\ p = ByteOffset(d) /\ q = ByteOffset(c)
                             /\ low = ByteOfDisk(k, p) /\ high = ByteOfDisk(k, p + 1)
  OBVIOUS
<1>1. d \in Clusters /\ ~Straddles(d)
  BY DEF Whole
<1>2. d \in Nat /\ p \in Nat /\ p < DiskBytes /\ p + 1 \in Nat /\ p + 1 < DiskBytes
        /\ p # p + 1
      /\ c \in Nat /\ q \in Nat
  BY <1>0, <1>1, Offsets, NextPlace
<1>3. low \in EntryByte /\ high \in EntryByte
  <2>1. ByteOfDisk(k, p) \in EntryByte /\ ByteOfDisk(k, p + 1) \in EntryByte
    BY <1>2, ByteType
  <2> QED  BY <1>0, <2>1
<1>4. p # q /\ (q = p + 1 => IsOdd(c) /\ ~IsOdd(d)) /\ (p = q + 1 => IsOdd(d) /\ ~IsOdd(c))
  BY <1>0, <1>2, Overlap
<1>5. ByteOfDisk(k, p)' = IF p = q + 1 /\ ~Straddles(c) THEN HighByte(c, low, v) ELSE low
  BY <1>0, <1>2, <1>4, BytesAfter
<1>6. ByteOfDisk(k, p + 1)' = IF p + 1 = q THEN LowByte(c, high, v) ELSE high
  <2>1. p + 1 # q + 1
    BY <1>0, <1>2, <1>4
  <2> QED  BY <1>0, <1>2, <2>1, BytesAfter
<1>7. Entry(k, d)' = Decode(d, ByteOfDisk(k, p)', ByteOfDisk(k, p + 1)')
        /\ Entry(k, d) = Decode(d, low, high)
  BY <1>0 DEF Entry, ByteOfDisk
<1>8. CASE p = q + 1
  <2>1. p + 1 # q
    BY <1>2, <1>8
  <2>2. Decode(d, HighByte(c, low, v), high) = Decode(d, low, high)
    BY <1>2, <1>3, <1>4, <1>8, HighKeepsNeighbour
  <2> QED  BY <1>5, <1>6, <1>7, <2>1, <2>2
<1>9. CASE p + 1 = q
  <2>1. p # q + 1
    BY <1>2, <1>9
  <2>2. Decode(d, low, LowByte(c, high, v)) = Decode(d, low, high)
    BY <1>2, <1>3, <1>4, <1>9, LowKeepsNeighbour
  <2> QED  BY <1>5, <1>6, <1>7, <1>9, <2>1, <2>2
<1>10. CASE p # q + 1 /\ p + 1 # q
  BY <1>5, <1>6, <1>7, <1>10
<1> QED  BY <1>8, <1>9, <1>10

\* The types of the disk.
LEMMA CodecTyped == BytesTyped /\ StoredTyped /\ [CodecNext]_codec_vars => BytesTyped'
  /\ StoredTyped'
<1> SUFFICES ASSUME BytesTyped, StoredTyped, [CodecNext]_codec_vars PROVE BytesTyped'
      /\ StoredTyped'
  OBVIOUS
<1>1. CASE UNCHANGED <<disk, stored>>
  <2>1. BytesTyped'
    BY <1>1 DEF BytesTyped
  <2>2. StoredTyped'
    BY <1>1 DEF StoredTyped
  <2> QED  BY <2>1, <2>2
<1>2. ASSUME NEW c \in Clusters, NEW v \in Values, fat_set(c, v) PROVE BytesTyped'
        /\ StoredTyped'
  <2>1. v \in EntryValue /\ c \in Nat
    BY LayoutAssumption, Offsets DEF EntryValue
  <2>2. FatSector(c) \in 0 .. (FatSize - 1)
    BY Offsets, Places DEF FatSector
  <2>3. ASSUME NEW buf \in SectorBuffer PROVE Stored(buf, c, v) \in SectorBuffer
    <3>1. ASSUME NEW b \in 0 .. (SectorBytes - 1)
          PROVE  /\ buf[b] \in EntryByte
                 /\ LowByte(c, buf[b], v) \in EntryByte
                      /\ HighByte(c, buf[b], v) \in EntryByte
      <4>1. buf[b] \in EntryByte
        BY DEF SectorBuffer
      <4> QED  BY <2>1, <4>1, DecodesStored
    <3> QED  BY <3>1 DEF Stored, SectorBuffer
  <2>4. disk' = [k \in Copies |->
                   [disk[k] EXCEPT ![FatSector(c)] = Stored(disk[k][FatSector(c)], c, v)]]
    BY <1>2 DEF fat_set
  <2>5. stored' = [stored EXCEPT ![c] = v]
    BY <1>2 DEF fat_set
  <2>6. ASSUME NEW k \in Copies PROVE disk'[k] \in [0 .. (FatSize - 1) -> SectorBuffer]
    <3>1. disk[k] \in [0 .. (FatSize - 1) -> SectorBuffer]
      BY DEF BytesTyped
    <3> QED  BY <2>2, <2>3, <2>4, <3>1
  <2>7. stored' \in [Clusters -> EntryValue]
    BY <2>1, <2>5 DEF StoredTyped
  <2> QED  BY <2>6, <2>7 DEF BytesTyped, StoredTyped
<1> QED  BY <1>1, <1>2 DEF CodecNext, fat_get, codec_vars

\* A step keeps every entry that lies in one sector.
LEMMA EntriesStep == BytesTyped /\ StoredTyped /\ EntriesKept
  /\ [CodecNext]_codec_vars => EntriesKept'
<1> SUFFICES ASSUME BytesTyped, StoredTyped, EntriesKept, [CodecNext]_codec_vars,
                    NEW k \in Copies, NEW d \in Whole
             PROVE  Entry(k, d)' = stored'[d]
  BY DEF EntriesKept, Whole
<1>1. CASE UNCHANGED <<disk, stored>>
  BY <1>1 DEF EntriesKept, Entry, ByteOfDisk
<1>2. ASSUME NEW c \in Clusters, NEW v \in Values, fat_set(c, v)
      PROVE  Entry(k, d)' = stored'[d]
  <2>1. v \in EntryValue /\ d \in Clusters
    BY LayoutAssumption DEF Whole, EntryValue
  <2>2. stored' = [stored EXCEPT ![c] = v]
    BY <1>2 DEF fat_set
  <2>3. CASE c = d
    <3>1. Entry(k, d)' = v
      BY <1>2, <2>1, <2>3, EntryStored
    <3>2. stored'[d] = v
      BY <2>1, <2>2, <2>3 DEF StoredTyped
    <3> QED  BY <3>1, <3>2
  <2>4. CASE c # d
    <3>1. Entry(k, d)' = Entry(k, d)
      BY <1>2, <2>1, <2>4, OtherEntryKept
    <3>2. stored'[d] = stored[d]
      BY <2>1, <2>2, <2>4 DEF StoredTyped
    <3> QED  BY <3>1, <3>2 DEF EntriesKept
  <2> QED  BY <2>3, <2>4
<1> QED  BY <1>1, <1>2 DEF CodecNext, fat_get, codec_vars

\* It holds of the empty FAT.
LEMMA CodecStarts == CodecInit => BytesTyped /\ StoredTyped /\ EntriesKept
<1> SUFFICES ASSUME CodecInit PROVE BytesTyped /\ StoredTyped /\ EntriesKept
  OBVIOUS
<1>1. BytesTyped /\ StoredTyped
  BY DEF CodecInit, BytesTyped, StoredTyped, SectorBuffer, EntryByte, EntryValue
<1>2. ASSUME NEW k \in Copies, NEW c \in Whole PROVE Entry(k, c) = stored[c]
  <2>1. c \in Clusters /\ ~Straddles(c)
    BY DEF Whole
  <2>2. ASSUME NEW off \in Nat, off < DiskBytes PROVE ByteOfDisk(k, off) = 0
    <3>1. off \div SectorBytes \in 0 .. (FatSize - 1)
            /\ off % SectorBytes \in 0 .. (SectorBytes - 1)
      BY <2>2, Places
    <3> QED  BY <3>1 DEF ByteOfDisk, CodecInit
  <2>3. ByteOfDisk(k, ByteOffset(c)) = 0 /\ ByteOfDisk(k, ByteOffset(c) + 1) = 0
    <3>1. /\ ByteOffset(c) \in Nat /\ ByteOffset(c) < DiskBytes
          /\ ByteOffset(c) + 1 \in Nat /\ ByteOffset(c) + 1 < DiskBytes
      BY <2>1, Offsets, NextPlace
    <3> QED  BY <2>2, <3>1
  <2>4. stored[c] = 0
    BY <2>1 DEF CodecInit
  <2> QED  BY <2>3, <2>4 DEF Entry, Decode
<1> QED  BY <1>1, <1>2 DEF EntriesKept

LEMMA CodecAlways == CodecSpec => [](BytesTyped /\ StoredTyped /\ EntriesKept)
BY CodecStarts, CodecTyped, EntriesStep, PTL DEF CodecSpec

\* fat_set keeps every other entry that lies in one sector, of both copies, and
\* stores its own, for every size of a sector and of the FAT.
THEOREM EntriesStayKept == CodecSpec => []EntriesKept
BY CodecAlways, PTL

\* fat_get returns what was last stored, of such an entry.
THEOREM WholeEntriesRead == CodecSpec => ReadsWhole
<1>1. BytesTyped /\ EntriesKept /\ [CodecNext]_codec_vars =>
        [read' # read /\ read'.cluster \in Whole =>
           read'.value = stored[read'.cluster]]_codec_vars
  <2> SUFFICES ASSUME BytesTyped, EntriesKept, CodecNext, read' # read, read'.cluster \in Whole
               PROVE  read'.value = stored[read'.cluster]
    BY Zenon
  <2>1. PICK c \in Clusters : fat_get(c)
    BY DEF CodecNext, fat_set
  <2>2. PICK behind : read' = [cluster |-> c,
           value |-> Decode(c, disk[0][FatSector(c)][IndexIn(c)],
                            IF Straddles(c) THEN behind
                            ELSE disk[0][FatSector(c)][IndexIn(c) + 1])]
    BY <2>1 DEF fat_get
  <2>3. c \in Whole /\ ~Straddles(c)
    BY <2>2 DEF Whole
  <2>4. read'.value =
          Decode(c, disk[0][FatSector(c)][IndexIn(c)], disk[0][FatSector(c)][IndexIn(c) + 1])
    BY <2>2, <2>3
  <2>5. Entry(0, c) =
          Decode(c, disk[0][FatSector(c)][IndexIn(c)], disk[0][FatSector(c)][IndexIn(c) + 1])
    BY <2>3, NextPlace DEF Entry, ByteOfDisk, FatSector, IndexIn
  <2>6. Entry(0, c) = stored[c]
    BY <2>3 DEF EntriesKept, Copies
  <2> QED  BY <2>2, <2>4, <2>5, <2>6
<1> QED  BY <1>1, CodecAlways, PTL DEF CodecSpec, ReadsWhole
=============================================================================
