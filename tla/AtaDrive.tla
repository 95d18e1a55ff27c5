------------------------------ MODULE AtaDrive -------------------------------
(***************************************************************************)
(* src/src/ata.c: one sector read or written by polling, with the drive it *)
(* talks to. The drive is not in the repository: it is what the driver     *)
(* relies on. It sets BSY as a command, or the last word of a sector, is   *)
(* written, gives and takes a sector in words while DRQ is set, and        *)
(* refuses nothing. A sector reaches the platter whole or not at all.      *)
(***************************************************************************)
EXTENDS Integers

CONSTANTS
  Lba,                       \* the sectors in use
  Word,
  WordsPerSector,            \* 256
  RegisterSize,              \* 256, and that of the bits of ATA_DRIVE
  DriveBits                  \* that hold a part of the address, 16

ASSUME DriveAssumption ==
  /\ WordsPerSector \in Nat \ {0} /\ Word # {}
  /\ RegisterSize \in Nat \ {0} /\ DriveBits \in Nat \ {0}
  /\ Lba \subseteq 0 .. (RegisterSize * RegisterSize * RegisterSize * DriveBits - 1)

VARIABLES
  pc, job, buffer, i,        \* the driver: where it is, its arguments, its loop
  registers,                 \* the address it wrote to the drive's registers
  phase,                     \* the drive: "read", "write", or "store" after its words
  bsy, drq,                  \* two bits of the drive's status
  latch, left,               \* its sector buffer, and the words still to pass
  platter

driver == <<pc, job, buffer, i>>
drive  == <<registers, phase, bsy, drq, latch, left, platter>>
vars   == <<driver, drive>>

Sector == [0 .. (WordsPerSector - 1) -> Word]
NoJob  == [op |-> "none"]
Blank  == CHOOSE s \in Sector : TRUE

-----------------------------------------------------------------------------
(* The driver.                                                             *)

Registers(lba) ==
  [low |-> lba % RegisterSize, mid |-> (lba \div RegisterSize) % RegisterSize,
   high |-> (lba \div (RegisterSize * RegisterSize)) % RegisterSize,
   top |-> (lba \div (RegisterSize * RegisterSize * RegisterSize)) % DriveBits]

\* The address, the command, and with it BSY.
Issue(op, lba) ==
  /\ pc = "idle" /\ pc' = "bsy" /\ i' = 0
  /\ registers' = Registers(lba) /\ phase' = op
  /\ bsy' = TRUE /\ drq' = FALSE
  /\ UNCHANGED <<latch, left, platter>>
ata_read_sector(lba) ==
  Issue("read", lba) /\ job' = [op |-> "read", lba |-> lba] /\ buffer' = Blank
ata_write_sector(lba, data) ==
  Issue("write", lba) /\ job' = [op |-> "write", lba |-> lba, data |-> data] /\ buffer' = data

\* A turn of a polling loop that changes nothing is no step.
WaitReady ==
  /\ pc = "bsy" /\ ~bsy /\ pc' = "drq"
  /\ UNCHANGED <<job, buffer, i, drive>>
WaitData ==
  /\ pc = "drq" /\ drq /\ pc' = "words"
  /\ UNCHANGED <<job, buffer, i, drive>>

MoreBug == i < WordsPerSector - 1                \* fault: a word too few
More    == i < WordsPerSector
Passed  == left' = left - 1 /\ drq' = (left > 1)  \* a word passed the data port
ReadWord ==
  /\ pc = "words" /\ job.op = "read" /\ More
  /\ IF drq THEN /\ buffer' = [buffer EXCEPT ![i] = latch[WordsPerSector - left]]
                 /\ Passed
            ELSE /\ \E w \in Word : buffer' = [buffer EXCEPT ![i] = w]
                 /\ UNCHANGED <<drq, left>>
  /\ i' = i + 1
  /\ UNCHANGED <<pc, job, registers, phase, bsy, latch, platter>>
WriteWord ==
  /\ pc = "words" /\ job.op = "write" /\ More
  /\ IF drq THEN /\ latch' = [latch EXCEPT ![WordsPerSector - left] = buffer[i]]
                 /\ Passed /\ bsy' = (left = 1)
                 /\ phase' = IF left = 1 THEN "store" ELSE phase
            ELSE UNCHANGED <<latch, drq, left, bsy, phase>>
  /\ i' = i + 1
  /\ UNCHANGED <<pc, job, buffer, registers, platter>>

\* A write waits once more.
AfterWordsBug == "idle"                          \* fault: it does not
AfterWords    == IF job.op = "read" THEN "idle" ELSE "finish"
EndOfWords ==
  /\ pc = "words" /\ ~More /\ pc' = AfterWords
  /\ job' = IF pc' = "idle" THEN NoJob ELSE job
  /\ UNCHANGED <<buffer, i, drive>>
WaitWritten ==
  /\ pc = "finish" /\ ~bsy /\ ~drq
  /\ pc' = "idle" /\ job' = NoJob
  /\ UNCHANGED <<buffer, i, drive>>

Driver == WaitReady \/ WaitData \/ ReadWord \/ WriteWord \/ EndOfWords \/ WaitWritten

-----------------------------------------------------------------------------
(* The drive.                                                              *)

Addressed ==
  ((registers.top * RegisterSize + registers.high) * RegisterSize
     + registers.mid) * RegisterSize + registers.low

\* It has read the sector, or is ready to take one.
Ready ==
  /\ bsy /\ phase \in {"read", "write"}
  /\ latch' = IF phase = "read" THEN platter[Addressed] ELSE latch
  /\ bsy' = FALSE /\ drq' = TRUE /\ left' = WordsPerSector
  /\ UNCHANGED <<driver, registers, phase, platter>>
Store ==
  /\ bsy /\ phase = "store"
  /\ platter' = [platter EXCEPT ![Addressed] = latch]
  /\ bsy' = FALSE
  /\ UNCHANGED <<driver, registers, phase, drq, latch, left>>
Drive == Ready \/ Store

PowerOff ==
  /\ pc' = "idle" /\ job' = NoJob /\ buffer' = Blank /\ i' = 0
  /\ registers' = Registers(0) /\ phase' = "read"
  /\ bsy' = FALSE /\ drq' = FALSE /\ latch' = Blank /\ left' = 0
  /\ UNCHANGED platter

-----------------------------------------------------------------------------
Init ==
  /\ pc = "idle" /\ job = NoJob /\ buffer = Blank /\ i = 0
  /\ registers = Registers(0) /\ phase = "read"
  /\ bsy = FALSE /\ drq = FALSE /\ latch = Blank /\ left = 0
  /\ platter \in [Lba -> Sector]

Call == \E lba \in Lba : ata_read_sector(lba) \/ \E data \in Sector : ata_write_sector(lba, data)
Next == Call \/ Driver \/ Drive \/ PowerOff
Spec == Init /\ [][Next]_vars
FairSpec == Spec /\ WF_vars(Driver) /\ WF_vars(Drive)

-----------------------------------------------------------------------------
\* Driver and drive never lose step: between calls the drive is not at work
\* and has no word to give or to take, and during the transfer it is at the
\* word the driver is at.
InStep ==
  /\ pc = "idle" => ~bsy /\ ~drq /\ left = 0
  /\ pc = "words" => left = WordsPerSector - i

\* The driver implements a disk whose sectors are read and written whole,
\* whatever the drive's pace, with a power loss at any moment, and it answers
\* every call.
Disk == INSTANCE SectorDisk WITH
          store <- platter, call <- job,
          buffer <- IF job.op = "read" THEN Blank ELSE buffer
ImplementsDisk == Disk!Spec
=============================================================================
