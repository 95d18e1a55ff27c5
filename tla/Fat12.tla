------------------------------- MODULE Fat12 -------------------------------
(***************************************************************************)
(* The FAT-12 file system of src/src/fs.c, one action per sector write.    *)
(*                                                                         *)
(* Every public function runs to completion on one thread of control, but  *)
(* the machine can lose power between any two sector writes, and what is   *)
(* then on the disk is what the next boot starts from.  So the state on    *)
(* the disk (two copies of the FAT, the root directory, the data sectors)  *)
(* is kept apart from the locals of the call in progress, and fat_set is   *)
(* two writes: the first copy in the action that calls it, the second in   *)
(* WriteSecondFat, which must come before anything else.                   *)
(*                                                                         *)
(* One sector is one cluster, as on the shipped image.  FAT entries are    *)
(* read and written whole; module Fat12Codec says when the packing of      *)
(* entries into sectors makes that exact.                                  *)
(***************************************************************************)
EXTENDS FatNames, FiniteSets

CONSTANTS
  FatName,       \* the names of files, which make_fat_name yields
  NoName,        \* the name field of a slot that holds no file
  MaxClusters,   \* max_clusters(): entries 2 .. MaxClusters-1 are allocated
  LastOnDevice,  \* last cluster whose data sector exists on the device
  RootEntries,   \* slots of the root directory
  SectorSize,    \* bytes of a sector
  FatStart,      \* sector at which the first FAT starts
  Byte,          \* byte values
  Zero,          \* the padding byte
  Junk,          \* a byte read from a sector that is no data cluster
  Texts,         \* what callers write and append
  MaxFileSize,   \* the shell's cp reads at most this many bytes
  MaxLength,     \* bound: no file grows beyond this many bytes
  MaxReadBack,   \* bound: append and cp start from files of at most this size
  MaxCrashes,    \* bound: power losses
  TornDeletes    \* whether power may fail while a chain is being freed

Free == 0
EOC  == 4095
FirstEnd == 4088                        \* 0xFF8: the first end-of-chain value

Clusters == 2 .. (MaxClusters - 1)
Slots    == 1 .. RootEntries

ASSUME SizesAssumption ==
  /\ MaxClusters \in 4 .. FirstEnd
  /\ MaxClusters % 2 = 0
  /\ RootEntries \in Nat \ {0}
  /\ SectorSize \in Nat \ {0}
  /\ FatStart \in Nat
  /\ LastOnDevice \in Nat
  /\ MaxFileSize \in Nat
  /\ MaxCrashes \in Nat
ASSUME NamesAssumption == FatName \subseteq Names /\ NoName \notin FatName
ASSUME BytesAssumption == {Zero, Junk} \subseteq Byte /\ Texts \subseteq Seq(Byte)

VARIABLES
  fat,      \* first copy of the FAT, the one every fat_get reads
  fat2,     \* second copy
  dir,      \* root directory
  sectors,  \* data area
  mirror,   \* the cluster fat_set has written in one copy only, or 0
  pc,       \* the call in progress: its next step
  job,      \* its arguments
  victim,   \* fs_delete: the slot of the entry being deleted
  cluster,  \* local c of free_cluster_chain, then of fs_write
  first,    \* local first_cluster of fs_write
  prev,     \* local prev_cluster of fs_write
  done,     \* bytes of the data already written
  result,   \* what the last call returned
  crashes,  \* power losses so far
  torn      \* whether one fell inside free_cluster_chain of a delete

disk   == <<fat, fat2, dir, sectors>>
locals == <<victim, cluster, first, prev, done>>
vars   == <<disk, mirror, pc, job, locals, result, crashes, torn>>

UnusedSlot == [state |-> "unused", name |-> NoName, first |-> 0, size |-> 0]
ErasedSlot == [state |-> "erased", name |-> NoName, first |-> 0, size |-> 0]
FileEntry(n, c, size) ==
  [state |-> "file", name |-> n, first |-> c, size |-> size]

NoJob == [op |-> "none", name |-> NoName, data |-> <<>>]

-----------------------------------------------------------------------------
\* Looking things up.

IsFile(s) == dir[s].state = "file"

\* The scan of find_dir_entry: it stops at the first slot never used and
\* steps over the erased ones.
Matches(s, n) ==
  /\ IsFile(s) /\ dir[s].name = n
  /\ \A t \in 1 .. (s - 1) : dir[t].state # "unused"
Found(n)  == \E s \in Slots : Matches(s, n)
SlotOf(n) == CHOOSE s \in Slots :
               Matches(s, n) /\ \A t \in 1 .. (s - 1) : ~Matches(t, n)

\* The names fs_ls hands to its callback.
Listing == {dir[s].name : s \in {t \in Slots : Matches(t, dir[t].name)}}

\* The slot create_dir_entry takes: the lowest that holds no file.
FirstOpen(s) == ~IsFile(s) /\ \A t \in 1 .. (s - 1) : IsFile(t)
SomeOpen     == \E s \in Slots : ~IsFile(s)

\* The cluster alloc_cluster takes, and what fs_free_space counts.
LowestFreeBug(c) ==             \* fault: takes whatever does not end a chain
  fat[c] # EOC /\ \A d \in Clusters : d < c => fat[d] = EOC
LowestFree(c) == fat[c] = Free /\ \A d \in Clusters : d < c => fat[d] # Free
SomeFree      == \E c \in Clusters : fat[c] = Free
FreeSpace     == Cardinality({c \in Clusters : fat[c] = Free}) * SectorSize

-----------------------------------------------------------------------------
\* fs_read.  It does not use fat_get: it takes the 16-bit word 2 * cluster
\* bytes past FatStart sectors into the FAT area.  Nibble k of that area
\* belongs to entry k \div 3, of the first copy and then of the second.

FatEntry(copy, e) ==
  IF e \in Clusters THEN copy[e] ELSE IF e = 0 THEN 4080 ELSE EOC
Nibble(k) ==
  LET e == k \div 3
      value == IF e < MaxClusters THEN FatEntry(fat, e)
               ELSE IF e < 2 * MaxClusters
               THEN FatEntry(fat2, e - MaxClusters) ELSE 0
  IN  (value \div (16 ^ (k % 3))) % 16
NextWord(c) ==
  LET k == 2 * (FatStart * SectorSize + 2 * c)
  IN  Nibble(k) + 16 * Nibble(k + 1) + 256 * Nibble(k + 2) + 4096 * Nibble(k + 3)

\* The sector at data_start + c - 2, whatever c is.
SectorOf(c) == IF c \in Clusters /\ c <= LastOnDevice THEN sectors[c]
               ELSE [i \in 1 .. SectorSize |-> Junk]

AtMost(a, b)    == IF a < b THEN a ELSE b
SectorsFor(len) == (len + SectorSize - 1) \div SectorSize

\* What a walk through the clusters at[0], at[1], ... delivers of entry s: one
\* sector a step, until the walk meets an end-of-chain value.
Deliver(s, at, steps) ==
  LET taken == Cardinality({i \in 0 .. (steps - 1) : at[i] < FirstEnd})
  IN  [j \in 1 .. AtMost(taken * SectorSize, dir[s].size) |->
         SectorOf(at[(j - 1) \div SectorSize])[((j - 1) % SectorSize) + 1]]

ReadFile(s, maxlen) ==
  LET steps == SectorsFor(AtMost(dir[s].size, maxlen))
      at[i \in 0 .. steps] ==
        IF i = 0 THEN dir[s].first
        ELSE IF at[i - 1] >= FirstEnd THEN at[i - 1] ELSE NextWord(at[i - 1])
  IN  Deliver(s, at, steps)

-----------------------------------------------------------------------------
\* Steps shared by the operations.

FatSetBug(c, value) == fat' = fat /\ mirror' = c   \* fault: skips copy 0
FatSet(c, value) == fat' = [fat EXCEPT ![c] = value] /\ mirror' = c

\* The call returns: its locals are gone.
Return(r) ==
  /\ pc' = "idle" /\ job' = NoJob /\ result' = r
  /\ victim' = 0 /\ cluster' = 0 /\ first' = 0 /\ prev' = 0 /\ done' = 0

\* The write fails: what it has allocated is given back.
GiveBackBug == Return("failed")   \* fault: no cleanup
GiveBack ==
  IF first = 0
  THEN Return("failed")
  ELSE /\ pc' = "free_new" /\ cluster' = first /\ first' = 0 /\ prev' = 0
       /\ UNCHANGED <<job, victim, done, result>>

\* The call fails before it has touched anything.
Refuse ==
  /\ result' = "failed"
  /\ UNCHANGED <<disk, mirror, pc, job, locals, crashes, torn>>

AfterDelete(data) == IF data = <<>> THEN "entry" ELSE "alloc"

\* fs_delete up to its first sector write, from the shell or from fs_write.
BeginDelete(op, n, data) ==
  /\ job' = [op |-> op, name |-> n, data |-> data]
  /\ result' = "none"
  /\ IF Found(n)
     THEN /\ pc' = "free_old"
          /\ victim' = SlotOf(n)
          /\ cluster' = dir[SlotOf(n)].first
     ELSE /\ pc' = AfterDelete(data)
          /\ UNCHANGED <<victim, cluster>>
  /\ UNCHANGED <<disk, mirror, first, prev, done, crashes, torn>>

-----------------------------------------------------------------------------
\* The operations, called when no call is in progress.

Delete(n) ==
  /\ pc = "idle"
  /\ IF Found(n) THEN BeginDelete("delete", n, <<>>) ELSE Refuse

Write(n, data) == pc = "idle" /\ BeginDelete("write", n, data)

\* fs_append reads the whole old file and rewrites it with the text added.
Append_(n, text) ==
  /\ pc = "idle"
  /\ IF Found(n)
     THEN LET s   == SlotOf(n)
              old == ReadFile(s, dir[s].size)
          IN  /\ dir[s].size <= MaxReadBack
              /\ dir[s].size + Len(text) <= MaxLength
              /\ IF Len(old) = dir[s].size
                 THEN BeginDelete("write", n, old \o text) ELSE Refuse
     ELSE BeginDelete("write", n, text)

\* The shell's cp.
Copy(src, dst) ==
  /\ pc = "idle"
  /\ IF Found(src)
     THEN /\ dir[SlotOf(src)].size <= MaxReadBack
          /\ BeginDelete("write", dst, ReadFile(SlotOf(src), MaxFileSize))
     ELSE Refuse

\* fs_rename is one sector write.
MayRenameBug(old, new) == Found(old)              \* fault: overwrites new
MayRename(old, new)    == ~Found(new) /\ Found(old)
Rename(old, new) ==
  /\ pc = "idle"
  /\ IF MayRename(old, new)
     THEN /\ LET s == SlotOf(old)
             IN  dir' = [dir EXCEPT ![s] = FileEntry(new, dir[s].first, dir[s].size)]
          /\ result' = "ok"
          /\ UNCHANGED <<fat, fat2, sectors, mirror, pc, job, locals, crashes, torn>>
     ELSE Refuse

-----------------------------------------------------------------------------
\* The steps of a call in progress.

Running == pc # "idle" /\ mirror = 0

\* The second write of fat_set.
WriteSecondFatBug ==                              \* fault: stops at copy 0
  /\ mirror # 0 /\ mirror' = 0
  /\ UNCHANGED <<disk, pc, job, locals, result, crashes, torn>>
WriteSecondFat ==
  /\ mirror # 0
  /\ fat2' = [fat2 EXCEPT ![mirror] = fat[mirror]]
  /\ mirror' = 0
  /\ UNCHANGED <<fat, dir, sectors, pc, job, locals, result, crashes, torn>>

\* One turn of the loop of free_cluster_chain.
FreeOne ==
  /\ Running /\ pc \in {"free_old", "free_new"}
  /\ cluster \in Clusters
  /\ FatSet(cluster, Free)
  /\ cluster' = fat[cluster]
  /\ UNCHANGED <<fat2, dir, sectors, pc, job, victim, first, prev, done, result,
                 crashes, torn>>

\* delete_entry_at: only now, with the chain gone, is the entry erased.
EraseEntry ==
  /\ Running /\ pc = "free_old"
  /\ cluster \notin Clusters
  /\ dir' = [dir EXCEPT ![victim] = ErasedSlot]
  /\ IF job.op = "delete"
     THEN Return("ok")
     ELSE /\ pc' = AfterDelete(job.data)
          /\ victim' = 0 /\ cluster' = 0
          /\ UNCHANGED <<job, first, prev, done, result>>
  /\ UNCHANGED <<fat, fat2, sectors, mirror, crashes, torn>>

\* alloc_cluster: the lowest free cluster, marked end-of-chain at once.
Alloc ==
  /\ Running /\ pc = "alloc"
  /\ \E c \in Clusters :
       /\ LowestFree(c)
       /\ FatSet(c, EOC)
       /\ cluster' = c
       /\ first' = IF first = 0 THEN c ELSE first
  /\ pc' = IF prev = 0 THEN "data" ELSE "link"
  /\ UNCHANGED <<fat2, dir, sectors, job, victim, prev, done, result, crashes, torn>>

\* Out of space.
AllocFullBug == Running /\ pc = "alloc" /\ ~SomeFree /\ UNCHANGED vars  \* fault: tries again
AllocFull ==
  /\ Running /\ pc = "alloc"
  /\ ~SomeFree
  /\ GiveBack
  /\ UNCHANGED <<disk, mirror, crashes, torn>>

LinkBug ==                                        \* fault: arguments swapped
  /\ Running /\ pc = "link"
  /\ FatSet(cluster, prev)
  /\ pc' = "data"
  /\ UNCHANGED <<fat2, dir, sectors, job, locals, result, crashes, torn>>
Link ==
  /\ Running /\ pc = "link"
  /\ FatSet(prev, cluster)
  /\ pc' = "data"
  /\ UNCHANGED <<fat2, dir, sectors, job, locals, result, crashes, torn>>

\* The data of one cluster, padded with zeros.  A write past the end of the
\* device is lost: ata_write_sector never looks at the error bit.
ChunkBug == [i \in 1 .. SectorSize |->            \* fault: p not advanced
               IF i <= Len(job.data) THEN job.data[i] ELSE Zero]
Chunk == [i \in 1 .. SectorSize |->
            IF done + i <= Len(job.data) THEN job.data[done + i] ELSE Zero]
TargetBug == cluster + 1                          \* fault: lba off by one
Target    == cluster
MoreToWriteBug == Len(job.data) - done >= SectorSize   \* fault: off by one
MoreToWrite    == Len(job.data) - done > SectorSize
WriteData ==
  /\ Running /\ pc = "data"
  /\ sectors' = IF Target <= LastOnDevice
                THEN [sectors EXCEPT ![Target] = Chunk] ELSE sectors
  /\ prev' = cluster /\ cluster' = 0
  /\ IF MoreToWrite
     THEN done' = done + SectorSize /\ pc' = "alloc"
     ELSE done' = Len(job.data) /\ pc' = "seal"
  /\ UNCHANGED <<fat, fat2, dir, mirror, job, victim, first, result, crashes, torn>>

\* "mark last cluster EOC"
Seal ==
  /\ Running /\ pc = "seal"
  /\ FatSet(prev, EOC)
  /\ pc' = "entry"
  /\ UNCHANGED <<fat2, dir, sectors, job, locals, result, crashes, torn>>

CreateEntry ==
  /\ Running /\ pc = "entry"
  /\ \E s \in Slots :
       /\ FirstOpen(s)
       /\ dir' = [dir EXCEPT ![s] = FileEntry(job.name, first, Len(job.data))]
  /\ Return("ok")
  /\ UNCHANGED <<fat, fat2, sectors, mirror, crashes, torn>>

CreateFull ==
  /\ Running /\ pc = "entry"
  /\ ~SomeOpen
  /\ GiveBack
  /\ UNCHANGED <<disk, mirror, crashes, torn>>

GiveUp ==
  /\ Running /\ pc = "free_new"
  /\ cluster \notin Clusters
  /\ Return("failed")
  /\ UNCHANGED <<disk, mirror, crashes, torn>>

-----------------------------------------------------------------------------
\* Power loss: the disk stays as it is, the locals are gone, the second copy
\* of the FAT may be one entry behind.  A delete is torn when part of the
\* chain is free and the entry still points at its head.
Tearing == pc = "free_old" /\ cluster # dir[victim].first
Crash ==
  /\ pc # "idle" /\ crashes < MaxCrashes
  /\ TornDeletes \/ ~Tearing
  /\ crashes' = crashes + 1
  /\ torn' = (torn \/ Tearing)
  /\ mirror' = 0
  /\ Return("none")
  /\ UNCHANGED disk

-----------------------------------------------------------------------------
Init ==
  /\ fat = [c \in Clusters |-> Free] /\ fat2 = fat
  /\ dir = [s \in Slots |-> UnusedSlot]
  /\ sectors = [c \in Clusters |-> [i \in 1 .. SectorSize |-> Zero]]
  /\ mirror = 0 /\ pc = "idle" /\ job = NoJob
  /\ victim = 0 /\ cluster = 0 /\ first = 0 /\ prev = 0 /\ done = 0
  /\ result = "none" /\ crashes = 0 /\ torn = FALSE

Call ==
  \/ \E n \in FatName : Delete(n)
  \/ \E n \in FatName, data \in Texts : Write(n, data)
  \/ \E n \in FatName, text \in Texts : Append_(n, text)
  \/ \E src, dst \in FatName : Copy(src, dst)
  \/ \E old, new \in FatName : Rename(old, new)

Step ==
  \/ WriteSecondFat \/ FreeOne \/ EraseEntry
  \/ Alloc \/ AllocFull \/ Link \/ WriteData \/ Seal
  \/ CreateEntry \/ CreateFull \/ GiveUp

Next == Call \/ Step \/ Crash

Spec == Init /\ [][Next]_vars

\* The processor runs a call it has started; nobody need start one.
FairSpec == Spec /\ WF_vars(Step)

-----------------------------------------------------------------------------
\* What must hold.

DirEntry == [state : {"unused", "erased", "file"}, name : FatName \cup {NoName},
             first : Clusters \cup {0}, size : Nat]
TypeOK ==
  /\ fat  \in [Clusters -> Clusters \cup {Free, EOC}]
  /\ fat2 \in [Clusters -> Clusters \cup {Free, EOC}]
  /\ dir \in [Slots -> DirEntry]
  /\ sectors \in [Clusters -> [1 .. SectorSize -> Byte]]
  /\ mirror \in Clusters \cup {0}
  /\ pc \in {"idle", "free_old", "free_new", "alloc", "link", "data", "seal", "entry"}
  /\ job \in [op : {"none", "delete", "write"},
              name : FatName \cup {NoName}, data : Seq(Byte)]
  /\ victim \in Slots \cup {0}
  /\ cluster \in Clusters \cup {0, EOC}
  /\ first \in Clusters \cup {0} /\ prev \in Clusters \cup {0}
  /\ done \in Nat
  /\ result \in {"none", "ok", "failed"}
  /\ crashes \in 0 .. MaxCrashes
  /\ torn \in BOOLEAN

\* The entries that own a chain: not the one whose chain is being freed.
Owners == {s \in Slots : IsFile(s) /\ ~(pc = "free_old" /\ s = victim)}

\* The clusters a local of the call in progress refers to.
Held(c) ==
  \/ pc \in {"free_old", "free_new", "link"} /\ cluster = c
  \/ pc \in {"alloc", "link", "data", "seal", "entry"} /\ first = c

HasLink(c)  == \E x \in Clusters : fat[x] = c
HasOwner(c) == \E s \in Owners : dir[s].first = c

\* No link, directory entry or local refers to a free cluster, so that
\* alloc_cluster never hands out a cluster somebody still uses.  Power loss in
\* the middle of a delete is the one thing that breaks it (fs.c:280-283 frees
\* the chain before it erases the entry).
NoDangling ==
  ~torn => \A c \in Clusters :
             Held(c) \/ HasOwner(c) \/ HasLink(c) => fat[c] # Free

\* A cluster is referred to once: no two chains meet, no entry points into
\* the middle of another's chain, no two entries share a chain.
NoSharing ==
  ~torn =>
    /\ \A x, y \in Clusters : fat[x] = fat[y] /\ fat[x] \in Clusters => x = y
    /\ \A s, t \in Owners :
         dir[s].first = dir[t].first /\ dir[s].first \in Clusters => s = t
    /\ \A s \in Owners, x \in Clusters :
         dir[s].first \in Clusters => fat[x] # dir[s].first
    /\ \A c \in Clusters : Held(c) => ~HasLink(c) /\ ~HasOwner(c)
    /\ pc = "link" => first # cluster

\* Without a power loss nothing is lost: every allocated cluster is still
\* referred to, also after a write that ran out of space or of entries.
NoLeak ==
  crashes = 0 => \A c \in Clusters :
                   fat[c] # Free => Held(c) \/ HasOwner(c) \/ HasLink(c)

\* The two copies of the FAT differ in at most one entry for each power loss,
\* besides the entry fat_set is in the middle of writing.
Behind == {c \in Clusters \ {mirror} : fat[c] # fat2[c]}
CopiesDiffer == Cardinality(Behind) <= crashes

\* fs_ls reports every file: no file sits behind a slot the scan takes for the
\* end of the directory, whatever was created, erased and created again.
EveryFileListed == Listing = {dir[s].name : s \in {t \in Slots : IsFile(t)}}

\* Two entries never have the same name, so that delete and rename of a name
\* leave nothing of it behind.
UniqueNames ==
  \A s, t \in Slots : IsFile(s) /\ IsFile(t) /\ dir[s].name = dir[t].name => s = t

\* fs.c:170-181, 253-263: typing the name of a file as the list shows it finds
\* that file, whatever was created, deleted and renamed before, but for a name
\* with a space in it: rename and cp take one, the list leaves it out, and what
\* it shows may be the name of another file.
ListedNamesFind ==
  \A s \in Slots : IsFile(s) =>
    LET shown == Retyped(dir[s].name)
    IN  Found(shown) /\ SlotOf(shown) = s <=> Spaceless(dir[s].name)

\* The clusters a walk along the links of copy f meets from a, n steps far.
NextLink(f, c) == IF c \in Clusters THEN f[c] ELSE EOC
Walk(f, a, n) ==
  LET at[i \in 0 .. n] == IF i = 0 THEN a ELSE NextLink(f, at[i - 1])
  IN  at

\* The chain of an entry, as far as its size says it goes and one step more.
Chain(s) == Walk(fat, dir[s].first, SectorsFor(dir[s].size))

\* The chain of every file has exactly the sectors its size asks for, and
\* then ends.
ChainsFitSizes ==
  ~torn => \A s \in Owners :
    LET n == SectorsFor(dir[s].size)
    IN  /\ \A i \in 0 .. (n - 1) : Chain(s)[i] \in Clusters
        /\ Chain(s)[n] = IF n = 0 THEN 0 ELSE EOC

\* Between calls, and without a power loss, df reports every cluster that the
\* files' sizes leave over: operations, failed ones too, cost no space.
FreeSpaceExact ==
  crashes = 0 /\ pc = "idle" =>
    FreeSpace + SectorSize * Cardinality({p \in Slots \X (1 .. MaxClusters) :
                    IsFile(p[1]) /\ p[2] <= SectorsFor(dir[p[1]].size)})
      = SectorSize * Cardinality(Clusters)

\* The bytes of a file as its chain holds them.
Contents == [s \in Slots |->
               IF IsFile(s)
               THEN Deliver(s, Chain(s), SectorsFor(dir[s].size)) ELSE <<>>]

\* No step of any operation changes the bytes of a file, except of the one
\* whose chain is being freed.
OthersUntouched ==
  [][~torn => \A s \in Owners :
        IsFile(s)' /\ (Contents[s])' = Contents[s]]_vars

\* Every call returns, also on a full disk, and also after a torn delete has
\* let two files share clusters.
Returns == (pc # "idle") ~> (pc = "idle")

\* The store fs.h promises: a name has a text when an entry has its name and
\* its chain is still whole.
Whole(s)   == IsFile(s) /\ ~(s = victim /\ Tearing)
HasFile(n) == \E s \in Slots : Whole(s) /\ dir[s].name = n
Store == INSTANCE FileStore WITH
  store <- [n \in {m \in FatName : HasFile(m)} |->
              Contents[CHOOSE s \in Slots : Whole(s) /\ dir[s].name = n]],
  pending <- CASE job.op = "none"   -> [op |-> "none"]
               [] job.op = "delete" -> [op |-> "delete", name |-> job.name]
               [] job.op = "write"  -> job

\* Every behaviour of fs.c is one of the abstract store, power losses outside
\* the freeing of a chain included, and every call is answered.
ImplementsStore == Store!Spec

\* fs.h:9-11: fs_read returns the bytes of the file.
ReadsBack ==
  pc = "idle" => \A s \in Slots :
    IsFile(s) => ReadFile(s, dir[s].size) = Contents[s]
=============================================================================
