----------------------------- MODULE SectorDisk ------------------------------
(***************************************************************************)
(* What a driver of a disk promises (src/src/ata.h): one sector is read or *)
(* written at a time, whole. When the call returns the caller's buffer and *)
(* the sector are alike. A power loss loses the call, never half of it.    *)
(***************************************************************************)
CONSTANTS Lba, Sector, Blank

VARIABLES store, call, buffer
vars == <<store, call, buffer>>

NoCall == [op |-> "none"]

Ask(c) ==
  /\ call = NoCall /\ call' = c
  /\ buffer' = IF c.op = "write" THEN c.data ELSE Blank
  /\ UNCHANGED store
Put ==
  /\ call.op = "write"
  /\ store' = [store EXCEPT ![call.lba] = call.data]
  /\ UNCHANGED <<call, buffer>>
Answer ==
  /\ call # NoCall /\ call' = NoCall
  /\ call.op = "write" => store[call.lba] = call.data
  /\ buffer' = store[call.lba] /\ UNCHANGED store
PowerLoss ==
  /\ call' = NoCall /\ buffer' = Blank /\ UNCHANGED store

Request == [op : {"read"}, lba : Lba] \cup [op : {"write"}, lba : Lba, data : Sector]
Init == store \in [Lba -> Sector] /\ call = NoCall /\ buffer = Blank
Next == (\E c \in Request : Ask(c)) \/ Put \/ Answer \/ PowerLoss
Spec == Init /\ [][Next]_vars /\ WF_vars(Put \/ Answer)
=============================================================================
