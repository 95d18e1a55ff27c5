----------------------------- MODULE FileStore -----------------------------
(***************************************************************************)
(* What src/src/fs.h promises its callers: a store of named byte strings.  *)
(*                                                                         *)
(* A call is accepted in one step and answered in a later one.  A write    *)
(* replaces the file in two moves, the old text first: between them, and   *)
(* for good when the store is full or power is lost, the name has no file. *)
(* No other file ever changes.                                             *)
(***************************************************************************)
EXTENDS Sequences

CONSTANTS FatName, Texts

VARIABLES
  store,    \* the files: a function from the names that have one to the texts
  pending,  \* the call that has not been answered
  result    \* the last answer

svars == <<store, pending, result>>

NoCall == [op |-> "none"]
Ready  == pending.op = "none"
Missing(n) == n \notin DOMAIN store
Without(n)  == [m \in DOMAIN store \ {n} |-> store[m]]
With(n, text) == [m \in DOMAIN store \cup {n} |-> IF m = n THEN text ELSE store[m]]

Accept(call) == Ready /\ pending' = call /\ result' = "none" /\ UNCHANGED store
Reject       == Ready /\ result' = "failed" /\ UNCHANGED <<store, pending>>
WriteOf(n, text) == [op |-> "write", name |-> n, data |-> text]

Delete(n) ==
  IF Missing(n) THEN Reject ELSE Accept([op |-> "delete", name |-> n])
Write(n, text) == Accept(WriteOf(n, text))
Extend(n, text) ==
  Accept(WriteOf(n, IF Missing(n) THEN text ELSE store[n] \o text))
Copy(src, dst) ==
  IF Missing(src) THEN Reject ELSE Accept(WriteOf(dst, store[src]))

Rename(old, new) ==
  IF Missing(old) \/ ~Missing(new)
  THEN Reject
  ELSE /\ Ready
       /\ store' = [m \in (DOMAIN store \ {old}) \cup {new} |->
                      IF m = new THEN store[old] ELSE store[m]]
       /\ result' = "ok"
       /\ UNCHANGED pending

Answer(r) == pending' = NoCall /\ result' = r

\* The old text is given up before the new one is there.
Drop ==
  /\ ~Ready
  /\ ~Missing(pending.name)
  /\ store' = Without(pending.name)
  /\ UNCHANGED <<pending, result>>
Deleted ==
  /\ pending.op = "delete"
  /\ store' = Without(pending.name)
  /\ Answer("ok")
Put ==
  /\ pending.op = "write"
  /\ Missing(pending.name)
  /\ store' = With(pending.name, pending.data)
  /\ Answer("ok")
NoSpace ==
  /\ pending.op = "write"
  /\ Missing(pending.name)
  /\ Answer("failed")
  /\ UNCHANGED store

\* Power loss: the call is forgotten, the store is what it was.
PowerLoss == ~Ready /\ Answer("none") /\ UNCHANGED store

Init ==
  store = [n \in {} |-> <<>>] /\ pending = NoCall /\ result = "none"

Call ==
  \/ \E n \in FatName : Delete(n)
  \/ \E n \in FatName, text \in Texts : Write(n, text) \/ Extend(n, text)
  \/ \E src, dst \in FatName : Copy(src, dst)
  \/ \E old, new \in FatName : Rename(old, new)
Work == Drop \/ Deleted \/ Put \/ NoSpace
Next == Call \/ Work \/ PowerLoss

Spec == Init /\ [][Next]_svars /\ WF_svars(Work)
=============================================================================
