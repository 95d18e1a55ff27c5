-------------------------------- MODULE Shell --------------------------------
(***************************************************************************)
(* The lines of src/src/shell.c: the buffer they are typed into, the ring  *)
(* execute saves them in, and !n, which execute runs by calling itself.    *)
(* The shell runs in the keyboard's handler, so nothing comes between the  *)
(* calls. What the other commands do is in the modules of the components   *)
(* they call; of them this module asks only whether they come back.        *)
(***************************************************************************)
EXTENDS Integers, Sequences

CONSTANTS
  MAX_HISTORY,
  Number,      \* what atoi makes of what follows a ! (0 where no digits do)
  Word,        \* 2^32: cmd is unsigned
  MaxLines     \* bound: lines run when the user presses Enter

ASSUME HistoryAssumption ==
  MAX_HISTORY \in Nat \ {0} /\ Number \subseteq Int /\ Word \in Nat \ {0} /\ MaxLines \in Nat

\* A line that recalls another; one whose command comes back; one whose command
\* does not: kill of the current task, which enters the next one.
NoLine  == [op |-> "none", n |-> 0]
Command == [op : {"recall"}, n : Number] \cup [op : {"other", "leaves"}, n : {0}]

VARIABLES
  linebuf,     \* its first idx characters
  history, hist_count,
  depth        \* calls of execute in progress

vars == <<linebuf, history, hist_count, depth>>

Slots == 0 .. (MAX_HISTORY - 1)
Init == /\ linebuf = NoLine /\ depth = 0
        /\ history = [s \in Slots |-> NoLine] /\ hist_count = 0

\* shell_feed: characters and '\b' make any line of what is there, also of a
\* line that a command which did not come back has left.
Type(c) ==
  /\ depth = 0 /\ linebuf' = c
  /\ UNCHANGED <<history, hist_count, depth>>

\* '\n'; an empty line does nothing.
Enter ==
  /\ depth = 0 /\ linebuf # NoLine /\ hist_count < MaxLines
  /\ depth' = 1
  /\ UNCHANGED <<linebuf, history, hist_count>>

Slot(i) == i % MAX_HISTORY
Saved == [history EXCEPT ![Slot(hist_count)] = linebuf]
Start(count) == IF count > MAX_HISTORY THEN count - MAX_HISTORY ELSE 0
ListedBug(cmd, count) == cmd < count             \* fault: the start not looked at
ListedLateBug(cmd, count) == cmd + 1 >= Start(count) /\ cmd < count  \* fault: one line too many
Listed(cmd, count) == cmd >= Start(count) /\ cmd < count

\* execute up to the call of itself, or to the return through all of them,
\* after which shell_feed empties the line and prompts.
Recall(count) ==
  /\ linebuf.op = "recall" /\ Listed(linebuf.n % Word, count)
  /\ linebuf' = history'[Slot(linebuf.n % Word)]
  /\ depth' = depth + 1
Refuse(count) ==
  /\ linebuf.op = "recall" /\ ~Listed(linebuf.n % Word, count)
  /\ linebuf' = NoLine /\ depth' = 0
Return == linebuf.op = "other" /\ linebuf' = NoLine /\ depth' = 0
Leave  == linebuf.op = "leaves" /\ UNCHANGED linebuf /\ depth' = 0
execute ==
  /\ depth > 0
  /\ history' = Saved /\ hist_count' = hist_count + 1
  /\ Recall(hist_count') \/ Refuse(hist_count') \/ Return \/ Leave

Next == Enter \/ execute \/ \E c \in Command \cup {NoLine} : Type(c)
Spec == Init /\ [][Next]_vars

-----------------------------------------------------------------------------
\* However the lines of the ring recall each other, execute is never nested
\* deeper than twice the ring, though each call saves a line that could be
\* recalled again: so every line the user enters comes to an end.
NestingBounded == depth <= 2 * MAX_HISTORY

\* The ring is the list of the last lines run, whatever recalled what, and !n
\* runs the line that has that number in it.
Log == INSTANCE CommandLog WITH
         Size <- MAX_HISTORY, Line <- Command, Nobody <- NoLine,
         IsRecall <- LAMBDA c : c.op = "recall", NumberOf <- LAMBDA c : c.n % Word,
         listed <- [k \in 1 .. (hist_count - Start(hist_count)) |-> history[Slot(Start(hist_count) + k - 1)]],
         ran <- hist_count, next <- IF depth > 1 THEN linebuf ELSE NoLine
ImplementsLog == Log!Spec
=============================================================================
