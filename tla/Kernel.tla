-------------------------------- MODULE Kernel --------------------------------
(***************************************************************************)
(* The processor of src/src: kernel_main, the timer and keyboard           *)
(* interrupts, the task table with its scheduler, and the shell commands   *)
(* that reach them.                                                        *)
(*                                                                         *)
(* There is one processor, and every handler runs behind an interrupt gate *)
(* with the interrupt flag clear, so a handler is one action -- except for *)
(* the loops some commands wait in with hlt.  The whole shell runs inside  *)
(* the keyboard's handler.  Slot i of the task table is tasks[i-1] of the  *)
(* code.                                                                   *)
(***************************************************************************)
EXTENDS Integers, Sequences

CONSTANTS
  MaxTasks,    \* MAX_TASKS
  MaxRuns,     \* bound: tasks ever started
  MaxKills,    \* bound: kill commands typed
  Seconds      \* arguments of sleep

ASSUME LimitsAssumption ==
  MaxTasks \in Nat \ {0} /\ MaxRuns \in Nat /\ MaxKills \in Nat /\ Seconds \subseteq Nat

VARIABLES
  tasks,       \* the task table, as far as task_count
  current,     \* current_task
  running,     \* the code the processor runs when no handler runs
  interrupts,  \* the interrupt flag
  waiting,     \* the processor is in a hlt of a handler
  handler,     \* what the keyboard's handler, or a trap, is doing
  left,        \* ticks until a sleep ends
  line,        \* the command in linebuf
  runs,        \* tasks started so far
  typed        \* kill commands typed so far

machine == <<interrupts, waiting, handler, left>>
vars    == <<tasks, current, running, machine, line, runs, typed>>

KernelStack == 0           \* an esp on a kernel stack; stack k belongs to run k
Main   == [id |-> 0, esp |-> KernelStack]           \* kernel_main
NoLine == [op |-> "none", arg |-> 0]
Commands ==
  [op : {"run", "gui", "halt"}, arg : {0}]
    \cup [op : {"kill"}, arg : 1 .. MaxTasks] \cup [op : {"sleep"}, arg : Seconds]

Alive(id) == \E i \in DOMAIN tasks : tasks[i].id = id

-----------------------------------------------------------------------------
\* schedule() on a table ts whose current task is cur: the kernel's esp goes
\* into the slot of the old task, and context_switch_user enters the next one
\* at its entry point, on whatever stack its slot holds, with interrupts on.
context_switch_user(task) == running' = task
NextSlotBug(ts, cur) == IF cur < Len(ts) - 1 THEN cur + 1 ELSE 1   \* fault: off by one
NextSlot(ts, cur)    == (cur % Len(ts)) + 1
AloneBug(ts) == Len(ts) <= 2                     \* fault: off by one
Alone(ts)    == Len(ts) <= 1
Schedule(ts, cur) ==
  IF Alone(ts)
  THEN tasks' = ts /\ current' = cur /\ UNCHANGED running
  ELSE LET next  == NextSlot(ts, cur)
           saved == [ts EXCEPT ![cur].esp = KernelStack]
       IN  /\ tasks' = saved
           /\ current' = next
           /\ context_switch_user(saved[next])

\* The interrupt of the timer: pit_handler, then schedule.  An interrupt also
\* ends a hlt.
pit_handler == left' = IF left > 0 THEN left - 1 ELSE 0
Timer ==
  /\ interrupts
  /\ pit_handler
  /\ waiting' = FALSE
  /\ Schedule(tasks, current)
  /\ UNCHANGED <<interrupts, handler, line, runs, typed>>

-----------------------------------------------------------------------------
\* The keyboard.  A command is typed, or rubbed out, key by key; what follows
\* a command on the same line never changes which command it is.

Type(c) ==
  /\ interrupts
  /\ line = NoLine
  /\ c.op = "kill" => typed < MaxKills
  /\ line' = c
  /\ typed' = typed + (IF c.op = "kill" THEN 1 ELSE 0)
  /\ UNCHANGED <<tasks, current, running, machine, runs>>

RubOut ==
  /\ interrupts
  /\ line # NoLine /\ line' = NoLine
  /\ UNCHANGED <<tasks, current, running, machine, runs, typed>>

\* Enter runs the command in linebuf; shell_feed then empties the line.
Enter(op) == interrupts /\ line.op = op

\* run.  What the file holds makes no difference: of an image that is no ELF
\* load_elf returns -1, which the shell, looking for 0, takes for an entry
\* point.  A file that is not there leaves nothing but an empty line.
HasRoom    == Len(tasks) < MaxTasks
task_create_user(id) ==
  tasks' = IF HasRoom THEN Append(tasks, [id |-> id, esp |-> id]) ELSE tasks
Run ==
  /\ Enter("run")
  /\ runs < MaxRuns
  /\ runs' = runs + 1
  /\ task_create_user(runs')
  /\ line' = NoLine
  /\ UNCHANGED <<current, running, machine, typed>>

\* kill: the table is shifted over the slot.  Killing the current task enters
\* the next one right here: shell_feed never gets to empty the line.
ShiftedBug(ts, t) ==                             \* fault: esp not moved along
  [i \in 1 .. (Len(ts) - 1) |->
     IF i < t THEN ts[i] ELSE [ts[i + 1] EXCEPT !.esp = ts[i].esp]]
ShiftedLateBug(ts, t) ==                         \* fault: starts one slot late
  [i \in 1 .. (Len(ts) - 1) |-> IF i <= t THEN ts[i] ELSE ts[i + 1]]
Shifted(ts, t) == [i \in 1 .. (Len(ts) - 1) |-> IF i < t THEN ts[i] ELSE ts[i + 1]]
WrapBug(cur, n) == IF cur > n + 1 THEN 1 ELSE cur    \* fault: off by one
Wrap(cur, n)    == IF cur > n THEN 1 ELSE cur
Kill ==
  /\ Enter("kill")
  /\ LET t == line.arg
     IN  IF t \in DOMAIN tasks
         THEN LET ts  == Shifted(tasks, t)
                  cur == Wrap(current, Len(ts))
              IN  /\ IF t = current
                     THEN Schedule(ts, cur)
                     ELSE tasks' = ts /\ current' = cur /\ UNCHANGED running
                  /\ line' = IF t = current /\ ~Alone(ts) THEN line ELSE NoLine
         ELSE line' = NoLine /\ UNCHANGED <<tasks, current, running>>
  /\ UNCHANGED <<machine, runs, typed>>

\* Commands that wait, or stop, inside the handler.
Occupy(what) ==
  /\ handler' = what /\ interrupts' = FALSE
  /\ UNCHANGED <<tasks, current, running, waiting, line, runs, typed>>

Sleep == Enter("sleep") /\ left' = line.arg /\ Occupy("sleep")
SleepLoop ==
  /\ handler = "sleep" /\ ~waiting
  /\ IF left > 0
     THEN waiting' = TRUE /\ UNCHANGED <<interrupts, handler, line>>
     ELSE /\ handler' = "none" /\ interrupts' = TRUE /\ line' = NoLine
          /\ UNCHANGED waiting
  /\ UNCHANGED <<tasks, current, running, left, runs, typed>>

Gui == Enter("gui") /\ Occupy("gui") /\ UNCHANGED left
GuiLoop ==
  /\ handler = "gui" /\ ~waiting
  /\ waiting' = TRUE
  /\ UNCHANGED <<tasks, current, running, interrupts, handler, left, line, runs, typed>>

Halt == Enter("halt") /\ Occupy("halt") /\ UNCHANGED left

-----------------------------------------------------------------------------
\* What user code does: SYS_EXIT halts the machine, and so does the handler of
\* an exception it raises.

UserMode == interrupts /\ running.id # 0

Exit  == UserMode /\ Occupy("exit") /\ UNCHANGED left
Fault == UserMode /\ Occupy("fault") /\ UNCHANGED left

-----------------------------------------------------------------------------
Init ==
  /\ tasks = <<>> /\ current = 1 /\ running = Main
  /\ interrupts = TRUE /\ waiting = FALSE /\ handler = "none" /\ left = 0
  /\ line = NoLine /\ runs = 0 /\ typed = 0

Keyboard ==
  \/ \E c \in Commands : Type(c)
  \/ RubOut \/ Run \/ Kill \/ Sleep \/ Gui \/ Halt
Processor == SleepLoop \/ GuiLoop
User == Exit \/ Fault
Next == Timer \/ Keyboard \/ Processor \/ User

Spec == Init /\ [][Next]_vars

\* The timer interrupts again and again while it may, and the processor runs
\* the handler it is in.  Nobody has to type, and no program has to end.
FairSpec == Spec /\ WF_vars(Timer) /\ WF_vars(Processor)

-----------------------------------------------------------------------------
\* What must hold.

Task == [id : 1 .. MaxRuns, esp : 0 .. MaxRuns]
TypeOK ==
  /\ tasks \in Seq(Task) /\ Len(tasks) <= MaxTasks
  /\ current \in 1 .. MaxTasks
  /\ running \in Task \cup {Main}
  /\ interrupts \in BOOLEAN /\ waiting \in BOOLEAN
  /\ handler \in {"none", "sleep", "gui", "halt", "exit", "fault"}
  /\ left \in Nat
  /\ line \in Commands \cup {NoLine}
  /\ runs \in 0 .. MaxRuns /\ typed \in 0 .. MaxKills

\* schedule() writes and reads the slot current_task names: whatever was
\* started and killed in any order, that is the slot of a task.
CurrentIsATask == current \in DOMAIN tasks \/ (tasks = <<>> /\ current = 1)

\* A task runs on the stack run allocated for it or on a kernel stack, never
\* on one of another task, also after kill has moved the slots about.
NoForeignStack ==
  /\ \A i \in DOMAIN tasks : tasks[i].esp \in {KernelStack, tasks[i].id}
  /\ running.esp \in {KernelStack, running.id}

\* A switch, from the timer or from kill, enters the task that current_task
\* names afterwards, and never one that is no longer in the table.
SwitchesToCurrent ==
  [][running' # running =>
       current' \in DOMAIN tasks' /\ running'.id = tasks'[current'].id]_vars

\* A step leaves the tasks in the table in their order, which is the order of
\* their turns; only kill takes one out, and it is the one whose number was
\* typed.
KeepsTurns ==
  [][\/ /\ Len(tasks) <= Len(tasks')
        /\ \A i \in DOMAIN tasks : tasks'[i].id = tasks[i].id
     \/ /\ line.op = "kill" /\ line.arg \in DOMAIN tasks
        /\ Len(tasks') = Len(tasks) - 1
        /\ \A i \in DOMAIN tasks :
             /\ i < line.arg => tasks'[i].id = tasks[i].id
             /\ i > line.arg => tasks'[i - 1].id = tasks[i].id]_vars

\* Round robin: with two tasks or more, and as long as the machine takes
\* interrupts, every task in the table gets the processor.
Unsettled(id) == ~Alive(id) \/ Len(tasks) < 2 \/ ~interrupts
EveryTaskRuns ==
  \A id \in 1 .. MaxRuns :
    (Alive(id) /\ Len(tasks) >= 2) ~> (running.id = id \/ Unsettled(id))

\* A killed task that still has the processor loses it, once two are left.
KilledTaskStops ==
  \A id \in 1 .. MaxRuns :
    (running.id = id /\ ~Alive(id) /\ Len(tasks) >= 2)
      ~> (running.id # id \/ Len(tasks) < 2 \/ ~interrupts)
=============================================================================
