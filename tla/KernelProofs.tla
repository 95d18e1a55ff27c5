----------------------------- MODULE KernelProofs -----------------------------
(***************************************************************************)
(* Proofs about Kernel, for every MAX_TASKS and any number of runs, kills  *)
(* and sleeps: the task table stays typed, current_task names a task, no   *)
(* task gets another's stack, switches enter the current task, the order   *)
(* of the turns is kept, and every tick brings every turn nearer.          *)
(***************************************************************************)
EXTENDS Kernel, TLAPS

\* The ids of a table, in the order of their turns.
Ids(ts) == [i \in DOMAIN ts |-> ts[i].id]

\* The two facts the table needs from one step to the next, for any table.
StacksOf(ts) == \A i \in DOMAIN ts : ts[i].esp \in {KernelStack, ts[i].id}
Table(ts, cur) ==
  /\ ts \in Seq(Task) /\ Len(ts) <= MaxTasks
  /\ cur \in 1 .. MaxTasks
  /\ cur \in DOMAIN ts \/ (ts = <<>> /\ cur = 1)
  /\ StacksOf(ts)

Inv == TypeOK /\ CurrentIsATask /\ NoForeignStack

\* The slot schedule() picks is a slot of the table.
LEMMA NextSlotInTable ==
  ASSUME NEW ts \in Seq(Task), NEW cur \in 1 .. Len(ts), Len(ts) > 1
  PROVE  NextSlot(ts, cur) \in 1 .. Len(ts)
  BY SMT DEF NextSlot

LEMMA SameInterval ==
  ASSUME NEW a \in Nat, NEW b \in Nat, 1 .. a = 1 .. b
  PROVE  a = b
<1>1. CASE a < b
  <2>1. b \in 1 .. b /\ b \notin 1 .. a
    BY <1>1
  <2> QED  BY <2>1
<1>2. CASE b < a
  <2>1. a \in 1 .. a /\ a \notin 1 .. b
    BY <1>2
  <2> QED  BY <2>1
<1> QED  BY <1>1, <1>2

\* What a slot is, field by field.
LEMMA TaskFields ==
  ASSUME NEW x \in Task
  PROVE  /\ x.id \in 1 .. MaxRuns /\ x.esp \in 0 .. MaxRuns
         /\ \A e : [x EXCEPT !.esp = e] = [id |-> x.id, esp |-> e]
  BY DEF Task

LEMMA TaskMade ==
  ASSUME NEW id \in 1 .. MaxRuns, NEW esp \in 0 .. MaxRuns
  PROVE  [id |-> id, esp |-> esp] \in Task
  BY DEF Task

\* Saving an esp leaves a table as long as it was, and every id in its place.
LEMMA SavedTable ==
  ASSUME LimitsAssumption, NEW ts \in Seq(Task), NEW cur \in 1 .. Len(ts)
  PROVE  LET saved == [ts EXCEPT ![cur].esp = KernelStack]
         IN  /\ saved \in Seq(Task) /\ Len(saved) = Len(ts)
             /\ DOMAIN saved = 1 .. Len(ts)
             /\ \A i \in 1 .. Len(ts) :
                  saved[i].id = ts[i].id
                  /\ saved[i].esp \in {KernelStack, ts[i].esp}
<1> DEFINE rec == [id |-> ts[cur].id, esp |-> KernelStack]
           saved == [ts EXCEPT ![cur].esp = KernelStack]
<1>1. ts[cur] \in Task /\ Len(ts) \in Nat /\ DOMAIN ts = 1 .. Len(ts)
  OBVIOUS
<1>2. rec \in Task /\ rec.id = ts[cur].id /\ rec.esp = KernelStack
  <2>1. KernelStack \in 0 .. MaxRuns
    BY LimitsAssumption DEF LimitsAssumption, KernelStack
  <2> QED  BY <1>1, <2>1, TaskFields, TaskMade
<1>3. [ts[cur] EXCEPT !.esp = KernelStack] = rec
  BY <1>1, TaskFields
<1>4. saved = [i \in 1 .. Len(ts) |-> IF i = cur THEN rec ELSE ts[i]]
  <2> HIDE DEF rec
  <2> QED  BY <1>1, <1>3
<1> HIDE DEF rec, saved
<1>5. \A i \in 1 .. Len(ts) : saved[i] \in Task
  BY <1>1, <1>2, <1>4
<1>6. saved \in Seq(Task) /\ Len(saved) = Len(ts) /\ DOMAIN saved = 1 .. Len(ts)
  BY <1>1, <1>4, <1>5
<1>7. \A i \in 1 .. Len(ts) :
        saved[i].id = ts[i].id /\ saved[i].esp \in {KernelStack, ts[i].esp}
  BY <1>1, <1>2, <1>4
<1> QED  BY <1>6, <1>7 DEF saved

\* schedule() takes a sound table to a sound table, and either changes nothing
\* else or enters the task its new current_task names.
LEMMA ScheduleSound ==
  ASSUME LimitsAssumption,
         NEW ts, NEW cur, Table(ts, cur), Schedule(ts, cur),
         running \in Task \cup {Main}, running.esp \in {KernelStack, running.id}
  PROVE  /\ Table(tasks', current')
         /\ running' \in Task \cup {Main}
         /\ running'.esp \in {KernelStack, running'.id}
         /\ Ids(tasks') = Ids(ts)
         /\ running' # running =>
              current' \in DOMAIN tasks' /\ running'.id = tasks'[current'].id
<1>1. CASE Len(ts) <= 1
  BY <1>1 DEF Schedule, Alone, context_switch_user, Table
<1>2. CASE Len(ts) > 1
  <2> DEFINE saved == [ts EXCEPT ![cur].esp = KernelStack]
             next  == NextSlot(ts, cur)
  <2>1. ts \in Seq(Task) /\ Len(ts) \in Nat /\ cur \in 1 .. Len(ts) /\ DOMAIN ts = 1 .. Len(ts)
    BY <1>2 DEF Table
  <2>2. /\ saved \in Seq(Task) /\ Len(saved) = Len(ts) /\ DOMAIN saved = 1 .. Len(ts)
        /\ \A i \in 1 .. Len(ts) :
             saved[i].id = ts[i].id /\ saved[i].esp \in {KernelStack, ts[i].esp}
    BY <2>1, SavedTable
  <2>3. next \in 1 .. Len(ts)
    BY <1>2, <2>1, NextSlotInTable
  <2>4. tasks' = saved /\ current' = next /\ running' = saved[next]
    <3>1. ~(Len(ts) <= 1)
      BY <1>2, <2>1
    <3> QED  BY <3>1, Zenon DEF Schedule, Alone, context_switch_user
  <2>5. saved[next] \in Task /\ saved[next].id \in 1 .. MaxRuns
    <3> HIDE DEF saved, next
    <3>1. saved[next] \in Task
      BY <2>1, <2>2, <2>3
    <3> QED  BY <3>1 DEF Task
  <2>6. StacksOf(saved)
    <3> HIDE DEF saved
    <3> QED  BY <2>1, <2>2 DEF StacksOf, Table, KernelStack
  <2>7. Ids(saved) = Ids(ts)
    <3> HIDE DEF saved
    <3> QED  BY <2>1, <2>2 DEF Ids
  <2> HIDE DEF saved, next
  <2>8. Table(tasks', current')
    BY <2>1, <2>2, <2>3, <2>4, <2>6 DEF Table, LimitsAssumption
  <2>9. running'.esp \in {KernelStack, running'.id}
    BY <2>2, <2>3, <2>4, <2>6 DEF StacksOf
  <2> QED  BY <2>2, <2>3, <2>4, <2>5, <2>7, <2>8, <2>9
<1>3. Len(ts) \in Nat
  BY DEF Table
<1> QED  BY <1>1, <1>2, <1>3

\* Taking a slot out leaves a sound table, once current_task is wrapped.
LEMMA ShiftSound ==
  ASSUME NEW ts \in Seq(Task), NEW cur \in 1 .. MaxTasks,
         Table(ts, cur), NEW t \in DOMAIN ts
  PROVE  Table(Shifted(ts, t), Wrap(cur, Len(Shifted(ts, t))))
<1> DEFINE s == Shifted(ts, t)
<1>1. Len(ts) \in Nat \ {0} /\ DOMAIN ts = 1 .. Len(ts) /\ Len(ts) <= MaxTasks
  BY DEF Table
<1>2. \A i \in 1 .. (Len(ts) - 1) :
        \E j \in 1 .. Len(ts) : s[i] = ts[j]
  BY <1>1 DEF Shifted
<1>3. s \in Seq(Task) /\ Len(s) = Len(ts) - 1 /\ DOMAIN s = 1 .. (Len(ts) - 1)
  <2>1. s = [i \in 1 .. (Len(ts) - 1) |-> IF i < t THEN ts[i] ELSE ts[i + 1]]
    BY DEF Shifted
  <2>2. \A i \in 1 .. (Len(ts) - 1) : s[i] \in Task
    BY <1>1, <1>2
  <2> HIDE DEF s
  <2> QED  BY <1>1, <2>1, <2>2
<1>4. StacksOf(s)
  <2> HIDE DEF s
  <2> QED  BY <1>1, <1>2, <1>3 DEF StacksOf, Table
<1>5. Wrap(cur, Len(s)) \in 1 .. MaxTasks
  <2> HIDE DEF s
  <2> QED  BY <1>1, <1>3, LimitsAssumption DEF Wrap, LimitsAssumption
<1>6. Wrap(cur, Len(s)) \in DOMAIN s \/ (s = <<>> /\ Wrap(cur, Len(s)) = 1)
  <2> HIDE DEF s
  <2>1. CASE Len(ts) = 1
    BY <1>1, <1>3, <2>1 DEF Wrap
  <2>2. CASE Len(ts) > 1
    BY <1>1, <1>3, <2>2 DEF Wrap
  <2> QED  BY <1>1, <2>1, <2>2
<1> HIDE DEF s
<1>7. Table(s, Wrap(cur, Len(s)))
  <2>1. Len(s) <= MaxTasks
    BY <1>1, <1>3, LimitsAssumption DEF LimitsAssumption
  <2> QED  BY <1>3, <1>4, <1>5, <1>6, <2>1 DEF Table
<1> QED  BY <1>7 DEF s

\* Starting a program adds a sound slot at the end of the table.
LEMMA RunSound ==
  ASSUME LimitsAssumption, Inv, Run
  PROVE  /\ Table(tasks', current)
         /\ runs' \in 0 .. MaxRuns
         /\ Ids(tasks') = Ids(tasks) \/ Ids(tasks') = Append(Ids(tasks), runs')
<1> DEFINE new == [id |-> runs', esp |-> runs']
<1>1. tasks \in Seq(Task) /\ Len(tasks) \in Nat /\ DOMAIN tasks = 1 .. Len(tasks)
      /\ runs' = runs + 1 /\ runs' \in 1 .. MaxRuns
  <2>1. tasks \in Seq(Task) /\ runs \in 0 .. MaxRuns
    BY DEF Inv, TypeOK
  <2>2. runs < MaxRuns /\ runs' = runs + 1
    BY DEF Run, task_create_user
  <2> QED  BY <2>1, <2>2, LimitsAssumption DEF LimitsAssumption
<1>2. CASE ~HasRoom
  <2>1. tasks' = tasks
    BY <1>2 DEF Run, task_create_user
  <2>2. Table(tasks', current)
    BY <2>1 DEF Inv, TypeOK, CurrentIsATask, NoForeignStack, Table, StacksOf
  <2>3. runs' \in 0 .. MaxRuns
    BY <1>1, LimitsAssumption DEF LimitsAssumption
  <2> QED  BY <2>1, <2>2, <2>3
<1>3. CASE HasRoom
  <2>1. new \in Task /\ new.id = runs' /\ new.esp = runs'
    <3>1. runs' \in 0 .. MaxRuns
      BY <1>1, LimitsAssumption DEF LimitsAssumption
    <3> QED  BY <1>1, <3>1, TaskMade
  <2>2. tasks' = Append(tasks, new)
    BY <1>3 DEF Run, task_create_user
  <2>3. /\ tasks' \in Seq(Task) /\ Len(tasks') = Len(tasks) + 1
        /\ DOMAIN tasks' = 1 .. (Len(tasks) + 1)
        /\ \A i \in 1 .. Len(tasks) : tasks'[i] = tasks[i]
        /\ tasks'[Len(tasks) + 1] = new
    <3> HIDE DEF new
    <3> QED  BY <1>1, <2>1, <2>2
  <2>4. StacksOf(tasks')
    <3> HIDE DEF new
    <3> QED  BY <1>1, <2>1, <2>3 DEF StacksOf, Inv, NoForeignStack
  <2>5. Table(tasks', current)
    BY <1>1, <1>3, <2>3, <2>4
       DEF Table, HasRoom, Inv, TypeOK, CurrentIsATask, LimitsAssumption
  <2>6. Ids(tasks') = Append(Ids(tasks), runs')
    <3>1. Ids(tasks') = [i \in 1 .. (Len(tasks) + 1) |-> tasks'[i].id]
      BY <2>3 DEF Ids
    <3>2. Ids(tasks) = [i \in 1 .. Len(tasks) |-> tasks[i].id]
      BY <1>1 DEF Ids
    <3>3. Ids(tasks) \in Seq(1 .. MaxRuns) /\ Len(Ids(tasks)) = Len(tasks)
      <4>1. \A i \in 1 .. Len(tasks) : tasks[i].id \in 1 .. MaxRuns
        BY <1>1, TaskFields
      <4> QED  BY <1>1, <3>2, <4>1
    <3> HIDE DEF new
    <3> QED  BY <1>1, <2>1, <2>3, <3>1, <3>2, <3>3
  <2>7. runs' \in 0 .. MaxRuns
    BY <1>1, LimitsAssumption DEF LimitsAssumption
  <2> QED  BY <2>5, <2>6, <2>7
<1> QED  BY <1>2, <1>3

-----------------------------------------------------------------------------
\* The invariant holds at boot.
LEMMA InitInv ==
  ASSUME LimitsAssumption, Init
  PROVE  Inv
<1>1. running \in Task \cup {Main} /\ running.esp = KernelStack
  BY DEF Init, Main
<1>2. CurrentIsATask /\ NoForeignStack
  BY <1>1 DEF Init, CurrentIsATask, NoForeignStack
<1>3. interrupts \in BOOLEAN /\ waiting \in BOOLEAN
  BY DEF Init
<1>4. /\ tasks \in Seq(Task) /\ Len(tasks) <= MaxTasks /\ current \in 1 .. MaxTasks
      /\ handler = "none" /\ left \in Nat /\ line \in Commands \cup {NoLine}
      /\ runs \in 0 .. MaxRuns /\ typed \in 0 .. MaxKills
  BY DEF LimitsAssumption, Init
<1> QED  BY <1>1, <1>2, <1>3, <1>4 DEF Inv, TypeOK

\* What a step does to the table and to the processor, whichever step it is.
Sound ==
  /\ Table(tasks', current')
  /\ running' \in Task \cup {Main}
  /\ running'.esp \in {KernelStack, running'.id}
  /\ \/ Ids(tasks') = Ids(tasks)
     \/ Ids(tasks') = Append(Ids(tasks), runs')
     \/ /\ line.op = "kill" /\ line.arg \in DOMAIN tasks
        /\ Ids(tasks') = Ids(Shifted(tasks, line.arg))
  /\ running' # running =>
       current' \in DOMAIN tasks' /\ running'.id = tasks'[current'].id

LEMMA InvTable ==
  ASSUME Inv
  PROVE  /\ Table(tasks, current)
         /\ running \in Task \cup {Main}
         /\ running.esp \in {KernelStack, running.id}
  BY DEF Inv, TypeOK, CurrentIsATask, NoForeignStack, Table, StacksOf

LEMMA StepSound ==
  ASSUME LimitsAssumption, Inv, [Next]_vars
  PROVE  Sound
<1> USE InvTable
<1>1. CASE Timer
  <2>1. Schedule(tasks, current)
    BY <1>1 DEF Timer, pit_handler
  <2> QED  BY <2>1, ScheduleSound DEF Sound
<1>2. CASE Run
  <2>1. UNCHANGED <<current, running>>
    BY <1>2 DEF Run, task_create_user
  <2> QED  BY <1>2, <2>1, RunSound DEF Sound
<1>3. CASE Kill
  <2> DEFINE t == line.arg
             ts == Shifted(tasks, t)
             cur == Wrap(current, Len(ts))
  <2>1. CASE t \notin DOMAIN tasks
    BY <1>3, <2>1 DEF Kill, Sound
  <2>2. CASE t \in DOMAIN tasks
    <3>4. line.op = "kill"
      BY <1>3 DEF Kill, Enter
    <3>1. Table(ts, cur)
      BY <2>2, ShiftSound DEF Table
    <3>2. CASE t = current
      <4>1. Schedule(ts, cur)
        BY <1>3, <2>2, <3>2 DEF Kill
      <4> HIDE DEF cur
      <4>2. /\ Table(tasks', current') /\ running' \in Task \cup {Main}
            /\ running'.esp \in {KernelStack, running'.id}
            /\ Ids(tasks') = Ids(ts)
            /\ running' # running =>
                 current' \in DOMAIN tasks' /\ running'.id = tasks'[current'].id
        BY <3>1, <4>1, ScheduleSound
      <4> QED  BY <2>2, <3>4, <4>2 DEF Sound
    <3>3. CASE t # current
      <4>1. tasks' = ts /\ current' = cur /\ UNCHANGED <<running>>
        BY <1>3, <2>2, <3>3 DEF Kill
      <4> HIDE DEF cur
      <4> QED  BY <2>2, <3>1, <3>4, <4>1 DEF Sound
    <3> QED  BY <3>2, <3>3
  <2> QED  BY <2>1, <2>2
<1>4. CASE UNCHANGED <<tasks, current, running>>
  BY <1>4 DEF Sound
<1>5. \/ Timer \/ Run \/ Kill \/ UNCHANGED <<tasks, current, running>>
  BY DEF Next, Keyboard, Processor, User, Type, RubOut, Sleep, SleepLoop, Gui, GuiLoop,
         Halt, Occupy, Exit, Fault, vars
<1> QED  BY <1>1, <1>2, <1>3, <1>4, <1>5

\* The variables the table does not depend on keep their types.
LEMMA StepTyped ==
  ASSUME LimitsAssumption, Inv, [Next]_vars
  PROVE  /\ interrupts' \in BOOLEAN /\ waiting' \in BOOLEAN
         /\ handler' \in {"none", "sleep", "gui", "halt", "exit", "fault"}
         /\ left' \in Nat
         /\ line' \in Commands \cup {NoLine}
         /\ runs' \in 0 .. MaxRuns /\ typed' \in 0 .. MaxKills
<1> USE DEF Inv, TypeOK, LimitsAssumption, machine
<1>1. CASE Timer
  <2>1. left' \in Nat
    BY <1>1 DEF Timer, pit_handler
  <2>2. waiting' \in BOOLEAN /\ interrupts' \in BOOLEAN
    BY <1>1, Zenon DEF Timer, pit_handler
  <2>3. UNCHANGED <<handler, line, runs, typed>>
    BY <1>1 DEF Timer, pit_handler
  <2> QED  BY <2>1, <2>2, <2>3
<1>2. ASSUME NEW c \in Commands, Type(c)
      PROVE  line' = c /\ typed' \in 0 .. MaxKills
  BY <1>2 DEF Type
<1>3. CASE \E c \in Commands : Type(c)
  BY <1>2, <1>3 DEF Type
<1>4. CASE RubOut
  BY <1>4 DEF RubOut
<1>5. CASE Run
  BY <1>5 DEF Run, task_create_user
<1>6. CASE Kill
  BY <1>6 DEF Kill
<1>7. CASE Sleep
  <2>1. line \in Commands /\ line.op = "sleep"
    BY <1>7 DEF Sleep, Enter, NoLine
  <2>2. line.arg \in Nat
    BY <2>1 DEF Commands
  <2> QED  BY <1>7, <2>2 DEF Sleep, Occupy
<1>8. CASE SleepLoop
  BY <1>8 DEF SleepLoop
<1>9. CASE Gui \/ GuiLoop \/ Halt \/ Exit \/ Fault
  BY <1>9 DEF Gui, GuiLoop, Halt, Exit, Fault, Occupy
<1>10. CASE UNCHANGED vars
  BY <1>10 DEF vars
<1> QED  BY <1>1, <1>3, <1>4, <1>5, <1>6, <1>7, <1>8, <1>9, <1>10
         DEF Next, Keyboard, Processor, User

LEMMA NextInv ==
  ASSUME LimitsAssumption, Inv, [Next]_vars
  PROVE  Inv'
  BY StepSound, StepTyped
     DEF Sound, Inv, TypeOK, CurrentIsATask, NoForeignStack, Table, StacksOf

LEMMA AlwaysInv == Spec => []Inv
  BY LimitsAssumption, InitInv, NextInv, PTL DEF Spec

-----------------------------------------------------------------------------
\* Every variable stays in its type: no interleaving of the timer and the
\* shell's run and kill grows the table beyond MAX_TASKS or corrupts a slot.
THEOREM TypeCorrect == Spec => []TypeOK
<1>1. Inv => TypeOK
  BY DEF Inv
<1> QED  BY <1>1, AlwaysInv, PTL

\* schedule() always finds a task in the slot current_task names.
THEOREM CurrentStaysValid == Spec => []CurrentIsATask
<1>1. Inv => CurrentIsATask
  BY DEF Inv
<1> QED  BY <1>1, AlwaysInv, PTL

\* No task ever runs on a stack that run allocated for another.
THEOREM StacksStayApart == Spec => []NoForeignStack
<1>1. Inv => NoForeignStack
  BY DEF Inv
<1> QED  BY <1>1, AlwaysInv, PTL

\* Every switch, by the timer or by kill, enters a task of the table, the one
\* current_task then names.
THEOREM SwitchesEnterCurrent == Spec => SwitchesToCurrent
<1>1. Inv /\ [Next]_vars =>
        [running' # running =>
           current' \in DOMAIN tasks' /\ running'.id = tasks'[current'].id]_vars
  BY LimitsAssumption, StepSound DEF Sound
<1> QED  BY <1>1, AlwaysInv, PTL DEF Spec, SwitchesToCurrent

\* No step reorders the turns of the tasks that stay.
THEOREM TurnsAreKept == Spec => KeepsTurns
<1> DEFINE Kept == /\ Len(tasks) <= Len(tasks')
                   /\ \A i \in DOMAIN tasks : tasks'[i].id = tasks[i].id
           Out  == /\ line.op = "kill" /\ line.arg \in DOMAIN tasks
                   /\ Len(tasks') = Len(tasks) - 1
                   /\ \A i \in DOMAIN tasks :
                        /\ i < line.arg => tasks'[i].id = tasks[i].id
                        /\ i > line.arg => tasks'[i - 1].id = tasks[i].id
<1>1. ASSUME Inv, [Next]_vars
      PROVE  Kept \/ Out
  <2>1. Sound
    BY <1>1, LimitsAssumption, StepSound
  <2>2. /\ tasks \in Seq(Task) /\ tasks' \in Seq(Task)
        /\ DOMAIN tasks = 1 .. Len(tasks) /\ DOMAIN tasks' = 1 .. Len(tasks')
        /\ Len(tasks) \in Nat /\ Len(tasks') \in Nat
    BY <1>1, <2>1 DEF Inv, TypeOK, Sound, Table
  <2>3. ASSUME NEW ts \in Seq(Task), Ids(tasks') = Ids(ts)
        PROVE  Len(tasks') = Len(ts) /\ \A i \in 1 .. Len(ts) : tasks'[i].id = ts[i].id
    <3>1. DOMAIN Ids(tasks') = 1 .. Len(tasks') /\ DOMAIN Ids(ts) = 1 .. Len(ts) /\ Len(ts) \in Nat
      BY <2>2 DEF Ids
    <3>2. Len(tasks') = Len(ts)
      BY <2>2, <2>3, <3>1
    <3>3. \A i \in 1 .. Len(ts) : Ids(tasks')[i] = tasks'[i].id /\ Ids(ts)[i] = ts[i].id
      BY <2>2, <3>2 DEF Ids
    <3> QED  BY <2>3, <3>2, <3>3
  <2>4. CASE Ids(tasks') = Ids(tasks)
    <3>1. Len(tasks') = Len(tasks) /\ \A i \in 1 .. Len(tasks) : tasks'[i].id = tasks[i].id
      BY <2>2, <2>3, <2>4
    <3>2. Kept
      BY <2>2, <3>1
    <3> QED  BY <3>2
  <2>5. CASE Ids(tasks') = Append(Ids(tasks), runs')
    <3>1. Ids(tasks) = [i \in 1 .. Len(tasks) |-> tasks[i].id]
      BY <2>2 DEF Ids
    <3>2. Ids(tasks) \in Seq(1 .. MaxRuns) /\ Len(Ids(tasks)) = Len(tasks)
      <4>1. \A i \in 1 .. Len(tasks) : tasks[i].id \in 1 .. MaxRuns
        BY <2>2, TaskFields
      <4> QED  BY <2>2, <3>1, <4>1
    <3> DEFINE app == Append(Ids(tasks), runs')
    <3>3. /\ DOMAIN app = 1 .. (Len(tasks) + 1)
          /\ \A i \in 1 .. Len(tasks) : app[i] = tasks[i].id
      BY <2>2, <3>1, <3>2
    <3>4. DOMAIN Ids(tasks') = 1 .. Len(tasks')
          /\ \A i \in 1 .. Len(tasks') : Ids(tasks')[i] = tasks'[i].id
      BY <2>2 DEF Ids
    <3>5. Ids(tasks') = app
      BY <2>5
    <3> HIDE DEF app
    <3>6. 1 .. Len(tasks') = 1 .. (Len(tasks) + 1)
      BY <3>3, <3>4, <3>5
    <3>7. Len(tasks') = Len(tasks) + 1
      <4>1. Len(tasks) + 1 \in Nat
        BY <2>2
      <4> QED  BY <2>2, <3>6, <4>1, SameInterval
    <3>8. Kept
      BY <2>2, <3>3, <3>4, <3>5, <3>7
    <3> QED  BY <3>8
  <2>6. CASE /\ line.op = "kill" /\ line.arg \in DOMAIN tasks
             /\ Ids(tasks') = Ids(Shifted(tasks, line.arg))
    <3> DEFINE ts == Shifted(tasks, line.arg)
    <3>1. ts = [i \in 1 .. (Len(tasks) - 1) |->
                  IF i < line.arg THEN tasks[i] ELSE tasks[i + 1]]
      BY DEF Shifted
    <3> HIDE DEF ts
    <3>2. \A i \in 1 .. (Len(tasks) - 1) : ts[i] \in Task
      BY <2>2, <2>6, <3>1
    <3>3. ts \in Seq(Task) /\ Len(ts) = Len(tasks) - 1
      BY <2>2, <2>6, <3>1, <3>2
    <3>4. Len(tasks') = Len(ts) /\ \A i \in 1 .. Len(ts) : tasks'[i].id = ts[i].id
      BY <2>3, <2>6, <3>3 DEF ts
    <3> QED  BY <2>2, <2>6, <3>1, <3>3, <3>4
  <2> QED  BY <2>1, <2>4, <2>5, <2>6 DEF Sound
<1>2. Inv /\ [Next]_vars => [Kept \/ Out]_vars
  BY <1>1
<1> QED  BY <1>2, AlwaysInv, PTL DEF Spec, KeepsTurns

-----------------------------------------------------------------------------
\* How many ticks it takes until the task of slot i is entered, if nothing
\* else happens.
TicksUntil(i) == IF i > current THEN i - current ELSE i + Len(tasks) - current

\* The tick before the task's turn enters it, and every other brings the turn
\* nearer.
TickServes ==
  Len(tasks) >= 2 =>
    \A i \in DOMAIN tasks :
      IF TicksUntil(i) = 1 THEN current' = i /\ running'.id = tasks[i].id
      ELSE TicksUntil(i)' = TicksUntil(i) - 1

\* A new task costs the others its own turn and no more; a task taken out of a
\* slot behind the current one costs them nothing.
StartDelaysByOne ==
  \A i \in DOMAIN tasks : TicksUntil(i)' <= TicksUntil(i) + 1
LaterKillServes ==
  line.arg > current =>
    \A i \in DOMAIN tasks' :
      TicksUntil(i)' <= TicksUntil(IF i < line.arg THEN i ELSE i + 1)

LEMMA TableSizes ==
  ASSUME Inv
  PROVE  /\ tasks \in Seq(Task) /\ Len(tasks) \in Nat /\ DOMAIN tasks = 1 .. Len(tasks)
         /\ current \in Nat \ {0}
         /\ Len(tasks) # 0 => current <= Len(tasks)
<1>1. tasks \in Seq(Task) /\ Len(tasks) \in Nat /\ DOMAIN tasks = 1 .. Len(tasks)
      /\ current \in Nat \ {0}
  BY LimitsAssumption DEF Inv, TypeOK, LimitsAssumption
<1>2. Len(tasks) # 0 => current <= Len(tasks)
  BY <1>1 DEF Inv, CurrentIsATask
<1> QED  BY <1>1, <1>2

LEMMA TimerServes ==
  ASSUME Inv, Timer
  PROVE  TickServes
<1> SUFFICES ASSUME Len(tasks) >= 2, NEW i \in DOMAIN tasks
             PROVE  IF TicksUntil(i) = 1
                    THEN current' = i /\ running'.id = tasks[i].id
                    ELSE TicksUntil(i)' = TicksUntil(i) - 1
  BY DEF TickServes
<1> DEFINE saved == [tasks EXCEPT ![current].esp = KernelStack]
           next  == NextSlot(tasks, current)
<1>1. /\ tasks \in Seq(Task) /\ Len(tasks) \in Nat /\ i \in 1 .. Len(tasks)
      /\ current \in 1 .. Len(tasks)
  BY TableSizes
<1>2. tasks' = saved /\ current' = next /\ running' = saved[next]
  <2>1. Schedule(tasks, current)
    BY DEF Timer, pit_handler
  <2>2. ~Alone(tasks)
    BY <1>1 DEF Alone
  <2> QED  BY <2>1, <2>2, Zenon DEF Schedule, context_switch_user
<1>3. /\ Len(saved) = Len(tasks)
      /\ \A k \in 1 .. Len(tasks) : saved[k].id = tasks[k].id
  BY <1>1, SavedTable, LimitsAssumption
<1>4. next = IF current = Len(tasks) THEN 1 ELSE current + 1
  <2>1. CASE current = Len(tasks)
    BY <1>1, <2>1 DEF NextSlot
  <2>2. CASE current < Len(tasks)
    <3>1. current % Len(tasks) = current
      BY <1>1, <2>2
    <3> QED  BY <1>1, <2>2, <3>1 DEF NextSlot
  <2> QED  BY <1>1, <2>1, <2>2
<1> HIDE DEF saved, next
<1>5. Len(tasks') = Len(tasks) /\ current' = IF current = Len(tasks) THEN 1 ELSE current + 1
  BY <1>2, <1>3, <1>4
<1>6. CASE TicksUntil(i) = 1
  <2>1. current' = i
    BY <1>1, <1>5, <1>6 DEF TicksUntil
  <2>2. running'.id = tasks[i].id
    BY <1>1, <1>2, <1>3, <2>1
  <2> QED  BY <1>6, <2>1, <2>2
<1>7. CASE TicksUntil(i) # 1
  <2>1. TicksUntil(i)' = TicksUntil(i) - 1
    BY <1>1, <1>5, <1>7 DEF TicksUntil
  <2> QED  BY <1>7, <2>1
<1> QED  BY <1>6, <1>7

LEMMA RunDelays ==
  ASSUME Inv, Run
  PROVE  StartDelaysByOne
<1>1. /\ tasks \in Seq(Task) /\ Len(tasks) \in Nat /\ DOMAIN tasks = 1 .. Len(tasks)
      /\ current \in Nat
  BY TableSizes
<1>2. current' = current
  BY DEF Run
<1>3. Len(tasks') \in {Len(tasks), Len(tasks) + 1}
  <2> DEFINE new == [id |-> runs', esp |-> runs']
  <2>1. tasks' = tasks \/ tasks' = Append(tasks, new)
    BY DEF Run, task_create_user
  <2> HIDE DEF new
  <2>2. Len(Append(tasks, new)) = Len(tasks) + 1
    BY <1>1
  <2> QED  BY <2>1, <2>2
<1> QED  BY <1>1, <1>2, <1>3 DEF StartDelaysByOne, TicksUntil

LEMMA KillServes ==
  ASSUME Inv, Kill
  PROVE  LaterKillServes
<1> SUFFICES ASSUME line.arg > current, NEW i \in DOMAIN tasks'
             PROVE  TicksUntil(i)' <= TicksUntil(IF i < line.arg THEN i ELSE i + 1)
  BY DEF LaterKillServes
<1>1. /\ tasks \in Seq(Task) /\ Len(tasks) \in Nat /\ DOMAIN tasks = 1 .. Len(tasks)
      /\ current \in Nat \ {0}
      /\ Len(tasks) # 0 => current <= Len(tasks)
  BY TableSizes
<1>2. CASE line.arg \notin DOMAIN tasks
  <2>1. tasks' = tasks /\ current' = current
    BY <1>2 DEF Kill
  <2>2. line.arg \in Nat
    <3>1. line \in Commands
      BY DEF Kill, Enter, Inv, TypeOK, NoLine
    <3>2. line.arg \in {0} \/ line.arg \in 1 .. MaxTasks \/ line.arg \in Seconds
      BY <3>1, Zenon DEF Commands
    <3>3. {0} \subseteq Nat /\ 1 .. MaxTasks \subseteq Nat
      BY LimitsAssumption DEF LimitsAssumption
    <3>4. Seconds \subseteq Nat
      BY LimitsAssumption, Zenon DEF LimitsAssumption
    <3> QED  BY <3>2, <3>3, <3>4, Zenon
  <2>3. i < line.arg
    BY <1>1, <1>2, <2>1, <2>2
  <2> QED  BY <1>1, <2>1, <2>3 DEF TicksUntil
<1>3. CASE line.arg \in DOMAIN tasks
  <2> DEFINE ts == Shifted(tasks, line.arg)
  <2>1. ts = [k \in 1 .. (Len(tasks) - 1) |->
                IF k < line.arg THEN tasks[k] ELSE tasks[k + 1]]
    BY DEF Shifted
  <2> HIDE DEF ts
  <2>2. \A k \in 1 .. (Len(tasks) - 1) : ts[k] \in Task
    BY <1>1, <1>3, <2>1
  <2>3. Len(ts) = Len(tasks) - 1 /\ DOMAIN ts = 1 .. (Len(tasks) - 1)
    BY <1>1, <1>3, <2>1, <2>2
  <2>4. line.arg # current
    BY <1>1, <1>3
  <2>5. tasks' = ts /\ current' = Wrap(current, Len(ts))
    BY <1>3, <2>4 DEF Kill, ts
  <2>6. current' = current
    BY <1>1, <1>3, <2>3, <2>5 DEF Wrap
  <2> QED  BY <1>1, <1>3, <2>3, <2>5, <2>6 DEF TicksUntil
<1> QED  BY <1>2, <1>3

\* Round robin, step by step: from two tasks on every tick enters the next task
\* and brings the turn of every other one nearer; a new task delays nobody by
\* more than one turn, the kill of a task behind the current one nobody at all,
\* and but for the other kills nothing else does.  They do: after the kill of a
\* task before the current one, current_task names the task whose turn is next
\* (task.c:88-97), which has not been entered and is passed over.
THEOREM TurnsComeNearer ==
  Spec => [][/\ Timer => TickServes
             /\ Run => StartDelaysByOne
             /\ Kill => LaterKillServes
             /\ ~(Timer \/ Run \/ Kill) =>
                  \A i \in DOMAIN tasks : TicksUntil(i)' = TicksUntil(i)]_vars
<1>1. ASSUME Inv, [Next]_vars
      PROVE  [/\ Timer => TickServes
              /\ Run => StartDelaysByOne
              /\ Kill => LaterKillServes
              /\ ~(Timer \/ Run \/ Kill) =>
                   \A i \in DOMAIN tasks : TicksUntil(i)' = TicksUntil(i)]_vars
  <2> SUFFICES ASSUME Next, ~(Timer \/ Run \/ Kill), NEW i \in DOMAIN tasks
               PROVE  TicksUntil(i)' = TicksUntil(i)
    BY <1>1, TimerServes, RunDelays, KillServes
  <2>1. UNCHANGED <<tasks, current>>
    BY DEF Next, Keyboard, Processor, User, Type, RubOut, Sleep, SleepLoop, Gui,
           GuiLoop, Halt, Exit, Fault, Occupy
  <2> QED  BY <2>1 DEF TicksUntil
<1> QED  BY <1>1, AlwaysInv, PTL DEF Spec
=============================================================================
