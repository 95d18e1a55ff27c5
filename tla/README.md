# A verification project for My-OS

My-OS (`src/`) is a small 32-bit operating system in C: a FAT-12 file system
over a polled ATA driver, a table of user tasks with a round-robin scheduler,
a shell, and a windowed GUI. This directory holds TLA+ models of its parts,
the TLC runs that check them on small instances, and proofs, checked by TLAPS,
of what holds for every instance. `PROJECT.json` relates each definition to
the lines it stands for, each hazard of the code to the properties that watch
it, and each property to a change of the code that would break it.

Paths such as `fs.c` are in `src/src/`.

## 1. The system

| part | its state | its operations | properties that make it correct |
|---|---|---|---|
| FAT-12 file system (`fs.c`) | on disk: two copies of the FAT, the root directory, the data sectors; in a call: the cluster, the first and the previous cluster | `fs_read`, `fs_write`, `fs_append`, `fs_delete`, `fs_rename`, `fs_ls`, `fs_free_space` | chains are apart, end, and have the length the sizes ask for; nothing leaks; the copies agree; one entry for a name; a name's bytes are what was written |
| entry packing (`fat_get`, `fat_set`) | the bytes of both copies | read and store a 12-bit entry | storing one entry leaves the others |
| ATA driver (`ata.c`) | the drive's registers | read or write one sector, polling | an answer is the drive's answer; every wait ends |
| tasks (`task.c`) | `tasks`, `task_count`, `current_task` | `task_create_user`, `schedule`, `task_kill` | `current_task` is a task; everyone gets a turn; each task has its own stack and goes on where it was |
| interrupts (`idt.c`, `irq.*`, `isr.*`, `pit.c`, `syscall*`) | the interrupt flag, the tick counter | timer, keyboard, mouse, traps | a handler does not wait for an interrupt it holds off |
| shell (`shell.c`) | the line, its length, the ring of ten lines with its count | one key; some twenty commands | a command runs once, and does what its help says; `!n` runs the line `history` shows at n, and ends |
| frame allocator (`pmm.c`) | a bitmap and where the next search starts | allocate, free | no frame twice; none refused while one is free |
| kernel heap (`kheap.c`, `memory.c`) | where the next block starts | `kmalloc`, `get_free_mem` | blocks apart, aligned, in memory |
| loader (`elf.c`) | memory | `load_elf` | only programs are entered; they do not overwrite each other |
| keyboard (`keyboard.c`) | shift, a ring of 256 characters | a scan code in; a character out | what goes in comes out, in order, once |
| mouse (`mouse.c`) | a packet in progress, position, buttons now and before; in the controller: its command byte, the bytes that wait | the dialogue at boot; a byte in, from the interrupt or the poll | the dialogue ends and leaves no answer behind; packets are whole; each moves the pointer once |
| windows (`window_manager.c`) | sixteen slots in z-order, the focus, the window being dragged | create, destroy, raise, drag, click | only windows of the table are focused or dragged |
| editor, file manager, desktop | text and cursor; a list of files; icons | keys, clicks, open, save, refresh | the cursor is in the text; saving writes what is shown; no icon or window is used after it is gone |

How they interact:

* There is one processor and the kernel is not preemptible: every interrupt
  comes through a gate that clears the interrupt flag (`idt.c:86-113`), and the
  system call's trampoline clears it too (`syscall_stub.s`). The keyboard's
  handler calls `shell_feed`, which runs the whole command, so the shell, the
  file system and the GUI all run inside an interrupt handler.
* The timer's handler calls `schedule`, which enters the next task with an
  `iret` and does not come back.
* The shell calls the file system, which calls the driver for each sector. The
  heap serves the shell, the editor, the file manager and the window manager.
* What survives a restart is the disk.

What is hard about it, and hard to test: power loss between two sector writes;
a write that fails half way; the timer between a run and a kill; slots of the
task table that move under an index; commands that never return to the code
that resets the line; waits inside a handler; 12-bit entries across byte and
sector boundaries; 32-bit wrap-around; one port for the bytes of two devices, with two
readers and no framing; a recall that changes the list it recalls from. The list, line by line, is
`PROJECT.json` "hazards".

## 2. The modules

| module | models | with |
|---|---|---|
| `Fat12` | `fs.c`, and the shell's `cp` | `MCFat12` (values for TLC) |
| `FileStore` | what `fs.h` promises: a store of named texts | refined by `Fat12` |
| `FatNames` | `make_fat_name`, and how `fs_ls` shows a name | under `Fat12` |
| `Fat12Proofs` | theorems about `Fat12` | |
| `Fat12Codec` | `fat_get` and `fat_set`, byte by byte | |
| `Kernel` | `task.c`, the interrupts, the shell commands that reach them | |
| `KernelProofs` | theorems about `Kernel` | |
| `Shell` | `shell.c`: the line, the ring of lines, `execute` calling itself | `MCShell` |
| `CommandLog` | what `history` and `!n` promise: a list of numbered lines | refined by `Shell` |
| `ShellProofs` | theorems about `Shell` | |
| `FrameAllocator` | `pmm.c` | `MCMemory` |
| `FramePool` | what `pmm.h` promises: a pool of frames | refined by `FrameAllocator` |
| `KernelHeap` | `kheap.c` | `MCMemory` |
| `MemoryProofs` | theorems about `FrameAllocator` and `KernelHeap` | |
| `AtaDrive` | `ata.c`, with the drive it talks to | `MCAta` |
| `SectorDisk` | what `ata.h` promises: whole sectors | refined by `AtaDrive` |
| `DiskProofs` | theorems about `AtaDrive` and `Fat12Codec` | |
| `Mouse` | `mouse.c`: the dialogue at boot, the packets and their two readers, with the controller and the mouse | `MCMouse` |
| `PointingDevice` | what a mouse driver promises: each report moves the pointer once | refined by `Mouse` |
| `MouseProofs` | theorems about `Mouse` | |
| `WindowManager` | `window_manager.c`: the table, the focus, dragging, clicks | |
| `WindowStack` | what a window manager promises: a stack with the focus on top | refined by `Gui` |
| `Gui` | the frames of `gui.c` with the mouse, the windows, `desktop.c` and `file_manager.c` | `MCGui` |
| `WindowProofs` | theorems about the table and the file manager under `Gui` | |
| `KeyRing` | `keyboard.c` while the GUI has the keyboard | |
| `TextEditor` | `text_editor.c` | |
| `Typing` | keys through the loop of `gui.c` into the editor: `KeyRing` and `TextEditor` composed | `MCTyping` |
| `TypedText` | what typing promises: a bounded queue before a text with a cursor | refined by `Typing` |
| `Characters` | the characters the last four speak of | |
| `TypingProofs` | theorems about `Typing` | |

An operator whose name ends in `Bug`, and is marked "fault", is a variant of
the definition below it as a mistake in the code would have made it. No
specification uses one; they show that each property can fail.

### Fat12

The disk is `fat`, `fat2`, `dir` and `sectors`; a call in progress is `pc` (its
next step), `job` (its arguments) and the locals under the names they have in
the code. `Delete`, `Write`, `Append_`, `Copy` and `Rename` are the calls up to
their first sector write. Then each action is one sector write with what the
code computes until the next: `FreeOne` is a turn of `free_cluster_chain`,
`EraseEntry` is `delete_entry_at`, `Alloc`, `Link`, `WriteData`, `Seal` and
`CreateEntry` are the body of `fs_write`, and `AllocFull`, `CreateFull` and
`GiveUp` are its ways out. `fat_set` is two writes: the first copy in the action
that calls it, the second in `WriteSecondFat`, before anything else. `Crash` can
fall between any two writes; it leaves the disk and drops the rest. A history
variable `torn` records that one fell where the code is known not to survive
it: `fs_delete` frees the chain before it erases the entry (`fs.c:280-283`), so
the entry is left pointing at free clusters. The properties of chains hold as
long as that has not happened, and the run with `TornDeletes = TRUE` shows that
no other power loss breaks them.

`fs_read` is pure and follows the code, which does not use `fat_get` but takes a
16-bit word from an offset of its own (`fs.c:226-228`): `NextWord`.

The mapping to `FileStore` takes the text of a file to be what its chain holds, a deleted file
to be gone when the first cluster of its chain is.

### FatNames

What is typed becomes two fields, padded with blanks, in capitals; the
extension is what follows a dot that comes right where the stem ended, so a
stem cut at its eighth letter loses it. `fs_ls` leaves the blanks out. `Names` are
the fields that can come of it, and the files of `Fat12` have names of these.
A blank is padding, but for names that `rename` and `cp` were given: they take the
rest of the line for their second name (`shell.c:263-285`). `ListedNamesFind` says
that typing what the list shows finds the file if there is no such blank
(`Spaceless`), and does not find it if there is.

### Fat12Codec

`Fat12` reads and writes entries whole. `Fat12Codec` stores them as the code
does, three bytes to two entries, with one sector in the buffer, and shows that
`Fat12` is exact for every cluster whose entry lies in one sector. Of an entry
across two (341, 682, 1365 ... with 512-byte sectors) the second byte is read
from, and stored to, the stack behind the buffer; what is there is any of
`StackBytes`.

### Kernel

Slot `i` of the task table is `tasks[i-1]`. `running` is the code that has the
processor outside any handler, with the stack it was entered on; stack `k`
belongs to the `k`-th run, 0 is any kernel stack. Handlers are actions, since
the interrupt flag is clear in them, but for the two that wait in `hlt`:
`SleepLoop` and `GuiLoop` are the turns of those loops, `waiting` is a processor
in `hlt`, and only an interrupt ends it. `Timer` is `irq_handler` for IRQ 0;
`Type`, `RubOut`, and the commands are `irq_handler` for IRQ 1 with the shell
inside. `Exit` is `SYS_EXIT`, `Fault` an exception of user code, at any time. A
command that switches to a task never returns to `shell_feed`, so `line` is
kept. Typing is a step for a whole command: the keys of one come one by one,
but a prefix of a command does nothing.

### Shell

`linebuf`, `history` and `hist_count` are the variables of the code; a line is
one that recalls another (`!n`, with n any number), one whose command comes back,
or one whose command enters a task and never does. `Type` is any number of keys.
`execute` is the function up to the point where it calls itself or returns:
it saves the line, counts it, and only then looks which line `!n` names, so
the ring it looks in already has the line itself and has lost its oldest. `depth`
counts the calls in progress; a return ends them all. `cmd` is unsigned, so `!-1` names
a very large number, and what is no number names line 0.

`CommandLog` is the list as a user sees it. It says which line cannot be
recalled: the first of a full list, which is overwritten before it is looked up.

### FrameAllocator, KernelHeap

Both are the functions of the source, one action each, with callers that give
back what they were given (`pmm.c`; nothing calls it yet) or ask for any size
(`kheap.c`; `malloc N` passes whatever `atoi` makes of N, negative numbers
included). The heap is word arithmetic modulo `Word`; `BlocksApart` holds until a
request runs past the last address. The two share nothing; `MCMemory` takes their steps
in any order.

### AtaDrive

`Issue` is the part of both functions up to the command, `WaitReady` and
`WaitData` the two polling loops (a turn that finds nothing is no step),
`ReadWord` and `WriteWord` a turn of the loop over the words, `EndOfWords` its
end, `WaitWritten` the two loops behind a write. `Ready` and `Store` are the
drive. It is not in the repository; the model gives it what the driver relies
on: BSY is set as the command or the last word is written, a sector reaches the
platter whole or not at all, no command is refused. That the driver writes the
address to four registers and the drive puts it together is in the model. With
`ImplementsDisk`, a crash leaves every sector old or new: what `Fat12`, where
sectors are written at once and power is lost between two of them, assumes.

### Mouse

`out` is what waits in the port of the controller, `due` what a device has
still to answer; a byte is tagged with what it is, which no reader can see and
only the history variable `disturbed` asks for. `Send` and `ReadReply` are the
turns of `mouse_init` over its nine commands: it writes one, and reads the
answers it expects, of which it looks at two: the command byte, and whether the
reset was acknowledged. `GiveUp` is `mouse_wait` running out, after which the
code reads the port all the same. `PollCheck`, `PollRead` and `PollPut` are
`mouse_poll`: the status, the byte, the switch over `mouse_cycle`; the handler of
IRQ 12 has the same switch (`Put`). `Put` is one step: in the poll an interrupt
could fall into it, which would take two readers, and so a machine with
`enabled`. The poll ends where the port is empty (`PollEnd`) and, with bytes left,
at a byte that begins no packet; the loop then goes on to its `hlt`, and only an
interrupt brings it back (`Wake`). `enabled` says whether interrupts are on where
the loop polls. In the program as it is they are off, since the GUI runs in the
keyboard's handler: it polls once and stands still. The model has both machines.

The devices are not in the repository. The controller hands on bytes in the
order each device sends them, either device first; a port that is empty repeats
its last byte; bit 4 of the command byte stops the keyboard. The mouse answers
what it is asked, and reports only when it has nothing to answer. A report is any
three bytes of which the first has bit 3.

What the run shows under these assumptions is that the driver is a
`PointingDevice` until the first byte that goes to the wrong reader: no report is
lost, used twice or out of order, and it moves the pointer along each axis to the
nearest point of the screen if the move fits in eight bits. If it does not, the code,
which takes a byte's own sign and not the ninth bit of the report, goes elsewhere
on the screen, and no more is said of it; the run has such a report. That a report is used soon (`Prompt`) is shown where interrupts are on; where they
are off it is not so (`mouse_off`). `Realigns` speaks of what happens after a byte has
gone astray, on the same machine: the packets come right again once bytes keep coming, only a first byte
has bit 3, and no interrupt falls into the poll any more. `InTransit` is what
the mouse has sent and the driver not yet used up: the packet, the byte in the poll's
hands, and of what waits in the port the bytes of the mouse (`Only`).

### WindowManager and Gui

Slot `i` of `windows` is `windows[i-1]`, bottom first, with holes. A window is the
address `kmalloc` gave it; `win` holds what is there. `window_create`,
`window_bring_to_front` and `window_manager_update` are the functions;
`window_handle_mouse` is split by where the click falls: `ClickClose` raises the
window and then destroys it, as the code does, `ClickTitle` starts a drag,
`ClickWindow` is the rest. An address that nothing points at any more is forgotten,
so that the model may give it again; the code never does, for lack of a `kfree`.
The stack that `Gui` is shown to implement is the table without its holes (`InUse`).

A frame of `gui_main_loop` is `Frame` (`window_manager_update`), then
`window_handle_mouse`, then perhaps `on_click` of the file manager, then
`desktop_handle_mouse`; between two frames the mouse sends any number of packets,
the last two of which make a click. The file manager's `files` and `path` are kept as
the code keeps them, its list cut and sorted; a path is the sequence of its
names. Closing windows is by mouse only: `text_editor_open` and
`file_manager_open` clear the pointer to the window they would close, so that
they close none.

### KeyRing, TextEditor, Typing

`Press` and `Release` are `keyboard_handler`; the ring's reader is `ReadChar` and
`AdvanceRead`, between which the handler may come. `text_editor_handle_key` is
one action: the loop calls it with the character it took. `text`
keeps the bytes behind the text, as the array does. What is drawn (the column,
the change mark) is left out; so are saving and leaving the GUI, bound to
characters 19 and 27, which no key makes (`keyboard.c:15-45`).

`VisibleLines` is what the code counts as the lines of the window, by its height.
`CursorInWindow` says that the cursor is on one of these, not that they are on the
screen: of the editor's window only the upper part is (see below).

In the program as it is the loop stops at its first `hlt`, since the GUI runs in the
keyboard's handler (`Kernel`, `GuiLoop`). `Gui` and `Typing` say what they do
where the `hlt` returns; `Mouse` has the machine on which it does not as well. `Gui` then takes packets from `mouse_poll` only;
`KeyRing` lets the handler come at any time, which is more than is needed.

## 3. The runs

| run | shows | bounds |
|---|---|---|
| `fat_crash` | chains, directory and both copies of the FAT stay consistent, a file is found under the name it is listed as unless that has a blank, and every call returns | 4 clusters, 2 slots, 3 names, fields of 2 and 1 letters, texts of 0, 1 and 3 bytes, 1 power loss |
| `fat_store` | the file system implements the store, with the bytes, and every call is answered; no step changes another file | 4 clusters, 2 slots, 2 names, two texts, 1 power loss, not inside the freeing of a chain |
| `fat_codec` | storing an entry keeps its neighbours, in both copies; whole entries are read back | 3 sectors of 4 bytes: entries of both parities inside sectors and across them |
| `kernel_tasks` | the scheduler stays on a task of the table; turns; stacks; a killed task loses the processor once two are left | 4 slots, 5 runs, 2 kills |
| `memory` | the frame allocator implements the pool; blocks of the heap are apart | 6 frames; 4 blocks, 6-bit addresses |
| `mouse` | the dialogue ends, with and without a mouse; the driver is a pointing device until a byte goes to the wrong reader, and with interrupts on comes right again | 2 reports, one of a far move, 2 key codes, up to 3 bytes that wait, 2 keys or early ends of a wait, a screen of 2 by 2 |
| `shell` | a recall ends, and runs the line its number names | a ring of 3, 6 lines entered, numbers from -1 to 7 |
| `ata` | driver and drive stay in step, sectors are read and written whole, every call is answered | 3 sectors of 2 words of 1 bit, addresses that differ in each register, any number of calls and power losses |
| `gui` | the table is a stack with the focus on top; a click goes to what is on top; windows stay on the screen; drags end | 3 windows, 2 kinds with the sizes of the code, the screen of the code, 5 places of the mouse, 3 files, 3 icons, a path of 1 name |
| `typing` | what is typed reaches the text once and in order; the cursor is in the text and on a line of the window | a ring of 3 places, texts of 3 characters, 2 visible lines, 7 keys, 3 files |

These pass. Two more check one sentence of the documentation each, which the code does
not keep, and end with a behaviour that shows it:

| run | the behaviour | bounds |
|---|---|---|
| `fat_readback` | the second sector of a file is read from elsewhere | 6 clusters, texts of 3 bytes |
| `mouse_off` | with interrupts off, reports wait for ever behind the first `hlt` | as `mouse`, no mishaps |

Why the bounds are enough. Sectors of 2 bytes make texts that need no, one and
two clusters; 4 clusters hold two files of two clusters, so that a third
runs out half way; 2 slots with 3 names make a full directory. One of the names
fills its fields, one is shorter, and one has a blank and is shown as the shorter. Four slots of
the task table have a task before, at and after the one that is killed and one
to spare; five runs fill it again after a kill. The sectors of `fat_codec` are
so short that straddling entries are next to whole ones of both parities. Three
windows are one below, one at and one above the raised or closed one. The places
of the mouse, which are named in `MCGui`, are those where icons, titles, close
buttons and list rows overlap, before and after a drag to an edge. A ring of
three places is full with two characters and wraps at every second one; a text
of three characters has a line above the window when two lines are shown. The
two reports of the mouse have bit 3 in all of their bytes or only in the first,
differ in sign and in the button, cross the whole screen both ways, and one holds a
move that does not fit in eight bits; of
the two codes of the keyboard one (156, the release of Enter) passes for a
first byte and, taken for the command byte, has bit 4. Two mishaps let a wrong byte
begin a packet and another leave it. Six lines entered turn a ring of three over
twice, and deeper by recalls. TLC
explores each to the end; the proofs lift most of it to all sizes.
`MaxLength`, `MaxReadBack`, `MaxCrashes`, `MaxRuns`, `MaxKills`, `MaxBlocks`,
`MaxDepth`, `MaxWaiting`, `MaxMishaps` and `MaxLines` are bounds in guards, not in the code. `MaxReadBack` keeps `append` and `cp`
away from files of more than one sector in `fat_store`, since `fs_read` misreads
those (`fat_readback`); `fat_crash` has them, and its properties hold whatever
was read. Deadlock is checked but for the run of `Kernel`, where the machine may halt, and those
of `Mouse`, where nothing more happens without
a mouse and with the keyboard stopped, or behind a `hlt` with interrupts off.

### Where code and documentation disagree

Two runs check one sentence of the documentation each and find a behaviour of the code
that contradicts it; the quotes are in `PROJECT.json` "findings". `fs_read` misreads
files of more than one sector (`fat_readback`). And the poll of the mouse does not stand
in for interrupts that are off, as `gui.c:46` says: the loop stops at its first `hlt`
(`gui.c:87`), and the reports that come then are never used (`mouse_off`).

Others follow from the models in a step or two.

Disk: an entry across two sectors is not read back, its second byte comes from
behind the buffer (`fs.c:51`); a write succeeds with data behind the end of the
device when the FAT has more entries than the device has data sectors, as on the
shipped image (`fs.c:40`), and `df` counts those clusters (`fs.c:394`); a drive
that refuses a command is waited for for ever (`ata.c:36`), where `ata.h:10` says
-1. Names: a stem of more than eight letters loses its extension (`fs.c:174`), so
`abcdefghi.txt` and `abcdefghi.c` are one file; `rename` and `cp` take the rest
of the line for the second name, and a blank in it makes a name that `ls` shows
without it and that is not found as shown: what is shown may be the name of
another file, which `rm` then deletes.

Kernel: `sleep` (`shell.c:125`; `README.md:51` lists it) stops the
machine, since it waits for ticks inside a handler that holds them off; one
`kill` of the current task (`README.md:64`) leaves its line in the buffer, since
`shell_feed` never gets to empty it (`shell.c:36`), so that the next Enter kills
the task that has its number now; a task that gave way is entered at its entry point again when its turn
comes (`task.c:69`), and the frames of its earlier entries stay on the one kernel
stack of the TSS (`tss.c:17`); the GUI draws at most one
frame, for the reason `sleep` stops (`gui.c:87`); a file that is no program is
started at address -1 (`shell.c:148`); a task killed while it is current goes
on until two tasks are left, and a single task never runs (`task.c:51`); the kill of a
task in a slot before the current one costs the next task its turn: `current_task` then
names it without its having been entered (`task.c:88-97`); the
first switch replaces the stack of a task that has not run (`task.c:56`);
`malloc` of a negative number moves the heap back over blocks in use, the first
block begins wherever `_end` is, and the heap goes on behind the end of memory
(`kheap.c:16-18`); `free` always shows the same number (`memory.c:13`).

Shell: the first line that `history` shows of a full ring cannot be recalled, it
has been overwritten when it is looked up (`shell.c:181`); `!x`, with no number, recalls
line 0; recalls nest up to twice the ring deep (`shell.c:184`); the four bytes for a
line's number are too few from 1000 lines on (`shell.c:172`); and what is typed over
the width of the screen is not rubbed out beyond the last wrap (`util.c:22`).

Mouse: the answers of `mouse_init` are not told from a key's code. The
release of the Enter that started `gui` can be taken for the command byte, and
0x9C, written back, stops the keyboard; it can be taken for the reset's
acknowledgement, after which two answers stay in the port, and 0xFA and 0xAA both have
bit 3 and begin packets. A report between the enabling of reports and the
last command does the same. `mouse_poll` takes keys for bytes of a packet
(`mouse.c:302`), and with interrupts on, "works both ways" (`gui.c:46`) does not hold:
the handler may take the byte between the poll's look at the status and its
read. Once a packet is out of step a mouse whose moves all have bit 3 can keep it
so: there is no other framing. A move of 128 or more is read with the wrong sign
(`mouse.c:60`) and goes the other way.

Editor: it scrolls by the lines of its window, 20 of 250 pixels (`text_editor.c:162`), but
the window is opened at line 50 of a screen of 200 (`text_editor.c:200`), where 12 of
them are seen whole and the thirteenth in part. With the cursor on one of the other seven
it is off the screen and the text is not scrolled, where `text_editor.c:161` says "Update
scroll if cursor moved off screen".

Windows: an editor window, 350 by 250 on a screen of 320 by 200, is put at
x = -30, y = -50 by the first drag, after which its title and close button are
out of reach, where `window_manager.c:186` says "Keep window on screen"; opening
never closes the window of before (`file_manager.c:146` and `text_editor.c:184`
say it does); a click on a window also reaches the icon under it; while no new
packet comes, a press is a click in every frame, and an icon under it opens a
window in each (`desktop.c:206`), up to sixteen; `..` never leaves the first directory
(`file_manager.c:94`), an empty file is one (`file_manager.c:188`), and the names
of entered directories are appended to 128 bytes without a look at their number
(`file_manager.c:104`); below such a directory the path of a file is not one
`fs_read` finds, and in the first directory neither: the path begins with a slash,
which `make_fat_name` takes for a letter (`file_manager.c:110`), so the editor stays
empty; keys go to the last opened editor whatever has the focus, and
when its window is closed too (`gui.c:94`).

### Fairness

`Fat12` assumes weak fairness of `Step`: the processor goes on with a call it
has started, since nothing preempts it and a sector is always answered in the
model. Nobody has to call. `Kernel` assumes weak fairness of `Timer`, which the
PIT raises at 100 Hz and which is taken whenever the interrupt flag is set, and
of `Processor`, the turns of a loop in a handler. It assumes nothing of the
user: no key need be typed, no program need end. `AtaDrive` assumes that the
driver goes on and that the drive, at some time, gets ready: no more than the
loops wait for. `Gui` assumes weak fairness of the loop, in which every step is
followed by the next without a wait but the `hlt` of each turn, and nothing of the
mouse: `DragEnds` says that a drag ends once the button is up in a frame. `Typing`
assumes that the loop goes on taking keys, and nothing of the keyboard. `Mouse` assumes
that the driver goes on, in its dialogue and in a call of `mouse_poll` up to the `hlt`
behind it, and that a
device that has to answer does, at some time, perhaps after the driver has stopped
waiting. A `hlt` ends (`Wake`) only where interrupts are on: there the timer, at the
latest, ends it, as long as there are fewer than two tasks in the table, for with two
the timer's `schedule` would leave the loop (`Kernel`). With interrupts off nothing
ends it, and nothing is assumed to. It assumes nothing of moves and keys, nor that IRQ 12 comes.
`Shell` needs none: the end of a recall follows from `NestingBounded`. The liveness properties of
`Kernel` are conditional on the flag staying set and on two tasks in the table,
as the code is.

## 4. The proofs

All theorems hold for every value of the constants that the named assumptions
of the modules allow; TLC evaluates these in every run.

`Fat12Proofs`. `TypeCorrect`; the chains: `NeverDangling`, `NeverShared`,
`NeverLeaked`; the directory: `NamesStayUnique`, `NothingIsHidden`; the copies:
`CopiesStayClose`; the names: `ListedNamesAreFound`; the calls: `CallsRunOut`. `NoDangling` and the rest are not inductive by themselves:
what a step may do depends on what the locals refer to at each `pc`. The
invariants added are `Control` (which locals are set at which `pc`, and that
`mirror` is only set behind a `fat_set`), `Directory` (no file lies behind a slot
never used; during a write no file has its name; during a delete the victim
has) and `Chains` (references are unique and never to free clusters). `Control`
and `Directory` are proved first and used by the others.

Then what the chains are. `SizesAreChains`: a file's chain has the sectors its size
asks for and ends there. It is a statement about every step of a walk along the links, and
the walk is a recursive function, which is first shown to be defined (`WalkDefined`).
Induction is done without the library's theorems, which take an operator: the numbers
a statement holds of are made a set, and a set that has 0 and the successor of
each member is all of `Nat` (`Induct`, from `Least`, which says that a set of numbers
that is not empty has a least one). The invariant (`Fit`) adds what holds between the
steps of a call: of the chain under construction (so many clusters as sectors are done,
the last with no link yet) and of the one being freed (the clusters that are left are
those behind `cluster`). That changing one entry leaves a walk alone that does not pass
it is what `NeverShared` is for. From the same invariant:
`OthersStayUntouched`; `FreeSpaceStaysExact`, which needs that every cluster in use is
reached from a file or from the call (`Reached`), since then the pairs of a file and a place in
its chain are as many as the clusters in use; and `FilesAreStore`, all steps of
the refinement, with what the call has been asked for (`Jobs`) and what it has written so far
(`Written`). `FilesAreStore` has three assumptions, which the run `fat_store` satisfies:
no cluster in use lies behind the end of the device (`UsedOnDevice`; a write to such a
one succeeds and is lost. The lowest free cluster is taken first, so on the shipped image
none is before the device is full (`OnDeviceFirst`), and on a disk with a sector for every
entry of the FAT none ever is (`AllOnDevice`)), `append` and
`cp` start from files of one sector (`ShortReads`; of others `fs_read` does not read the
right bytes, as `fat_readback` shows), and power is not lost while a chain is freed
(`TornDeletes = FALSE`; the entry would outlive its clusters). `SizesAreChains`,
`OthersStayUntouched` and `FreeSpaceStaysExact` need none of them.

`ListedNamesAreFound` needs of the disk that no file is hidden, names are unique and
each is one of `Names`. The rest is about characters, for fields of every
size. Leaving the blanks out is a recursive function, followed a character at a time
(`UnpadSteps`): of a field whose blanks are all padding it keeps the letters, which
are a prefix (`UnpaddedPrefix`). The stem that `make_fat_name` takes of the result
ends where the first did, at the dot, at the end or at its full size (`StemEndIs`), and
capitals stay as they are. Of a field with a blank inside, the letters after it
come to lie elsewhere. `CallsRunOut` gives a number (`StepsLeft`) that every step of a
call makes smaller: freeing takes a cluster out of those in use or ends, also when a
torn delete has left two files one chain, and each sector written is one less to write.
Together with the fairness of `Step` that is why `Returns` holds.

`KernelProofs`. `TypeCorrect`, `CurrentStaysValid`, `StacksStayApart` and the
action properties `SwitchesEnterCurrent` and `TurnsAreKept`. The conjunction of
the three invariants is inductive as it stands; lemmas say what `Schedule`
and the shift of `task_kill` do to a table. `TurnsComeNearer` is the step of
`EveryTaskRuns`: a tick enters the task whose turn is next and brings every other one
nearer, and it says what delays a turn: a new task by one, and of the kills only
those of the current task and of the slots before it.

`MemoryProofs`. `HintStaysSound`, and `AllocatorIsPool`: the whole refinement.
That the search refuses only when every frame is held is what the hint is for:
the invariant adds that the bits are the frames held. `BlocksStayApart`: in the
order they were given, each block ends before the next begins and before
`heap_end`, while every request has stayed in range.

`ShellProofs`. `ShellTypeCorrect`; `RecallsEnd`: a line that is gone
on from names a number there was then, so every line saved in the first ring of calls
names one below the typed line's number plus the size of the ring; after that only such
lines are recalled, and once the ring has moved on past those numbers the recall is
refused. The invariant (`NestInv`) says this of the lines saved since the user typed and
of the line about to run. `ShellIsLog`: the whole refinement; the lemmas
say what saving a line at `hist_count % MAX_HISTORY` does to the ring read as a list.

`DiskProofs`. `StaysInStep`: for each `pc` of the driver the invariant says where the
drive is, BSY and DRQ and the words left. From it `WaitsEnd`: in a call either the drive
is at work or what the driver polls for has come, and a number (`StepsToGo`) falls with
every step of the two. `DriverIsDisk`: every step is a step of
`SectorDisk` or a stutter. An address put into four registers by division arrives
(`AddressArrives`, from lemmas about quotients and remainders), and the words moved so
far are those of the sector (`DataInv`). The fairness of `SectorDisk` is left to the run.
`EntriesStayKept` and `WholeEntriesRead`, of the codec: where the two bytes of one
entry lie, and which half of a byte two entries share, is arithmetic on offsets; from
it, storing one entry leaves each other whole entry its bits, straddling ones stored
or not, for every size of a sector and of the FAT.

`WindowProofs`. `CountStaysExact` and `FocusStaysOnTop`, for every number of slots
and windows, every screen and every mouse. The two invariants are inductive together with the
type of the table. The lemmas are about tables: adding fills a slot that
was free, which there is while the count is below the number of slots; raising is a
bijection of the slots in use onto the new ones; removing what lies in the last slot
frees that and no other. Closing is raising, then removing. `ClicksGoToTheTop`: the
slot `window_at` finds is that of the topmost window at the point, by the least-number
lemma, and it is the only one a press raises. `DragsStayOnScreen`: a drag moves only the
window that is dragged, and to a place `Clamp` has made; the invariant (`PlaceInv`)
gives the types that needs: every window in the table has a shape, and a
dragged one is a window. `ListFollowsPath`: every action that changes the path reads the
list anew. `WindowsAreStack`: the whole refinement. The table without its holes is built slot by slot
(`UpTo`); filling a hole, taking a window out and putting it into another slot
are each followed through that construction by induction on the slots.

`TypingProofs`. `CursorStaysInText`, `CursorStaysInWindow` and `TypeCorrect`, for every
size of the ring, the text and the window, and every keyboard map. That the line
kept for the cursor is the line it is on is an invariant only with the rest: the
text keeps its length below the array's. `TypingIsText`: all steps of the refinement of
`TypedText`, its fairness apart. What waits is read from the array round its end; the invariant (`QueueInv`)
says that the reader, between its two steps, holds the first of what waits. The loops that
move the text for backspace and insertion are shown to be those of a text cut at the cursor.

`MouseProofs`. `StaysInStep`, and `MouseIsDevice`: all steps of the refinement of
`PointingDevice`, its fairness apart. The invariant (`MouseInv`) says, until a byte has
gone to the wrong reader: the bytes in transit are whole reports, each one the mouse could
have made (`Aligned`), and the answers on the wire and still due are those that
`mouse_init` has still to read of the command it is at (`Answering`). The second makes the
first hold: nothing else can then be read as an answer, the reset's answers included, of which
`mouse_init` reads three or one. A wait that ends early with nothing due is one
without a mouse. The lemmas are about the bytes of a kind in a sequence: what appending,
taking the first and putting a key anywhere between does to them. `Clamp` is shown
to be the nearest point, and a byte's own sign to be the report's where the move fits in
eight bits (`MovesAre`); nothing is assumed of the moves the mouse reports.
`DialogueRunsOut` bounds the dialogue: `DialogueLeft` falls with each step of
`mouse_init` after the port is empty, and nothing raises it.

`CallsRunOut`, `WaitsEnd`, `DialogueRunsOut` and `TurnsComeNearer` are the parts of
`Returns`, of `ImplementsDisk`, of `InitEnds` and of `EveryTaskRuns` that speak of single
steps: what fairness is left to give is that the next step is taken.

Only model-checked: all liveness, which these provers cannot do (`Returns`,
`EveryTaskRuns`, `KilledTaskStops`, `DragEnds`, `Realigns`, `InitEnds`, and the fairness of
`FileStore`, `SectorDisk`, `TypedText` and `PointingDevice`). Every invariant a passing run
checks is proved. `FilesAreStore` says nothing
where one of its assumptions fails; the invariants of `fat_crash`, which has torn deletes and
`append` to longer files, are proved without them.

The types of `FrameAllocator`, `KernelHeap` and `AtaDrive` are conjuncts of the
proved invariants; their runs do not repeat them. The lemmas `Least` and `Induct` are proved in each module that uses them, `Least` by
well-founded induction.

## 5. What is not modelled

* Printing and formatting (`serial.c`, the rest of `util.c`), and `vga_graphics.c`.
* The descriptor and page tables (`gdt.c`, `idt.c`, `tss.c`, `paging.c`): set
  once at boot; `Kernel` starts from what they say.
* The screen in text mode (`util.c`) and what is drawn: no other part decides by it.
  Clusters of more than one sector: the image has one.
* The contents of memory: loading a program over another, the depth of the
  kernel's stack.
* The user program (`user/user.c`): `Kernel` allows any program that exits or faults.
* The cursor of the mouse, which is drawn over saved pixels.
* Which icon, row or title is drawn how.

## 6. Plan

The most important behaviour first. Done:

1. `Fat12` with `FileStore`; invariants proved.
2. `Fat12Codec`.
3. `Kernel`; invariants and action properties proved.
4. `FrameAllocator` with `FramePool`; refinement proved.
5. `KernelHeap`; disjointness proved.
6. `AtaDrive` with `SectorDisk`; the handshake proved.
7. `WindowManager` with `WindowStack`, and `Gui` over it; the table proved.
8. `KeyRing` and `TextEditor` with `TypedText`; the cursor proved.
9. `Mouse` with `PointingDevice`; the dialogue and the steps of the refinement proved.
10. `Shell` with `CommandLog`; the end of recalls and the refinement proved.
11. `FatNames`, under `Fat12`.
12. The steps of `AtaDrive` as steps of `SectorDisk`, what a click raises, and where a
    drag may leave a window, proved.
13. The chains of `Fat12` against the sizes, the free space, the bytes of other files and the
    steps of `FileStore`, proved; the entries of the codec; the table as a `WindowStack`
    and the list of the file manager; `Typing` as `TypedText`.
14. What `FatNames` makes of a name, for fields of any length, and with it
    `ListedNamesFind`; the bounds on the steps of a call of `fs.c`, of `ata.c` and of
    `mouse_init`, and on the wait for a turn, proved.

To do:

15. `Loader`: the segments of two programs in one address space, with `Kernel`.
16. Saving from the editor, and with it `TextEditor` over `Fat12`, if a key for it
    appears.
17. `Screen`: wrapping and scrolling in text mode, under `Shell`; the saved
    pixels under the cursor.
18. More proofs: what is left of `FileStore` once a file reaches behind the end of
    the device.
