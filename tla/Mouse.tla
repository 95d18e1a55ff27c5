-------------------------------- MODULE Mouse --------------------------------
(***************************************************************************)
(* src/src/mouse.c: the dialogue of mouse_init with the controller and the *)
(* mouse, and the two readers that put the bytes of the mouse together     *)
(* into packets, mouse_poll and the handler of IRQ 12.                     *)
(*                                                                         *)
(* Keyboard and mouse share one port, and no reader asks whose byte it     *)
(* reads. mouse_init runs with interrupts off, and so does the loop that   *)
(* polls, since the GUI is started from the keyboard's handler: that loop  *)
(* polls once and stops at its hlt. `enabled` adds the machine on which    *)
(* interrupts are on there, for which mouse.c has its handler. Putting a   *)
(* byte into the packet is one step.                                       *)
(***************************************************************************)
EXTENDS Integers, SequencesExt

CONSTANTS
  VGA_WIDTH, VGA_HEIGHT,
  Packet,      \* what the mouse may report, three bytes each
  KeyCode,     \* what the keyboard may send
  ConfigByte,  \* the controller's command byte before mouse_init
  MaxWaiting,  \* bound: bytes that wait when the mouse has reported
  MaxMishaps   \* bound: keys, and waits that end before the answer

Byte == 0 .. 255
Bit(b, mask) == (b \div mask) % 2 = 1           \* b & mask, for one bit

ASSUME MouseAssumption ==
  /\ VGA_WIDTH \in Nat \ {0} /\ VGA_HEIGHT \in Nat \ {0}
  /\ Packet \subseteq Byte \X Byte \X Byte
  /\ \A p \in Packet : Bit(p[1], 8)
  /\ KeyCode \subseteq Byte /\ ConfigByte \in Byte
  /\ MaxWaiting \in Nat /\ MaxMishaps \in Nat

VARIABLES
  enabled,     \* interrupts in the loop that polls; never changes
  plugged,     \* there is a mouse; never changes
  due,         \* what the devices have still to answer
  out, port,   \* bytes to be read; the last one read, which an empty port repeats
  config,      \* the controller's command byte
  pc, step,    \* where the driver is, and the command of mouse_init it is at
  todo,        \* the replies to that command mouse_init still reads
  data,        \* of mouse_poll: the byte it holds
  packet,      \* the first mouse_cycle bytes of mouse_packet
  x, y, buttons, prev_buttons,
  mishaps,     \* history: what MaxMishaps bounds
  disturbed    \* history: a reader got something that was not for it

machine == <<enabled, plugged>>
wires   == <<due, out, port>>
dialogue == <<config, pc, step, todo>>
pointer == <<packet, x, y, buttons, prev_buttons>>
history == <<mishaps, disturbed>>
vars    == <<machine, wires, dialogue, data, pointer, history>>

-----------------------------------------------------------------------------
(* The devices. A byte carries what it is; only the history asks for it.   *)

Tagged(b, of) == [val |-> b, of |-> of]
Parts == <<"first", "dx", "dy">>
Report(p) == [i \in 1 .. 3 |-> Tagged(p[i], Parts[i])]
Reported == {"first", "dx", "dy"}
FromMouse(b) == b.of \in Reported
NoByte == Tagged(0, "none")

ACK == 250                                       \* 0xFA
\* The commands of mouse_init by number: read the command byte, reset,
\* defaults, rate, 100, resolution, 2, reports on, identify.
GetConfig == 1
Reset     == 2
Stream    == 8
Identify  == 9
Replies(k) ==
  CASE k = GetConfig -> <<ConfigByte>>
    [] k = Reset     -> <<ACK, 170, 0>>
    [] k = Identify  -> <<ACK, 0>>
    [] OTHER         -> <<ACK>>

Polling   == pc \in {"poll", "full", "got", "hlt"}
Streaming == plugged /\ (Polling \/ step = Identify \/ (step = Stream /\ pc = "read"))

Answer ==
  /\ due # <<>> /\ out' = Append(out, Head(due)) /\ due' = Tail(due)
  /\ UNCHANGED <<machine, port, dialogue, data, pointer, history>>
Move ==
  /\ Streaming /\ due = <<>> /\ Len(out) + 3 <= MaxWaiting
  /\ \E p \in Packet : out' = out \o Report(p)
  /\ UNCHANGED <<machine, due, port, dialogue, data, pointer, history>>
\* The controller takes from either device; bit 4 stops the keyboard.
Key ==
  /\ mishaps < MaxMishaps /\ mishaps' = mishaps + 1
  /\ ~Bit(config, 16) /\ \A i \in DOMAIN out : out[i].of # "key"
  /\ \E c \in KeyCode, i \in 1 .. (Len(out) + 1) :
       (i > 1 \/ out = <<>>) /\ out' = InsertAt(out, i, Tagged(c, "key"))
  /\ UNCHANGED <<machine, due, port, dialogue, data, pointer, disturbed>>

\* A read of the port.
Read == /\ out # <<>> /\ port' = Head(out) /\ out' = Tail(out)
ReadAgain == /\ out = <<>> /\ UNCHANGED <<port, out>>

-----------------------------------------------------------------------------
(* mouse_init.                                                             *)

\* while (inb(MOUSE_STATUS) & 1)
Flush ==
  /\ pc = "flush"
  /\ \/ Read /\ UNCHANGED pc
     \/ ReadAgain /\ pc' = "send"
  /\ UNCHANGED <<machine, due, config, step, todo, data, pointer, history>>

Reads(k) == Len(Replies(k))
Send ==
  /\ pc = "send" /\ pc' = "read" /\ todo' = Reads(step)
  /\ due' = IF plugged \/ step = GetConfig
            THEN due \o [i \in DOMAIN Replies(step) |-> Tagged(Replies(step)[i], "reply")]
            ELSE due
  /\ UNCHANGED <<machine, out, port, config, step, data, pointer, history>>

Enabled(b) == b + (IF Bit(b, 2) THEN 0 ELSE 2) - (IF Bit(b, 32) THEN 32 ELSE 0)
ReadsAfterBug(b) == IF todo = 3 THEN 0 ELSE todo - 1     \* fault: the self-test's answers stay
ReadsAfter(b)    == IF todo = 3 /\ b # ACK THEN 0 ELSE todo - 1
\* What it makes of the byte: the only two it looks at.
Understood(b) ==
  /\ config' = IF step = GetConfig THEN Enabled(b) ELSE config
  /\ todo' = ReadsAfter(b)
  /\ CASE todo' > 0                      -> UNCHANGED <<pc, step>>
       [] todo' = 0 /\ step < Identify -> pc' = "send" /\ step' = step + 1
       [] todo' = 0 /\ step = Identify -> pc' = "poll" /\ UNCHANGED step
  /\ UNCHANGED <<machine, due, data, pointer>>

ReadReply ==
  /\ pc = "read" /\ Read /\ Understood(port'.val)
  /\ disturbed' = (disturbed \/ port'.of # "reply") /\ UNCHANGED mishaps
\* The count of mouse_wait runs out, and what the port then holds is taken.
RunsOutBug == FALSE                              \* fault: waits as long as it takes
RunsOut    == TRUE
GiveUp ==
  /\ pc = "read" /\ ReadAgain /\ RunsOut /\ Understood(port.val)
  /\ due # <<>> => mishaps < MaxMishaps
  /\ mishaps' = (IF due = <<>> THEN mishaps ELSE mishaps + 1)
  /\ disturbed' = (disturbed \/ due # <<>>)

mouse_init == Flush \/ Send \/ ReadReply \/ GiveUp

-----------------------------------------------------------------------------
(* Putting the packets together.                                           *)

SignedBug(b) == b                                \* fault: the bytes are unsigned
Signed(b)    == IF b < 128 THEN b ELSE b - 256
Clamp(v, size) == IF v < 0 THEN 0 ELSE IF v < size THEN v ELSE size - 1

process_packet(p) ==
  /\ prev_buttons' = buttons /\ buttons' = p[1].val % 8
  /\ x' = Clamp(x + Signed(p[2].val), VGA_WIDTH)
  /\ y' = Clamp(y - Signed(p[3].val), VGA_HEIGHT)

MayBeginBug(b) == TRUE                           \* fault: bit 3 not looked at
MayBegin(b)    == Bit(b.val, 8)
\* The switch of both readers.
Put(b) ==
  CASE packet = <<>> ->
         packet' = (IF MayBegin(b) THEN <<b>> ELSE <<>>) /\ UNCHANGED <<x, y, buttons, prev_buttons>>
    [] Len(packet) = 1 ->
         packet' = Append(packet, b) /\ UNCHANGED <<x, y, buttons, prev_buttons>>
    [] Len(packet) = 2 -> packet' = <<>> /\ process_packet(Append(packet, b))

\* mouse_poll: the status, the byte, the switch, which returns at a byte that
\* begins no packet. With no byte left the loop goes on to its hlt.
PollCheck ==
  /\ pc = "poll" /\ out # <<>> /\ pc' = "full"
  /\ UNCHANGED <<machine, wires, config, step, todo, data, pointer, history>>
PollRead ==
  /\ pc = "full" /\ pc' = "got" /\ (Read \/ ReadAgain) /\ data' = port'
  /\ disturbed' = (disturbed \/ out = <<>> \/ data'.of = "key")
  /\ UNCHANGED <<machine, due, config, step, todo, pointer, mishaps>>
PollPut ==
  /\ pc = "got" /\ Put(data) /\ data' = NoByte
  /\ pc' = IF packet = <<>> /\ ~MayBegin(data) THEN "hlt" ELSE "poll"
  /\ UNCHANGED <<machine, wires, config, step, todo, history>>
PollEnd ==
  /\ pc = "poll" /\ out = <<>> /\ pc' = "hlt"
  /\ UNCHANGED <<machine, wires, config, step, todo, data, pointer, history>>
mouse_poll == PollCheck \/ PollRead \/ PollPut \/ PollEnd

\* An interrupt, the timer's at the latest, ends the hlt of gui_main_loop.
Wake ==
  /\ enabled /\ pc = "hlt" /\ pc' = "poll"
  /\ UNCHANGED <<machine, wires, config, step, todo, data, pointer, history>>

\* IRQ 12, and IRQ 1, whose handler takes its byte away. Bits 1 and 0 of the
\* command byte let them through.
mouse_handler ==
  /\ enabled /\ Polling /\ Read /\ FromMouse(port') /\ Bit(config, 2)
  /\ Put(port') /\ disturbed' = (disturbed \/ pc = "got")
  /\ UNCHANGED <<machine, due, dialogue, data, mishaps>>
keyboard_handler ==
  /\ enabled /\ Polling /\ Read /\ port'.of = "key" /\ Bit(config, 1)
  /\ UNCHANGED <<machine, due, dialogue, data, pointer, history>>

-----------------------------------------------------------------------------
Init ==
  /\ enabled \in BOOLEAN /\ plugged \in BOOLEAN
  /\ due = <<>> /\ out = <<>> /\ port = NoByte
  /\ config = ConfigByte /\ pc = "flush" /\ step = GetConfig /\ todo = 0
  /\ data = NoByte /\ packet = <<>>
  /\ x = VGA_WIDTH \div 2 /\ y = VGA_HEIGHT \div 2 /\ buttons = 0 /\ prev_buttons = 0
  /\ mishaps = 0 /\ disturbed = FALSE

Next == \/ Answer \/ Move \/ Key \/ mouse_init \/ mouse_poll \/ Wake
        \/ mouse_handler \/ keyboard_handler
Spec == Init /\ [][Next]_vars
\* The processor goes on, where it is not in a hlt; a device that has to answer
\* does, and the timer interrupts where it can.
FairSpec == Spec /\ WF_vars(mouse_init) /\ WF_vars(mouse_poll) /\ WF_vars(Answer) /\ WF_vars(Wake)

-----------------------------------------------------------------------------
\* Of the first i bytes of q, those of some kinds, in their order.
Kept(q, kinds) ==
  LET first[i \in 0 .. Len(q)] ==
        IF i = 0 THEN <<>>
        ELSE IF q[i].of \in kinds THEN Append(first[i - 1], q[i]) ELSE first[i - 1]
  IN  first
Only(q, kinds) == Kept(q, kinds)[Len(q)]

\* What the mouse has sent and the driver not yet used up.
Held   == IF pc = "got" THEN <<data>> ELSE <<>>
InTransit == packet \o Held \o Only(out, Reported)
Whole(s) == Len(s) % 3 = 0 /\ \A i \in DOMAIN s : s[i].of = Parts[((i - 1) % 3) + 1]

\* Unless a reader took a byte that was not for it, mouse_init has read every
\* answer and left the command byte right when the polling begins, and the
\* bytes in the packet, in the poll's hands and on the wire are whole reports.
InStep ==
  ~disturbed =>
    /\ Whole(InTransit)
    /\ Polling => due = <<>> /\ config = Enabled(ConfigByte) /\ \A i \in DOMAIN out : out[i].of # "reply"

\* Whatever went wrong: once only reports come whose moves do not look like a
\* first byte, and they do come, and no interrupt falls into the poll any more,
\* the readers are in step with them again. (Where the loop stops at its hlt,
\* nothing puts them right.)
Calm == \A i \in DOMAIN out : FromMouse(out[i]) /\ (out[i].of # "first" => ~Bit(out[i].val, 8))
InPoll == pc \in {"full", "got"}
Realigns ==
  (enabled /\ <>[]Calm /\ <>[][InPoll => ~mouse_handler]_vars /\ []<>(out # <<>>))
    => <>[]Whole(InTransit)

\* mouse_init ends, with and without a mouse.
InitEnds == <>Polling

\* Until a byte has gone to the wrong reader the driver is a pointing device:
\* each report of the mouse moves the pointer once, in order, and soon where
\* the loop goes on. A move of 128 or more goes anywhere.
Device == INSTANCE PointingDevice WITH
            Width <- VGA_WIDTH, Height <- VGA_HEIGHT, lost <- disturbed,
            reports <- IF disturbed THEN <<>>
                       ELSE [k \in 1 .. (Len(InTransit) \div 3) |->
                               [i \in 1 .. 3 |-> InTransit[3 * (k - 1) + i].val]]
ImplementsPointer == Device!Steps /\ (enabled => Device!Prompt)

\* "Poll mouse in case IRQ12 is not firing (works both ways)", gui.c:46: the
\* reports that come are used, with interrupts or without. They are not where
\* interrupts are off: the loop is in its hlt then, having polled once.
PollReplacesInterrupt == Device!Prompt
=============================================================================
