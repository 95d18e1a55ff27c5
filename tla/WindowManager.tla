---------------------------- MODULE WindowManager ----------------------------
(***************************************************************************)
(* src/src/window_manager.c: the table of windows, whose slots from first  *)
(* to last are the windows from bottom to top, the window with the focus   *)
(* and the one being dragged.                                              *)
(*                                                                         *)
(* A window is the address kmalloc gave it. There is no kfree, so an       *)
(* address is never given twice while something still points to it. What   *)
(* nothing can read any more, a closed window that is not being dragged    *)
(* or the offset of no drag, is forgotten. Every window of the system is   *)
(* visible, moveable and closeable.                                        *)
(***************************************************************************)
EXTENDS Integers, Sequences, FiniteSets

CONSTANTS
  Window, NULL,
  MaxWindows,                  \* MAX_WINDOWS
  Kind,                        \* what windows there are, and for each
  Shape,                       \* its size, and the place where it opens
  ScreenWidth, ScreenHeight,   \* VGA_WIDTH, VGA_HEIGHT
  Point                        \* where the mouse may be

ASSUME WindowAssumption ==
  /\ MaxWindows \in Nat \ {0} /\ NULL \notin Window
  /\ ScreenWidth \in Nat /\ ScreenHeight \in Nat
  /\ Point \subseteq [x : Nat, y : Nat]
  /\ Shape \in [Kind -> [x : Int, y : Int, width : Nat, height : Nat]]

TITLEBAR_HEIGHT == 20
Slot  == 1 .. MaxWindows

VARIABLES
  windows, window_count,
  focused_window, dragging_window,
  drag_offset,                 \* drag_offset_x, drag_offset_y
  win                          \* what is at the address of a window

managed == <<windows, window_count, focused_window, dragging_window, drag_offset, win>>

NoWindow  == [kind |-> NULL, x |-> 0, y |-> 0]
NoOffset  == [x |-> 0, y |-> 0]
Opened(k) == [kind |-> k, x |-> Shape[k].x, y |-> Shape[k].y]

Forgotten(w) == [win EXCEPT ![w] = NoWindow]

Listed(w) == \E i \in Slot : windows[i] = w
Highest(S) == CHOOSE i \in S : \A j \in S : j <= i
Lowest(S)  == CHOOSE i \in S : \A j \in S : i <= j
Used(s)    == {i \in Slot : s[i] # NULL}
Topmost(s) == IF Used(s) = {} THEN NULL ELSE s[Highest(Used(s))]

-----------------------------------------------------------------------------
(* The table.                                                              *)

\* A slot is free: window_count counts the slots in use.
Added(s, w) == [s EXCEPT ![Lowest(Slot \ Used(s))] = w]

\* The windows above move down a slot, and w into the last.
RaisedBug(s, w) ==                               \* fault: one slot too many moves
  LET at == Lowest({i \in Slot : s[i] = w})
  IN  [i \in Slot |-> IF i < at - 1 THEN s[i] ELSE IF i < MaxWindows THEN s[i + 1] ELSE w]
Raised(s, w) ==
  LET at == Lowest({i \in Slot : s[i] = w})
  IN  [i \in Slot |-> IF i < at THEN s[i] ELSE IF i < MaxWindows THEN s[i + 1] ELSE w]

Removed(s, w) == [i \in Slot |-> IF s[i] = w THEN NULL ELSE s[i]]

\* The focus when the window that has it was removed, which left the table s.
FocusWithoutBug(s) == NULL                       \* fault: no other window gets it
FocusWithout(s)    == Topmost(s)

-----------------------------------------------------------------------------
(* The operations, but for the mouse.                                      *)

NoRoom == window_count >= MaxWindows             \* window_create returns NULL

\* window_create, when kmalloc gives it the address w.
window_create(k, w) ==
  /\ ~NoRoom
  /\ windows' = Raised(Added(windows, w), w)
  /\ window_count' = window_count + 1
  /\ focused_window' = w
  /\ win' = [win EXCEPT ![w] = Opened(k)]
  /\ UNCHANGED <<dragging_window, drag_offset>>

window_bring_to_front(w) ==
  /\ windows' = Raised(windows, w) /\ focused_window' = w
  /\ UNCHANGED window_count

ClampBug(v, size, limit) == IF v + size > limit THEN limit - size ELSE v   \* fault: one side only
Clamp(v, size, limit) ==
  LET positive == IF v < 0 THEN 0 ELSE v
  IN  IF positive + size > limit THEN limit - size ELSE positive

\* The mouse is at p; left is the state of its left button.
LetGoBug(left) == FALSE                          \* fault: never let go
LetGo(left)    == dragging_window # NULL /\ ~left
window_manager_update(p, left) ==
  \/ /\ dragging_window # NULL /\ left
     /\ LET w    == dragging_window
            size == Shape[win[w].kind]
        IN  win' = [win EXCEPT
              ![w].x = Clamp(p.x - drag_offset.x, size.width, ScreenWidth),
              ![w].y = Clamp(p.y - drag_offset.y, size.height, ScreenHeight)]
     /\ UNCHANGED <<windows, window_count, focused_window, dragging_window, drag_offset>>
  \/ /\ LetGo(left)
     /\ dragging_window' = NULL /\ drag_offset' = NoOffset
     /\ win' = IF Listed(dragging_window) THEN win ELSE Forgotten(dragging_window)
     /\ UNCHANGED <<windows, window_count, focused_window>>
  \/ /\ ~(dragging_window # NULL /\ left) /\ ~LetGo(left)
     /\ UNCHANGED managed

-----------------------------------------------------------------------------
(* window_handle_mouse, for a click at p.                                  *)

InRect(p, x, y, width, height) == /\ x <= p.x /\ p.x < x + width
                                  /\ y <= p.y /\ p.y < y + height
Covers(w, p) == LET size == Shape[win[w].kind]
                IN  InRect(p, win[w].x, win[w].y, size.width, size.height)
OnClose(w, p) == InRect(p, win[w].x + Shape[win[w].kind].width - 18, win[w].y + 4, 12, 12)
OnTitle(w, p) == InRect(p, win[w].x, win[w].y, Shape[win[w].kind].width, TITLEBAR_HEIGHT)
InContent(w, p) == LET size == Shape[win[w].kind]
                   IN  InRect(p, win[w].x + 1, win[w].y + TITLEBAR_HEIGHT + 1,
                              size.width - 2, size.height - TITLEBAR_HEIGHT - 2)

Under(p) == {i \in Used(windows) : Covers(windows[i], p)}
HitBug(p) == windows[Lowest(Under(p))]           \* fault: from bottom to top
Hit(p)    == windows[Highest(Under(p))]

\* The close button: window_bring_to_front, which gives the window the focus,
\* then window_destroy, which takes it away.
CountWithoutBug == window_count                  \* fault: not counted down
CountWithout    == window_count - 1
ClickClose(p) ==
  /\ Under(p) # {} /\ OnClose(Hit(p), p)
  /\ windows' = Removed(Raised(windows, Hit(p)), Hit(p))
  /\ window_count' = CountWithout
  /\ focused_window' = FocusWithout(windows')
  /\ win' = IF Hit(p) = dragging_window THEN win ELSE Forgotten(Hit(p))
  /\ UNCHANGED <<dragging_window, drag_offset>>

ClickTitle(p) ==
  /\ Under(p) # {} /\ ~OnClose(Hit(p), p) /\ OnTitle(Hit(p), p)
  /\ window_bring_to_front(Hit(p))
  /\ dragging_window' = Hit(p)
  /\ drag_offset' = [x |-> p.x - win[Hit(p)].x, y |-> p.y - win[Hit(p)].y]
  /\ UNCHANGED win

\* Anywhere else. What follows for a click InContent is the window's on_click.
ClickWindow(p) ==
  /\ Under(p) # {} /\ ~OnClose(Hit(p), p) /\ ~OnTitle(Hit(p), p)
  /\ window_bring_to_front(Hit(p))
  /\ UNCHANGED <<dragging_window, drag_offset, win>>

-----------------------------------------------------------------------------
ManagerInit ==
  /\ windows = [i \in Slot |-> NULL] /\ window_count = 0
  /\ focused_window = NULL /\ dragging_window = NULL
  /\ drag_offset = NoOffset
  /\ win = [w \in Window |-> NoWindow]

\* Any caller, and any mouse.
ManagerNext ==
  \/ \E k \in Kind, w \in Window : ~Listed(w) /\ window_create(k, w)
  \/ \E p \in Point, left \in BOOLEAN : window_manager_update(p, left)
  \/ \E p \in Point : ClickClose(p) \/ ClickTitle(p) \/ ClickWindow(p)

-----------------------------------------------------------------------------
\* window_create trusts window_count: the number of slots in use, each of
\* which holds another window, whatever was opened, raised and closed.
CountExact ==
  /\ window_count = Cardinality(Used(windows))
  /\ \A i, j \in Used(windows) : windows[i] = windows[j] => i = j

\* The focus is drawn, and given, by pointer, the order by slot: they agree.
FocusOnTop == focused_window = Topmost(windows)

\* The windows of the first i slots, bottom first, without the holes.
UpTo(s) ==
  LET lower[i \in 0 .. MaxWindows] ==
        IF i = 0 THEN <<>>
        ELSE IF s[i] = NULL THEN lower[i - 1] ELSE Append(lower[i - 1], s[i])
  IN  lower
InUse(s) == UpTo(s)[MaxWindows]

\* The order of the table, with its holes, is the order of a stack.
Stack == INSTANCE WindowStack WITH stack <- InUse(windows), focus <- focused_window
ImplementsStack == Stack!Spec
=============================================================================
