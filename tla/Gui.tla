--------------------------------- MODULE Gui ---------------------------------
(***************************************************************************)
(* The GUI loop of src/src/gui.c with the mouse, the windows, the desktop  *)
(* (desktop.c) and the file manager (file_manager.c).                      *)
(*                                                                         *)
(* The loop runs inside the keyboard's interrupt handler, with interrupts  *)
(* off: packets of the mouse come from mouse_poll only. For the same       *)
(* reason its hlt does not return on the machine of module Kernel; this    *)
(* module says what the GUI does on one where it does. The editor is here  *)
(* with its window only, its text and its keys are in module TextEditor.   *)
(***************************************************************************)
EXTENDS WindowManager, SequencesExt

CONSTANTS
  RootDir,     \* what fs_ls reports: a sequence of [name, size, text]
  MaxIcons,    \* MAX_DESKTOP_ICONS
  MaxFiles,    \* files of file_manager_t
  MaxDepth     \* bound of the model: names in current_path

ASSUME GuiAssumption == {"files", "editor"} \subseteq Kind

VARIABLES
  mouse, left, prev_left,        \* mouse_state and prev_buttons
  pc,                            \* what the loop does next
  files,                         \* the first file_count of the manager's files
  path                           \* current_path: the names after the root

vars == <<managed, mouse, left, prev_left, pc, files, path>>

-----------------------------------------------------------------------------
(* The mouse. A packet moves it by what fits in eight bits.                *)

Near(a, b) == a - b \in -128 .. 127
mouse_left_clicked == left /\ ~prev_left

process_packet(p, b) ==
  /\ pc = "poll"
  /\ Near(p.x, mouse.x) /\ Near(mouse.y, p.y)
  /\ mouse' = p /\ left' = b /\ prev_left' = left
  /\ UNCHANGED <<managed, pc, files, path>>

\* The next frame.
Frame ==
  /\ pc = "poll" /\ pc' = "windows"
  /\ window_manager_update(mouse, left)
  /\ UNCHANGED <<mouse, left, prev_left, files, path>>

-----------------------------------------------------------------------------
(* The file manager's list: no subdirectories, the root in any case.       *)

Up      == [name |-> 0, size |-> 0, text |-> FALSE]
IsDir(f) == f.size = 0
Before(f, g) == IF IsDir(f) = IsDir(g) THEN f.name < g.name ELSE IsDir(f)
AtMost(s, n) == IF Len(s) < n THEN s ELSE SubSeq(s, 1, n)
Listing(p)   == AtMost((IF p = <<>> THEN <<>> ELSE <<Up>>) \o RootDir, MaxFiles)
Entries(p)   == SetToSortSeq(Range(Listing(p)), Before)

-----------------------------------------------------------------------------
(* Opening. Both functions forget the window they had before they look     *)
(* whether there is one to close, so they never close any.                 *)

FreeAddresses == {w \in Window : ~Listed(w) /\ w # dragging_window}
Open(k) == \/ FreeAddresses # {} /\ window_create(k, CHOOSE w \in FreeAddresses : TRUE)
           \/ NoRoom /\ UNCHANGED managed

text_editor_open == Open("editor")

\* Without a window file_manager_open ends before it lists the files.
file_manager_open ==
  /\ Open("files") /\ path' = <<>>
  /\ files' = IF NoRoom THEN <<>> ELSE Entries(path')

-----------------------------------------------------------------------------
(* A click into the list.                                                  *)

Parent(p) == IF Len(p) > 1 THEN Front(p) ELSE p
RefreshedBug(p) == files                         \* fault: the old list stays
Refreshed(p)    == Entries(p)                    \* file_manager_refresh

Enter(f) == IF f = Up THEN Parent(path)
            ELSE IF Len(path) < MaxDepth THEN Append(path, f.name) ELSE path

file_manager_on_click(y) ==
  LET row == (y - 38) \div 16 + 1
      hit == y >= 38 /\ row <= Len(files)
  IN  \/ /\ hit /\ IsDir(files[row])
         /\ path' = Enter(files[row]) /\ files' = Refreshed(path')
         /\ UNCHANGED managed
      \/ /\ hit /\ ~IsDir(files[row]) /\ files[row].text
         /\ text_editor_open
         /\ UNCHANGED <<files, path>>
      \/ /\ ~(hit /\ (IsDir(files[row]) \/ files[row].text))
         /\ UNCHANGED <<managed, files, path>>

-----------------------------------------------------------------------------
(* The desktop: Files, Editor, and an icon for each file. Which one is     *)
(* drawn selected is left out, only the drawing asks.                      *)

SystemIcons == <<"folder", "editor">>
IconOf(f)   == IF f.text THEN "text" ELSE "other"
Icons == AtMost(SystemIcons \o [i \in DOMAIN RootDir |-> IconOf(RootDir[i])], MaxIcons)
OnIcon(i) == InRect(mouse, 10 + ((i - 1) % 4) * 64, 10 + ((i - 1) \div 4) * 64, 48, 64)

desktop_open_icon(i) ==
  \/ Icons[i] = "folder" /\ file_manager_open
  \/ Icons[i] \in {"editor", "text"} /\ text_editor_open /\ UNCHANGED <<files, path>>
  \/ Icons[i] = "other" /\ UNCHANGED <<managed, files, path>>

-----------------------------------------------------------------------------
(* The frame's two looks at the mouse. (The loop calls both only when a    *)
(* button is down or the mouse has moved; without a click they do nothing.) *)

window_handle_mouse ==
  /\ pc = "windows"
  /\ \/ /\ mouse_left_clicked
        /\ \/ ClickClose(mouse) /\ pc' = "desktop"
           \/ ClickTitle(mouse) /\ pc' = "desktop"
           \/ /\ ClickWindow(mouse)
              /\ pc' = IF InContent(Hit(mouse), mouse) /\ win[Hit(mouse)].kind = "files"
                       THEN "content" ELSE "desktop"
     \/ /\ ~mouse_left_clicked \/ Under(mouse) = {}
        /\ pc' = "desktop" /\ UNCHANGED managed
  /\ UNCHANGED <<mouse, left, prev_left, files, path>>

on_click ==
  /\ pc = "content" /\ pc' = "desktop"
  /\ file_manager_on_click(mouse.y - win[focused_window].y - TITLEBAR_HEIGHT - 1)
  /\ UNCHANGED <<mouse, left, prev_left>>

desktop_handle_mouse ==
  /\ pc = "desktop" /\ pc' = "poll"
  /\ \/ \E i \in DOMAIN Icons : /\ mouse_left_clicked /\ OnIcon(i)
                                /\ desktop_open_icon(i)
     \/ /\ mouse_left_clicked /\ \A i \in DOMAIN Icons : ~OnIcon(i)
        /\ UNCHANGED <<managed, files, path>>
     \/ ~mouse_left_clicked /\ UNCHANGED <<managed, files, path>>
  /\ UNCHANGED <<mouse, left, prev_left>>

Loop == Frame \/ window_handle_mouse \/ on_click \/ desktop_handle_mouse

Init ==
  /\ ManagerInit
  /\ mouse = [x |-> ScreenWidth \div 2, y |-> ScreenHeight \div 2]
  /\ left = FALSE /\ prev_left = FALSE
  /\ pc = "poll"
  /\ path = <<>> /\ files = <<>>

Next == Loop \/ \E p \in Point, b \in BOOLEAN : process_packet(p, b)
Spec == Init /\ [][Next]_vars
FairSpec == Spec /\ WF_vars(Loop)

-----------------------------------------------------------------------------
\* Whatever was clicked, in whichever window, and however often the manager was
\* opened anew: its list is the one of its path, or it has no window for one.
ListIsOfPath == files = <<>> \/ files = Entries(path)

\* A click goes to the window that is drawn on top where the mouse is: when
\* another window gets the focus and none was opened or closed, it lies under
\* the mouse, and there below no other.
RaisesTheTop ==
  [][\A w \in Window :
       (focused_window' = w /\ focused_window # w /\ window_count' = window_count)
         => /\ Covers(w, mouse)
            /\ \A i, j \in Used(windows) :
                 (windows[i] = w /\ j > i) => ~Covers(windows[j], mouse)]_vars

\* "Keep window on screen": a window that was dragged is on the screen
\* whole, the close button at its far end included. (A window too large for
\* that, as the editor's is, goes over the upper or the left edge.)
OnScreen(w) == LET size == Shape[win[w].kind]
               IN  /\ win[w].x >= 0 /\ win[w].x + size.width <= ScreenWidth
                   /\ win[w].y >= 0 /\ win[w].y + size.height <= ScreenHeight
HasRoom(w)  == LET size == Shape[win[w].kind]
               IN  size.width <= ScreenWidth /\ size.height <= ScreenHeight
Moved(w) == win'[w] # win[w] /\ win'[w].kind = win[w].kind /\ Listed(w)
StaysOnScreen == [][\A w \in Window : (Moved(w) /\ HasRoom(w)) => OnScreen(w)']_vars

\* A window that was let go of is no longer dragged.
DragEnds == (dragging_window # NULL) ~> (dragging_window = NULL \/ left)
=============================================================================
