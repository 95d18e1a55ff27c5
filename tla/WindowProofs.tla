----------------------------- MODULE WindowProofs -----------------------------
(***************************************************************************)
(* Proofs about the window table under the GUI loop, for every number of   *)
(* slots and windows, every screen and every mouse.                        *)
(***************************************************************************)
EXTENDS Gui, WellFoundedInduction, FiniteSetTheorems, SequenceTheorems, TLAPS

Table == [Slot -> Window \cup {NULL}]
Apart(s) == \A i, j \in Used(s) : s[i] = s[j] => i = j
Holds(s, w) == \E i \in Slot : s[i] = w

-----------------------------------------------------------------------------
(* Tables.                                                                 *)

\* A set of numbers that is not empty has a least one: what the searches from
\* below find.
LEMMA Least ==
  ASSUME NEW T, T \subseteq Nat, T # {}
  PROVE  \E m \in T : \A n \in T : m <= n
<1> DEFINE R == OpToRel(<, Nat)
<1>1. \A m, n \in Nat : m < n => <<m, n>> \in R
  BY Zenon DEF OpToRel
<1>2. IsWellFoundedOn(R, Nat)
  BY NatLessThanWellFounded, Zenon
<1> HIDE DEF R
<1>3. PICK m \in T : \A n \in T : <<n, m>> \notin R
  BY <1>2, WFMin, Zenon
<1>4. \A n \in T : ~(n < m)
  BY <1>1, <1>3, Zenon
<1> QED  BY <1>4, m \in Nat, SMT

\* Both searches over the slots find what they look for.
LEMMA LowestSlot ==
  ASSUME NEW T \in SUBSET Slot, T # {}
  PROVE  Lowest(T) \in T /\ \A j \in T : Lowest(T) <= j
<1>1. T \subseteq Nat
  BY DEF Slot
<1>2. \E m \in T : \A n \in T : m <= n
  BY <1>1, Least
<1> QED  BY <1>2, Zenon DEF Lowest

\* The same for the search from above.
LEMMA HighestSlot ==
  ASSUME WindowAssumption, NEW T \in SUBSET Slot, T # {}
  PROVE  Highest(T) \in T /\ \A j \in T : j <= Highest(T)
<1> DEFINE D == {n \in Nat : MaxWindows - n \in T}
<1>1. PICK t \in T : TRUE
  OBVIOUS
<1>2. MaxWindows - t \in D
  BY <1>1 DEF WindowAssumption, Slot
<1>3. PICK m \in D : \A n \in D : m <= n
  BY <1>2, Least
<1>4. ASSUME NEW j \in T PROVE j <= MaxWindows - m
  <2>1. MaxWindows - j \in D
    BY DEF WindowAssumption, Slot
  <2> QED  BY <1>3, <2>1 DEF WindowAssumption, Slot
<1>5. \E i \in T : \A j \in T : j <= i
  BY <1>3, <1>4
<1> QED  BY <1>5, Zenon DEF Highest

\* The number of slots in use is a number, and at most that of the slots.
LEMMA UsedFinite ==
  ASSUME WindowAssumption, NEW s
  PROVE  /\ IsFiniteSet(Slot) /\ Cardinality(Slot) = MaxWindows
         /\ IsFiniteSet(Used(s)) /\ Cardinality(Used(s)) \in Nat
<1>1. IsFiniteSet(Slot) /\ Cardinality(Slot) = MaxWindows
  BY FS_Interval DEF WindowAssumption, Slot
<1>2. Used(s) \in SUBSET Slot
  BY DEF Used
<1>3. IsFiniteSet(Used(s))
  BY <1>1, <1>2, FS_Subset
<1> QED  BY <1>1, <1>3, FS_CardinalityType

\* What lies in the last slot is on top.
LEMMA LastIsTopmost ==
  ASSUME WindowAssumption, NEW s \in Table, s[MaxWindows] # NULL
  PROVE  Topmost(s) = s[MaxWindows]
<1>1. MaxWindows \in Used(s) /\ Used(s) \in SUBSET Slot
  BY DEF WindowAssumption, Used, Slot
<1>2. /\ Highest(Used(s)) \in Used(s)
      /\ \A j \in Used(s) : j <= Highest(Used(s))
  BY <1>1, HighestSlot
<1>3. Highest(Used(s)) = MaxWindows
  BY <1>1, <1>2 DEF WindowAssumption, Slot
<1> QED  BY <1>1, <1>3 DEF Topmost

\* While the count is below the number of slots, there is a free one, and
\* adding a window to it changes no other.
LEMMA AddedTable ==
  ASSUME WindowAssumption, NEW s \in Table, Apart(s),
         NEW w \in Window, ~Holds(s, w), Cardinality(Used(s)) < MaxWindows
  PROVE  /\ Added(s, w) \in Table /\ Apart(Added(s, w)) /\ Holds(Added(s, w), w)
         /\ Cardinality(Used(Added(s, w))) = Cardinality(Used(s)) + 1
<1> DEFINE free == Lowest(Slot \ Used(s))
<1>1. Slot \ Used(s) # {}
  <2>1. SUFFICES ASSUME Slot \ Used(s) = {} PROVE FALSE
    OBVIOUS
  <2>2. Used(s) = Slot
    BY <2>1 DEF Used
  <2>3. Cardinality(Used(s)) = MaxWindows
    BY <2>2, UsedFinite
  <2> QED  BY <2>3 DEF WindowAssumption
<1>2. free \in Slot \ Used(s)
  BY <1>1, LowestSlot
<1>3. Added(s, w) = [s EXCEPT ![free] = w]
  BY DEF Added
<1> HIDE DEF free
<1>4. Added(s, w) \in Table
  BY <1>2, <1>3 DEF Table
<1>5. Used(Added(s, w)) = Used(s) \cup {free}
  BY <1>2, <1>3 DEF Used, Table, WindowAssumption
<1>6. Apart(Added(s, w))
  BY <1>2, <1>3, <1>5 DEF Apart, Table, Holds, Used
<1>7. Cardinality(Used(Added(s, w))) = Cardinality(Used(s)) + 1
  BY <1>2, <1>5, UsedFinite, FS_AddElement
<1>8. Holds(Added(s, w), w)
  BY <1>2, <1>3 DEF Holds, Table
<1> QED  BY <1>4, <1>6, <1>7, <1>8

\* Raising a window keeps every window, puts it into the last slot, and no
\* window into two.
LEMMA RaisedTable ==
  ASSUME WindowAssumption, NEW s \in Table, Apart(s), NEW w \in Window, Holds(s, w)
  PROVE  /\ Raised(s, w) \in Table /\ Apart(Raised(s, w))
         /\ Raised(s, w)[MaxWindows] = w
         /\ Cardinality(Used(Raised(s, w))) = Cardinality(Used(s))
<1> DEFINE at == Lowest({i \in Slot : s[i] = w})
           r  == Raised(s, w)
           to == [i \in Used(s) |-> IF i < at THEN i ELSE IF i = at THEN MaxWindows ELSE i - 1]
<1>1. at \in Slot /\ s[at] = w
  BY LowestSlot DEF Holds
<1>2. r = [i \in Slot |-> IF i < at THEN s[i] ELSE IF i < MaxWindows THEN s[i + 1] ELSE w]
  BY DEF Raised
<1>3. w # NULL /\ MaxWindows \in Slot
  BY DEF WindowAssumption, Slot
<1> HIDE DEF at, r
<1>4. r \in Table
  BY <1>1, <1>2 DEF Table, Slot, WindowAssumption
<1>5. r[MaxWindows] = w
  BY <1>1, <1>2, <1>3 DEF Slot, WindowAssumption
<1>6. ASSUME NEW i \in Used(s)
      PROVE  to[i] \in Used(r) /\ r[to[i]] = s[i]
  BY <1>1, <1>2, <1>3, <1>5 DEF Used, Slot, WindowAssumption
<1>7. ASSUME NEW j \in Used(r)
      PROVE  \E i \in Used(s) : to[i] = j
  <2>1. CASE j < at
    BY <1>1, <1>2, <2>1 DEF Used, Slot, WindowAssumption
  <2>2. CASE j >= at /\ j < MaxWindows
    <3>1. j + 1 \in Used(s)
      BY <1>1, <1>2, <2>2 DEF Used, Slot, WindowAssumption
    <3> QED  BY <1>1, <2>2, <3>1 DEF Used, Slot, WindowAssumption
  <2>3. CASE j = MaxWindows
    BY <1>1, <1>3, <2>3 DEF Used
  <2> QED  BY <1>1, <2>1, <2>2, <2>3 DEF Used, Slot, WindowAssumption
<1>8. to \in Bijection(Used(s), Used(r))
  <2>1. to \in [Used(s) -> Used(r)]
    BY <1>6
  <2>2. \A i, j \in Used(s) : to[i] = to[j] => i = j
    BY <1>6 DEF Apart
  <2> HIDE DEF to
  <2> QED  BY <1>7, <2>1, <2>2 DEF Bijection, Injection, IsInjective, Surjection
<1>9. Apart(r)
  BY <1>6, <1>7 DEF Apart
<1>10. Cardinality(Used(r)) = Cardinality(Used(s))
  BY <1>8, UsedFinite, FS_Bijection DEF ExistsBijection
<1> QED  BY <1>4, <1>5, <1>9, <1>10 DEF r

\* Removing the window of the last slot frees that slot and no other.
LEMMA RemovedTable ==
  ASSUME WindowAssumption, NEW s \in Table, Apart(s), NEW w \in Window,
         s[MaxWindows] = w
  PROVE  /\ Removed(s, w) \in Table /\ Apart(Removed(s, w))
         /\ Cardinality(Used(Removed(s, w))) = Cardinality(Used(s)) - 1
<1>1. MaxWindows \in Used(s)
  BY DEF Used, Slot, WindowAssumption
<1>2. Removed(s, w) \in Table
  BY DEF Removed, Table
<1>3. \A i \in Used(s) : s[i] = w => i = MaxWindows
  BY <1>1 DEF Apart
<1>4. Used(Removed(s, w)) = Used(s) \ {MaxWindows}
  BY <1>1, <1>3 DEF Removed, Used
<1>5. Apart(Removed(s, w))
  BY <1>4 DEF Removed, Apart, Used
<1>6. Cardinality(Used(Removed(s, w))) = Cardinality(Used(s)) - 1
  BY <1>1, <1>4, UsedFinite, FS_RemoveElement
<1> QED  BY <1>2, <1>5, <1>6

-----------------------------------------------------------------------------
(* The operations.                                                         *)

WInv == windows \in Table /\ CountExact /\ FocusOnTop

\* What leaves the table and the focus alone keeps the invariant; then the
\* operations, one by one.
LEMMA UnchangedKeeps ==
  ASSUME WInv, UNCHANGED <<windows, window_count, focused_window>>
  PROVE  WInv'
BY DEF WInv, CountExact, FocusOnTop, Used, Topmost, Table

\* window_create.
LEMMA CreateKeeps ==
  ASSUME WindowAssumption, WInv, NEW k, NEW w \in Window, ~Listed(w), window_create(k, w)
  PROVE  WInv'
<1> DEFINE a == Added(windows, w)
<1>1. /\ windows \in Table /\ Apart(windows) /\ ~Holds(windows, w)
      /\ window_count = Cardinality(Used(windows)) /\ window_count \in Nat
  BY UsedFinite DEF WInv, CountExact, Apart, Holds, Listed
<1>2. window_count < MaxWindows
  BY <1>1 DEF window_create, NoRoom, WindowAssumption
<1>3. /\ a \in Table /\ Apart(a) /\ Holds(a, w)
      /\ Cardinality(Used(a)) = window_count + 1
  BY <1>1, <1>2, AddedTable
<1>4. windows' = Raised(a, w) /\ window_count' = window_count + 1 /\ focused_window' = w
  BY DEF window_create
<1> HIDE DEF a
<1>5. /\ Raised(a, w) \in Table /\ Apart(Raised(a, w)) /\ Raised(a, w)[MaxWindows] = w
      /\ Cardinality(Used(Raised(a, w))) = window_count + 1
  BY <1>3, RaisedTable
<1>6. Topmost(Raised(a, w)) = w
  BY <1>5, LastIsTopmost DEF WindowAssumption
<1> QED  BY <1>4, <1>5, <1>6 DEF WInv, CountExact, FocusOnTop, Apart, Used, Topmost, Table

\* window_bring_to_front.
LEMMA RaiseKeeps ==
  ASSUME WindowAssumption, WInv, NEW w \in Window, Listed(w), window_bring_to_front(w)
  PROVE  WInv'
<1>1. /\ windows \in Table /\ Apart(windows) /\ Holds(windows, w)
      /\ window_count = Cardinality(Used(windows))
  BY DEF WInv, CountExact, Apart, Holds, Listed
<1> DEFINE r == Raised(windows, w)
<1>2. r \in Table /\ Apart(r) /\ r[MaxWindows] = w /\ Cardinality(Used(r)) = window_count
  BY <1>1, RaisedTable
<1>3. windows' = r /\ focused_window' = w /\ window_count' = window_count
  BY DEF window_bring_to_front
<1> HIDE DEF r
<1>4. Topmost(r) = w
  BY <1>2, LastIsTopmost DEF WindowAssumption
<1> QED  BY <1>2, <1>3, <1>4 DEF WInv, CountExact, FocusOnTop, Apart, Used, Topmost, Table

\* The window that a click goes to is one of the table.
LEMMA HitListed ==
  ASSUME WindowAssumption, WInv, NEW p, Under(p) # {}
  PROVE  Hit(p) \in Window /\ Listed(Hit(p))
<1>1. Under(p) \in SUBSET Slot
  BY DEF Under, Used
<1>2. Highest(Under(p)) \in Under(p)
  BY <1>1, HighestSlot
<1> QED  BY <1>2 DEF Hit, Under, Used, Listed, WInv, Table

\* A click on the close button.
LEMMA CloseKeeps ==
  ASSUME WindowAssumption, WInv, NEW p, ClickClose(p)
  PROVE  WInv'
<1> DEFINE w == Hit(p)
           r == Raised(windows, w)
           d == Removed(r, w)
<1>1. w \in Window /\ Listed(w)
  BY HitListed DEF ClickClose
<1>2. /\ windows \in Table /\ Apart(windows) /\ Holds(windows, w)
      /\ window_count = Cardinality(Used(windows))
  BY <1>1 DEF WInv, CountExact, Apart, Holds, Listed
<1>3. windows' = d /\ window_count' = window_count - 1 /\ focused_window' = Topmost(windows')
  BY DEF ClickClose, CountWithout, FocusWithout
<1> HIDE DEF w
<1>4. r \in Table /\ Apart(r) /\ r[MaxWindows] = w /\ Cardinality(Used(r)) = window_count
  BY <1>1, <1>2, RaisedTable
<1> HIDE DEF r
<1>5. d \in Table /\ Apart(d) /\ Cardinality(Used(d)) = window_count - 1
  BY <1>1, <1>4, RemovedTable
<1> QED  BY <1>3, <1>5 DEF WInv, CountExact, FocusOnTop, Apart, Used, Topmost, Table

\* Any click on a window.
LEMMA ClickKeeps ==
  ASSUME WindowAssumption, WInv, NEW p,
         ClickClose(p) \/ ClickTitle(p) \/ ClickWindow(p)
  PROVE  WInv'
<1>1. ASSUME Under(p) # {}, window_bring_to_front(Hit(p))
      PROVE  WInv'
  BY <1>1, HitListed, RaiseKeeps
<1> QED  BY <1>1, CloseKeeps DEF ClickTitle, ClickWindow

\* Opening the editor or the file manager, with or without room.
LEMMA OpenKeeps ==
  ASSUME WindowAssumption, WInv, NEW k, Open(k)
  PROVE  WInv'
<1>1. CASE FreeAddresses # {} /\ window_create(k, CHOOSE w \in FreeAddresses : TRUE)
  <2>1. (CHOOSE w \in FreeAddresses : TRUE) \in FreeAddresses
    BY <1>1
  <2> QED  BY <1>1, <2>1, CreateKeeps DEF FreeAddresses
<1>2. CASE NoRoom /\ UNCHANGED managed
  BY <1>2, UnchangedKeeps DEF managed
<1> QED  BY <1>1, <1>2 DEF Open

-----------------------------------------------------------------------------
(* The specification.                                                      *)

\* An empty table.
LEMMA InitWInv ==
  ASSUME WindowAssumption, Init
  PROVE  WInv
<1>1. windows = [i \in Slot |-> NULL] /\ window_count = 0 /\ focused_window = NULL
  BY DEF Init, ManagerInit
<1>2. Used(windows) = {}
  BY <1>1 DEF Used
<1> QED  BY <1>1, <1>2, FS_EmptySet DEF WInv, CountExact, FocusOnTop, Topmost, Table

\* Every step of the loop and of the mouse.
LEMMA NextWInv ==
  ASSUME WindowAssumption, WInv, [Next]_vars
  PROVE  WInv'
<1>1. CASE Frame
  <2>1. UNCHANGED <<windows, window_count, focused_window>>
    BY <1>1 DEF Frame, window_manager_update, managed
  <2> QED  BY <2>1, UnchangedKeeps
<1>2. CASE window_handle_mouse
  <2>1. CASE UNCHANGED managed
    BY <2>1, UnchangedKeeps DEF managed
  <2> QED  BY <1>2, <2>1, ClickKeeps DEF window_handle_mouse
<1>3. CASE on_click
  <2>1. CASE UNCHANGED managed
    BY <2>1, UnchangedKeeps DEF managed
  <2> QED  BY <1>3, <2>1, OpenKeeps DEF on_click, file_manager_on_click, text_editor_open
<1>4. CASE desktop_handle_mouse
  <2>1. CASE UNCHANGED managed
    BY <2>1, UnchangedKeeps DEF managed
  <2> QED  BY <1>4, <2>1, OpenKeeps
        DEF desktop_handle_mouse, desktop_open_icon, file_manager_open, text_editor_open
<1>5. ASSUME NEW p \in Point, NEW b \in BOOLEAN, process_packet(p, b)
      PROVE  WInv'
  BY <1>5, UnchangedKeeps DEF process_packet, managed
<1>6. CASE UNCHANGED vars
  BY <1>6, UnchangedKeeps DEF vars, managed
<1> QED  BY <1>1, <1>2, <1>3, <1>4, <1>5, <1>6 DEF Next, Loop

\* The invariant of the table.
LEMMA AlwaysWInv == Spec => []WInv
BY WindowAssumption, InitWInv, NextWInv, PTL DEF Spec

\* window_count is the number of slots in use and no window is in two of
\* them, whatever was opened, raised and closed (window_manager.c: create,
\* destroy and bring_to_front).
THEOREM CountStaysExact == Spec => []CountExact
<1>1. WInv => CountExact
  BY DEF WInv
<1> QED  BY <1>1, AlwaysWInv, PTL

\* The window with the focus is the one on top (window_manager.c: focused_window
\* against the order of the slots).
THEOREM FocusStaysOnTop == Spec => []FocusOnTop
<1>1. WInv => FocusOnTop
  BY DEF WInv
<1> QED  BY <1>1, AlwaysWInv, PTL

\* The top of what lies under the mouse.
LEMMA HitIsTop ==
  ASSUME WindowAssumption, WInv, NEW p, Under(p) # {}
  PROVE  /\ Covers(Hit(p), p)
         /\ \A i, j \in Used(windows) : (windows[i] = Hit(p) /\ j > i) => ~Covers(windows[j], p)
<1> DEFINE h == Highest(Under(p))
<1>1. h \in Under(p) /\ \A j \in Under(p) : j <= h
  <2>1. Under(p) \in SUBSET Slot
    BY DEF Under, Used
  <2> QED BY <2>1, HighestSlot
<1> HIDE DEF h
<1>2. h \in Used(windows) /\ h \in Nat
  BY <1>1 DEF Under, Used, Slot
<1>3. Hit(p) = windows[h]
  BY DEF Hit, h
<1>4. ASSUME NEW i \in Used(windows), NEW j \in Used(windows), windows[i] = Hit(p), j > i
      PROVE  ~Covers(windows[j], p)
  <2>1. i = h
    BY <1>2, <1>3, <1>4 DEF WInv, CountExact
  <2>2. j \in Nat /\ ~(j <= h)
    BY <1>2, <1>4, <2>1 DEF Used, Slot
  <2> QED BY <1>1, <2>2 DEF Under
<1> QED BY <1>1, <1>3, <1>4 DEF Under

\* window_manager.c:196-236: in every order of opening, raising, closing and
\* clicking, a window that gets the focus by a click is the one drawn on top
\* where the mouse is, holes in the table or not.
THEOREM ClicksGoToTheTop == Spec => RaisesTheTop
<1> DEFINE Top(w) == /\ Covers(w, mouse)
                     /\ \A i, j \in Used(windows) :
                          (windows[i] = w /\ j > i) => ~Covers(windows[j], mouse)
<1>1. ASSUME WInv, [Next]_vars, NEW w \in Window,
             focused_window' = w, focused_window # w, window_count' = window_count
      PROVE  Top(w)
  <2>1. window_count \in Nat
    BY <1>1, WindowAssumption, UsedFinite DEF WInv, CountExact
  <2>2. ASSUME NEW k, Open(k) PROVE FALSE
    BY <1>1, <2>1, <2>2 DEF Open, window_create, managed
  <2>3. ~UNCHANGED managed
    BY <1>1 DEF managed
  <2>4. ~Frame
    BY <1>1 DEF Frame, window_manager_update, managed
  <2>5. CASE window_handle_mouse
    <3>1. ~ClickClose(mouse)
      BY <1>1, <2>1 DEF ClickClose, CountWithout
    <3>2. Under(mouse) # {} /\ focused_window' = Hit(mouse)
      BY <2>3, <2>5, <3>1 DEF window_handle_mouse, ClickTitle, ClickWindow, window_bring_to_front
    <3> QED BY <1>1, <3>2, WindowAssumption, HitIsTop
  <2>6. ~on_click /\ ~desktop_handle_mouse
    BY <2>2, <2>3 DEF on_click, file_manager_on_click, text_editor_open,
                      desktop_handle_mouse, desktop_open_icon, file_manager_open
  <2>7. ASSUME NEW p \in Point, NEW b \in BOOLEAN, process_packet(p, b) PROVE FALSE
    BY <2>3, <2>7 DEF process_packet
  <2>8. ~UNCHANGED vars
    BY <2>3 DEF vars
  <2> QED BY <1>1, <2>4, <2>5, <2>6, <2>7, <2>8 DEF Next, Loop
<1>2. WInv /\ [Next]_vars =>
        \A w \in Window : (focused_window' = w /\ focused_window # w
          /\ window_count' = window_count) => Top(w)
  BY <1>1
<1> QED BY <1>2, AlwaysWInv, PTL DEF RaisesTheTop, Spec

-----------------------------------------------------------------------------
(* Where the windows are.                                                  *)

Place == [x : Int, y : Int]
PlaceInv ==
  /\ win \in [Window -> [kind : Kind \cup {NULL}, x : Int, y : Int]]
  /\ \A w \in Window : Listed(w) => win[w].kind \in Kind
  /\ drag_offset \in Place /\ mouse \in Place /\ dragging_window \in Window \cup {NULL}
  /\ dragging_window # NULL => win[dragging_window].kind \in Kind

\* The two corrections, in their order, put what fits onto the screen.
LEMMA ClampOnScreen ==
  ASSUME NEW v \in Int, NEW size \in Nat, NEW limit \in Nat
  PROVE  /\ Clamp(v, size, limit) \in Int
         /\ size <= limit => Clamp(v, size, limit) >= 0 /\ Clamp(v, size, limit) + size <= limit
BY DEF Clamp

\* No operation on the table puts another window than w into it.
LEMMA RaisedHolds ==
  ASSUME WindowAssumption, NEW s, NEW w, NEW v, Holds(Raised(s, w), v)
  PROVE  v = w \/ Holds(s, v)
<1>1. PICK i \in Slot : Raised(s, w)[i] = v
  BY DEF Holds
<1>2. i + 1 \in Slot \/ ~(i < MaxWindows)
  BY DEF Slot, WindowAssumption
<1> QED BY <1>1, <1>2 DEF Raised, Holds

\* A window that is added is in the table, with those that were there.
LEMMA AddedHolds ==
  ASSUME NEW s \in Table, NEW w, NEW v, Holds(Added(s, w), v)
  PROVE  v = w \/ Holds(s, v)
BY DEF Added, Holds, Table

StayStep == \A w \in Window : (Moved(w) /\ HasRoom(w)) => OnScreen(w)'

\* A step that moves no window.
LEMMA StillKeeps ==
  ASSUME PlaceInv, win' = win, drag_offset' \in Place, mouse' \in Place,
         dragging_window' \in Window \cup {NULL}, \A v \in Window : Listed(v)' => Listed(v),
         \A v \in Window : dragging_window' = v => v = dragging_window \/ Listed(v)
  PROVE  PlaceInv' /\ StayStep
BY DEF PlaceInv, StayStep, Moved

\* A step that forgets a window, or opens one.
LEMMA PutKeeps ==
  ASSUME PlaceInv, NEW w \in Window, NEW r, win' = [win EXCEPT ![w] = r],
         r = NoWindow \/ (r \in [kind : Kind, x : Int, y : Int] /\ ~Listed(w)),
         drag_offset' \in Place, mouse' \in Place, dragging_window' \in {NULL, dragging_window},
         w # dragging_window',
         \A v \in Window : Listed(v)' => Listed(v) \/ v = w,
         Listed(w)' => r.kind \in Kind
  PROVE  PlaceInv' /\ StayStep
<1>1. r \in [kind : Kind \cup {NULL}, x : Int, y : Int]
  BY DEF NoWindow
<1>2. PlaceInv'
  <2>1. win' \in [Window -> [kind : Kind \cup {NULL}, x : Int, y : Int]]
    BY <1>1 DEF PlaceInv
  <2>2. ASSUME NEW v \in Window, Listed(v)' PROVE win'[v].kind \in Kind
    <3>1. CASE v = w
      BY <1>1, <2>2, <3>1 DEF PlaceInv
    <3>2. CASE v # w
      BY <2>2, <3>2 DEF PlaceInv
    <3> QED BY <3>1, <3>2
  <2> QED BY <2>1, <2>2 DEF PlaceInv
<1>3. ASSUME NEW v \in Window, Moved(v), HasRoom(v) PROVE OnScreen(v)'
  <2>1. v = w /\ Listed(w) /\ r = NoWindow
    BY <1>3 DEF Moved, PlaceInv
  <2>2. win'[w] = NoWindow /\ win'[w].kind = win[w].kind /\ win[w].kind \in Kind
    BY <1>3, <2>1 DEF Moved, PlaceInv
  <2>3. NoWindow.x = 0 /\ NoWindow.y = 0
    BY DEF NoWindow
  <2> QED BY <1>3, <2>1, <2>2, <2>3, WindowAssumption DEF HasRoom, OnScreen
<1> QED BY <1>2, <1>3 DEF StayStep

\* A new window lies where its kind opens.
LEMMA CreatePlace ==
  ASSUME PlaceInv, WInv, NEW k \in Kind, NEW w \in Window, ~Listed(w), w # dragging_window,
         window_create(k, w), mouse' \in Place
  PROVE  PlaceInv' /\ StayStep
<1>1. Opened(k) \in [kind : Kind, x : Int, y : Int]
  BY WindowAssumption DEF Opened
<1>2. ASSUME NEW v \in Window, Listed(v)' PROVE Listed(v) \/ v = w
  <2>1. Holds(Raised(Added(windows, w), w), v)
    BY <1>2 DEF window_create, Listed, Holds
  <2>2. v = w \/ Holds(Added(windows, w), v)
    BY <2>1, RaisedHolds, WindowAssumption
  <2>3. v = w \/ Holds(windows, v)
    BY <2>2, AddedHolds DEF WInv
  <2> QED BY <2>3 DEF Listed, Holds
<1>3. /\ win' = [win EXCEPT ![w] = Opened(k)] /\ UNCHANGED <<dragging_window, drag_offset>>
  BY DEF window_create
<1> QED BY <1>1, <1>2, <1>3, PutKeeps DEF PlaceInv

\* So does one that is opened.
LEMMA OpenPlace ==
  ASSUME PlaceInv, WInv, NEW k \in Kind, Open(k), mouse' = mouse
  PROVE  PlaceInv' /\ StayStep
<1>1. CASE FreeAddresses # {} /\ window_create(k, CHOOSE w \in FreeAddresses : TRUE)
  <2>1. (CHOOSE w \in FreeAddresses : TRUE) \in FreeAddresses
    BY <1>1
  <2> QED  BY <1>1, <2>1, CreatePlace DEF FreeAddresses, PlaceInv
<1>2. CASE NoRoom /\ UNCHANGED managed
  BY <1>2, StillKeeps DEF managed, PlaceInv, Listed
<1> QED  BY <1>1, <1>2 DEF Open

\* A click moves no window.
LEMMA ClickPlace ==
  ASSUME PlaceInv, WInv, ClickClose(mouse) \/ ClickTitle(mouse) \/ ClickWindow(mouse), mouse' = mouse
  PROVE  PlaceInv' /\ StayStep
<1> DEFINE w == Hit(mouse)
<1>1. w \in Window /\ Listed(w)
  BY HitListed, WindowAssumption DEF ClickClose, ClickTitle, ClickWindow
<1> HIDE DEF w
<1>2. ASSUME NEW v \in Window, Holds(Raised(windows, w), v) PROVE Listed(v)
  <2>1. v = w \/ Holds(windows, v)
    BY <1>2, RaisedHolds, WindowAssumption
  <2> QED BY <1>1, <2>1 DEF Listed, Holds
<1>3. CASE ClickClose(mouse)
  <2>1. windows' = Removed(Raised(windows, w), w) /\ UNCHANGED <<dragging_window, drag_offset>>
    BY <1>3 DEF ClickClose, w
  <2>2. ASSUME NEW v \in Window, Listed(v)' PROVE Listed(v) /\ v # w
    <3>1. Holds(Raised(windows, w), v) /\ v # w
      BY <2>1, <2>2, WindowAssumption DEF Listed, Removed, Holds
    <3> QED BY <1>2, <3>1
  <2>3. CASE w = dragging_window
    BY <1>3, <2>1, <2>2, <2>3, StillKeeps DEF ClickClose, w, PlaceInv
  <2>4. CASE w # dragging_window
    <3>1. win' = [win EXCEPT ![w] = NoWindow]
      BY <1>3, <2>4 DEF ClickClose, w, Forgotten
    <3> QED BY <1>1, <2>1, <2>2, <2>4, <3>1, PutKeeps DEF PlaceInv
  <2> QED BY <2>3, <2>4
<1>4. CASE ClickTitle(mouse) \/ ClickWindow(mouse)
  <2>1. windows' = Raised(windows, w) /\ win' = win
    BY <1>4 DEF ClickTitle, ClickWindow, window_bring_to_front, w
  <2>2. ASSUME NEW v \in Window, Listed(v)' PROVE Listed(v)
    BY <1>2, <2>1, <2>2 DEF Listed, Holds
  <2>3. win[w].x \in Int /\ win[w].y \in Int
    BY <1>1 DEF PlaceInv
  <2>4. drag_offset' \in Place /\ dragging_window' \in {dragging_window, w}
    BY <1>1, <1>4, <2>3 DEF ClickTitle, ClickWindow, w, PlaceInv, Place
  <2> QED BY <1>1, <2>1, <2>2, <2>4, StillKeeps DEF PlaceInv
<1> QED BY <1>3, <1>4

\* A dragged window that fits is put on the screen.
LEMMA DragPlace ==
  ASSUME PlaceInv, NEW b, window_manager_update(mouse, b), mouse' = mouse
  PROVE  PlaceInv' /\ StayStep
<1>1. CASE dragging_window # NULL /\ b
  <2> DEFINE w == dragging_window  size == Shape[win[w].kind]
             cx == Clamp(mouse.x - drag_offset.x, size.width, ScreenWidth)
             cy == Clamp(mouse.y - drag_offset.y, size.height, ScreenHeight)
  <2>1. w \in Window /\ win[w].kind \in Kind
          /\ win[w] \in [kind : Kind \cup {NULL}, x : Int, y : Int]
    BY <1>1 DEF PlaceInv
  <2>2. /\ UNCHANGED <<windows, dragging_window, drag_offset>>
        /\ win' = [win EXCEPT ![w].x = cx, ![w].y = cy]
    BY <1>1 DEF window_manager_update, LetGo, managed
  <2>3. size.width \in Nat /\ size.height \in Nat /\ mouse.x - drag_offset.x \in Int
          /\ mouse.y - drag_offset.y \in Int
    BY <2>1, WindowAssumption DEF PlaceInv, Place
  <2>4. /\ cx \in Int /\ (size.width <= ScreenWidth => cx >= 0 /\ cx + size.width <= ScreenWidth)
        /\ cy \in Int /\ (size.height <= ScreenHeight => cy >= 0
             /\ cy + size.height <= ScreenHeight)
    BY <2>3, ClampOnScreen, WindowAssumption
  <2> HIDE DEF cx, cy, w
  <2>5. win' = [win EXCEPT ![w] = [kind |-> win[w].kind, x |-> cx, y |-> cy]]
    <3>1. win' = [win EXCEPT ![w] = [win[w] EXCEPT !.x = cx, !.y = cy]]
      BY <2>1, <2>2 DEF PlaceInv
    <3>2. /\ win[w] = [kind |-> win[w].kind, x |-> win[w].x, y |-> win[w].y]
          /\ win[w].kind \in Kind /\ win[w].x \in Int /\ win[w].y \in Int /\ cx \in Int
               /\ cy \in Int
      BY <2>1, <2>4
    <3>3. [win[w] EXCEPT !.x = cx, !.y = cy] = [kind |-> win[w].kind, x |-> cx, y |-> cy]
      <4>1. \A o : o = [kind |-> win[w].kind, x |-> win[w].x, y |-> win[w].y] =>
                   [o EXCEPT !.x = cx, !.y = cy] = [kind |-> win[w].kind, x |-> cx, y |-> cy]
        <5> SUFFICES ASSUME NEW o, o = [kind |-> win[w].kind, x |-> win[w].x, y |-> win[w].y]
                     PROVE  [o EXCEPT !.x = cx, !.y = cy] = [kind |-> win[w].kind, x |-> cx, y |-> cy]
          OBVIOUS
        <5>1. [o EXCEPT !.x = cx] = [kind |-> win[w].kind, x |-> cx, y |-> win[w].y]
          OBVIOUS
        <5>2. \A p : p = [kind |-> win[w].kind, x |-> cx, y |-> win[w].y]
                     => [p EXCEPT !.y = cy] = [kind |-> win[w].kind, x |-> cx, y |-> cy]
          <6> SUFFICES ASSUME NEW p, p = [kind |-> win[w].kind, x |-> cx, y |-> win[w].y]
                       PROVE  [p EXCEPT !.y = cy] = [kind |-> win[w].kind, x |-> cx, y |-> cy]
            OBVIOUS
          <6> QED OBVIOUS
        <5>3. [[o EXCEPT !.x = cx] EXCEPT !.y = cy] = [kind |-> win[w].kind, x |-> cx, y |-> cy]
          BY <5>1, <5>2, Zenon
        <5> QED BY <5>3
      <4> HIDE DEF w
      <4>2. \A o : o = win[w] => [o EXCEPT !.x = cx, !.y = cy] = [kind |-> win[w].kind, x |-> cx, y |-> cy]
        BY <3>2, <4>1, Zenon
      <4> QED BY <4>2, Zenon
    <3> QED BY <3>1, <3>3
  <2>6. PlaceInv'
    <3>1. win' \in [Window -> [kind : Kind \cup {NULL}, x : Int, y : Int]]
      BY <2>1, <2>4, <2>5 DEF PlaceInv
    <3>2. \A v \in Window : win'[v].kind = win[v].kind /\ Listed(v)' = Listed(v)
      BY <2>1, <2>2, <2>5 DEF PlaceInv, Listed
    <3> QED BY <2>1, <2>2, <3>1, <3>2 DEF PlaceInv, w
  <2>7. ASSUME NEW v \in Window, Moved(v), HasRoom(v) PROVE OnScreen(v)'
    <3>1. v = w
      BY <2>5, <2>7 DEF Moved, PlaceInv
    <3>2. win'[w] = [kind |-> win[w].kind, x |-> cx, y |-> cy]
      BY <2>1, <2>5 DEF PlaceInv
    <3>3. size.width <= ScreenWidth /\ size.height <= ScreenHeight
      BY <2>7, <3>1 DEF HasRoom
    <3>4. cx >= 0 /\ cx + size.width <= ScreenWidth /\ cy >= 0 /\ cy + size.height <= ScreenHeight
      BY <2>4, <3>3
    <3> QED BY <3>1, <3>2, <3>4 DEF OnScreen
  <2> QED BY <2>6, <2>7 DEF StayStep
<1>2. CASE LetGo(b)
  <2>1. /\ dragging_window \in Window /\ dragging_window' = NULL /\ drag_offset' \in Place
        /\ UNCHANGED windows /\ NULL \notin Window
    BY <1>2, WindowAssumption DEF window_manager_update, LetGo, managed, PlaceInv, NoOffset, Place
  <2>2. win' = IF Listed(dragging_window) THEN win ELSE [win EXCEPT ![dragging_window] = NoWindow]
    BY <1>2 DEF window_manager_update, LetGo, managed, Forgotten
  <2>3. \A v \in Window : Listed(v)' = Listed(v)
    BY <2>1 DEF Listed
  <2>4. CASE Listed(dragging_window)
    BY <2>1, <2>2, <2>3, <2>4, StillKeeps DEF PlaceInv
  <2>5. CASE ~Listed(dragging_window)
    BY <2>1, <2>2, <2>3, <2>5, PutKeeps DEF PlaceInv
  <2> QED BY <2>4, <2>5
<1>3. CASE UNCHANGED managed
  BY <1>3, StillKeeps DEF managed, PlaceInv, Listed
<1> QED BY <1>1, <1>2, <1>3 DEF window_manager_update

\* Where windows are, and that drags keep them on the screen.
LEMMA AlwaysPlaced == Spec => [](WInv /\ PlaceInv) /\ [][StayStep]_vars
<1>1. Init => PlaceInv
  <2>1. ScreenWidth \div 2 \in Int /\ ScreenHeight \div 2 \in Int
    BY WindowAssumption
  <2>2. ASSUME Init, NEW v \in Window PROVE ~Listed(v)
    BY <2>2, WindowAssumption DEF Init, ManagerInit, Listed
  <2>3. NoWindow \in [kind : Kind \cup {NULL}, x : Int, y : Int] /\ NoOffset \in Place
    BY DEF NoWindow, NoOffset, Place
  <2>4. Init => win \in [Window -> [kind : Kind \cup {NULL}, x : Int, y : Int]]
    BY <2>3 DEF Init, ManagerInit
  <2>5. Init => mouse \in Place /\ drag_offset \in Place /\ dragging_window = NULL
    BY <2>1, <2>3 DEF Init, ManagerInit, Place
  <2> QED BY <2>2, <2>4, <2>5 DEF PlaceInv
<1>2. WInv /\ PlaceInv /\ [Next]_vars => PlaceInv' /\ StayStep
  <2> SUFFICES ASSUME WInv, PlaceInv, [Next]_vars PROVE PlaceInv' /\ StayStep
    OBVIOUS
  <2>1. ASSUME UNCHANGED managed, mouse' \in Place PROVE PlaceInv' /\ StayStep
    BY <2>1, StillKeeps DEF managed, PlaceInv, Listed
  <2>2. mouse \in Place
    BY DEF PlaceInv
  <2>3. CASE Frame
    BY <2>3, DragPlace DEF Frame
  <2>4. CASE window_handle_mouse
    BY <2>1, <2>2, <2>4, ClickPlace DEF window_handle_mouse
  <2>5. CASE on_click
    BY <2>1, <2>2, <2>5, OpenPlace, GuiAssumption DEF on_click, file_manager_on_click,
       text_editor_open
  <2>6. CASE desktop_handle_mouse
    BY <2>1, <2>2, <2>6, OpenPlace, GuiAssumption
       DEF desktop_handle_mouse, desktop_open_icon, file_manager_open, text_editor_open
  <2>7. ASSUME NEW p \in Point, NEW c \in BOOLEAN, process_packet(p, c) PROVE PlaceInv' /\ StayStep
    BY <2>1, <2>7, WindowAssumption DEF process_packet, Place
  <2>8. CASE UNCHANGED vars
    BY <2>1, <2>2, <2>8 DEF vars
  <2> QED BY <2>3, <2>4, <2>5, <2>6, <2>7, <2>8 DEF Next, Loop
<1> QED BY <1>1, <1>2, AlwaysWInv, PTL DEF Spec

\* window_manager.c:186-191: "Keep window on screen" holds of every window that
\* fits on it, wherever the mouse takes it by whichever point.
THEOREM DragsStayOnScreen == Spec => StaysOnScreen
BY AlwaysPlaced, PTL DEF StaysOnScreen, StayStep

-----------------------------------------------------------------------------
(* The file manager. Only file_manager_open and a click into its list      *)
(* change the list or the path, and both read the directory anew.          *)

\* An opened manager lists the root, or has no window.
LEMMA ListOfOpen ==
  ASSUME file_manager_open
  PROVE  ListIsOfPath'
BY Zenon DEF file_manager_open, ListIsOfPath

\* What changes neither list nor path.
LEMMA ListKept ==
  ASSUME ListIsOfPath, UNCHANGED <<files, path>>
  PROVE  ListIsOfPath'
BY DEF ListIsOfPath

\* A click into the list.
LEMMA ListOfClick ==
  ASSUME ListIsOfPath, NEW y, file_manager_on_click(y)
  PROVE  ListIsOfPath'
<1> DEFINE row == (y - 38) \div 16 + 1
<1>1. CASE path' = Enter(files[row]) /\ files' = Refreshed(path')
  BY <1>1, Zenon DEF ListIsOfPath, Refreshed
<1>2. CASE UNCHANGED <<files, path>>
  BY <1>2, ListKept
<1> QED BY <1>1, <1>2, Zenon DEF file_manager_on_click

\* Every step.
LEMMA ListStep ==
  ASSUME ListIsOfPath, [Next]_vars
  PROVE  ListIsOfPath'
<1>1. ASSUME UNCHANGED <<files, path>> PROVE ListIsOfPath'
  BY <1>1, ListKept
<1>2. CASE Frame \/ window_handle_mouse \/ UNCHANGED vars
  BY <1>1, <1>2 DEF Frame, window_handle_mouse, vars
<1>3. CASE on_click
  BY <1>3, ListOfClick DEF on_click
<1>4. CASE desktop_handle_mouse
  <2>1. CASE \E i \in DOMAIN Icons : desktop_open_icon(i)
    BY <1>1, <2>1, ListOfOpen, Zenon DEF desktop_open_icon
  <2>2. CASE UNCHANGED <<files, path>>
    BY <1>1, <2>2
  <2> QED BY <1>4, <2>1, <2>2 DEF desktop_handle_mouse
<1>5. ASSUME NEW p \in Point, NEW b \in BOOLEAN, process_packet(p, b) PROVE ListIsOfPath'
  BY <1>1, <1>5 DEF process_packet
<1> QED BY <1>2, <1>3, <1>4, <1>5 DEF Next, Loop

\* Whichever icons and rows are clicked, what the manager lists is the directory
\* it shows the path of: file_manager_open starts at the root with its list,
\* file_manager_on_click lists again wherever it goes.
THEOREM ListFollowsPath == Spec => []ListIsOfPath
<1>1. Init => ListIsOfPath
  BY DEF Init, ListIsOfPath
<1> QED BY <1>1, ListStep, PTL DEF Spec

-----------------------------------------------------------------------------
(* The table as a stack. UpTo is a recursive function: that it exists is   *)
(* shown first, and what it gives by induction over the slots.             *)

\* Induction on numbers.
LEMMA Induct ==
  ASSUME NEW T, 0 \in T, \A i \in Nat : i \in T => i + 1 \in T
  PROVE  \A i \in Nat : i \in T
<1> DEFINE Rest == Nat \ T
<1> SUFFICES ASSUME Rest # {} PROVE FALSE
  OBVIOUS
<1>1. PICK m \in Rest : \A k \in Rest : m <= k
  BY Least
<1>2. m \in Nat /\ m # 0 /\ m - 1 \in Nat /\ (m - 1) + 1 = m
  BY <1>1
<1>3. m - 1 \in T
  BY <1>1, <1>2
<1> QED  BY <1>1, <1>2, <1>3

\* A sequence without its p-th element.
LEMMA Removal ==
  ASSUME NEW S, NEW q \in Seq(S), NEW p \in 1 .. Len(q)
  PROVE  /\ RemoveAt(q, p) \in Seq(S) /\ Len(RemoveAt(q, p)) = Len(q) - 1
         /\ \A k \in 1 .. (Len(q) - 1) : RemoveAt(q, p)[k] = IF k < p THEN q[k] ELSE q[k + 1]
<1> DEFINE n == Len(q)
           a == SubSeq(q, 1, p - 1)
           b == SubSeq(q, p + 1, n)
<1>1. n \in Nat /\ p \in 1 .. n /\ \A k \in 1 .. n : q[k] \in S
  OBVIOUS
<1>2. a \in Seq(S) /\ Len(a) = p - 1 /\ \A k \in 1 .. (p - 1) : a[k] = q[k]
  <2>1. \A k \in 1 .. (p - 1) : q[k] \in S
    BY <1>1
  <2>2. /\ 1 \in Int /\ p - 1 \in Int /\ (p - 1) - 1 + 1 = p - 1
        /\ (IF 1 <= p - 1 THEN (p - 1) - 1 + 1 ELSE 0) = p - 1
    BY <1>1
  <2>3. PICK m : m = p - 1
    OBVIOUS
  <2>4. /\ SubSeq(q, 1, m) \in Seq(S) /\ Len(SubSeq(q, 1, m)) = IF 1 <= m THEN m - 1 + 1 ELSE 0
        /\ \A k \in 1 .. (m - 1 + 1) : SubSeq(q, 1, m)[k] = q[1 + k - 1]
    BY <2>1, <2>2, <2>3, SubSeqProperties
  <2> QED  BY <1>1, <2>3, <2>4
<1>3. b \in Seq(S) /\ Len(b) = n - p /\ \A k \in 1 .. (n - p) : b[k] = q[p + k]
  <2>1. \A k \in (p + 1) .. n : q[k] \in S
    BY <1>1
  <2>2. PICK m : m = p + 1
    OBVIOUS
  <2>3. m \in Int /\ n \in Int /\ \A k \in m .. n : q[k] \in S
    BY <1>1, <2>1, <2>2
  <2> HIDE DEF n
  <2>4. /\ SubSeq(q, m, n) \in Seq(S) /\ Len(SubSeq(q, m, n)) = IF m <= n THEN n - m + 1 ELSE 0
        /\ \A k \in 1 .. (n - m + 1) : SubSeq(q, m, n)[k] = q[m + k - 1]
    BY <2>3, SubSeqProperties
  <2> QED  BY <1>1, <2>2, <2>4
<1>4. RemoveAt(q, p) = a \o b
  BY DEF RemoveAt
<1> HIDE DEF a, b, n
<1>5. /\ a \o b \in Seq(S) /\ Len(a \o b) = n - 1
      /\ \A k \in 1 .. (n - 1) : (a \o b)[k] = IF k <= p - 1 THEN a[k] ELSE b[k - (p - 1)]
  <2>1. Len(a) + Len(b) = n - 1
    BY <1>1, <1>2, <1>3
  <2> QED  BY <1>2, <1>3, <2>1, ConcatProperties
<1>6. ASSUME NEW k \in 1 .. (n - 1) PROVE (a \o b)[k] = IF k < p THEN q[k] ELSE q[k + 1]
  <2>1. CASE k < p
    BY <1>1, <1>2, <1>5, <2>1
  <2>2. CASE ~(k < p)
    <3>1. k - (p - 1) \in 1 .. (n - p) /\ p + (k - (p - 1)) = k + 1 /\ ~(k <= p - 1)
      BY <1>1, <2>2
    <3> QED  BY <1>3, <1>5, <2>2, <3>1
  <2> QED  BY <2>1, <2>2
<1> QED  BY <1>4, <1>5, <1>6 DEF n

\* Without its last element, a sequence is what that was appended to.
LEMMA RemoveLast ==
  ASSUME NEW S, NEW q \in Seq(S), NEW x \in S
  PROVE  RemoveAt(Append(q, x), Len(q) + 1) = q
<1> DEFINE n == Len(q)
           t == Append(q, x)
<1>1. n \in Nat /\ t \in Seq(S) /\ Len(t) = n + 1 /\ \A k \in 1 .. n : t[k] = q[k]
  OBVIOUS
<1> HIDE DEF t, n
<1>2. PICK p : p = n + 1
  OBVIOUS
<1>3. /\ RemoveAt(t, p) \in Seq(S) /\ Len(RemoveAt(t, p)) = Len(t) - 1
      /\ \A k \in 1 .. (Len(t) - 1) : RemoveAt(t, p)[k] = IF k < p THEN t[k] ELSE t[k + 1]
  <2>1. t \in Seq(S) /\ p \in 1 .. Len(t)
    BY <1>1, <1>2
  <2> QED  BY <2>1, Removal
<1>4. Len(RemoveAt(t, p)) = n /\ \A k \in 1 .. n : RemoveAt(t, p)[k] = q[k]
  BY <1>1, <1>2, <1>3
<1>5. RemoveAt(t, p) = q
  BY <1>3, <1>4, SeqEqual DEF n
<1> QED  BY <1>2, <1>5 DEF t, n

\* Taking an earlier element out commutes with appending.
LEMMA RemoveEarlier ==
  ASSUME NEW S, NEW q \in Seq(S), NEW x \in S, NEW p \in 1 .. Len(q)
  PROVE  RemoveAt(Append(q, x), p) = Append(RemoveAt(q, p), x)
<1>0. PICK n, t, u, v : /\ n = Len(q) /\ t = Append(q, x)
                        /\ u = RemoveAt(q, p) /\ v = Append(u, x)
  OBVIOUS
<1>1. n \in Nat /\ t \in Seq(S) /\ Len(t) = n + 1 /\ (\A k \in 1 .. n : t[k] = q[k]) /\ t[n + 1] = x
  BY <1>0
<1>2. /\ u \in Seq(S) /\ Len(u) = n - 1 /\ n - 1 \in Nat
      /\ \A k \in 1 .. (n - 1) : u[k] = IF k < p THEN q[k] ELSE q[k + 1]
  BY <1>0, Removal
<1>3. v \in Seq(S) /\ Len(v) = n /\ (\A k \in 1 .. (n - 1) : v[k] = u[k]) /\ v[n] = x
  BY <1>0, <1>1, <1>2
<1>4. p \in 1 .. Len(t)
  BY <1>0, <1>1
<1>5. /\ RemoveAt(t, p) \in Seq(S) /\ Len(RemoveAt(t, p)) = n
      /\ \A k \in 1 .. n : RemoveAt(t, p)[k] = IF k < p THEN t[k] ELSE t[k + 1]
  <2>1. /\ RemoveAt(t, p) \in Seq(S) /\ Len(RemoveAt(t, p)) = Len(t) - 1
        /\ \A k \in 1 .. (Len(t) - 1) : RemoveAt(t, p)[k] = IF k < p THEN t[k] ELSE t[k + 1]
    <3>1. t \in Seq(S)
      BY <1>1
    <3> QED  BY <1>4, <3>1, Removal
  <2>2. Len(t) - 1 = n
    BY <1>1
  <2> QED  BY <2>1, <2>2
<1>6. ASSUME NEW k \in 1 .. n PROVE RemoveAt(t, p)[k] = v[k]
  <2>1. CASE k < p
    <3>1. k \in 1 .. (n - 1)
      BY <1>0, <1>1, <2>1
    <3>2. v[k] = q[k]
      BY <1>2, <1>3, <2>1, <3>1
    <3>3. RemoveAt(t, p)[k] = q[k]
      BY <1>1, <1>5, <2>1
    <3> QED  BY <3>2, <3>3
  <2>2. CASE ~(k < p) /\ k < n
    <3>1. k \in 1 .. (n - 1) /\ k + 1 \in 1 .. n
      BY <1>1, <2>2
    <3>2. v[k] = q[k + 1]
      BY <1>2, <1>3, <2>2, <3>1
    <3>3. RemoveAt(t, p)[k] = t[k + 1] /\ t[k + 1] = q[k + 1]
      BY <1>1, <1>5, <2>2, <3>1
    <3> QED  BY <3>2, <3>3
  <2>3. CASE ~(k < p) /\ k = n
    BY <1>0, <1>1, <1>3, <1>5, <2>3
  <2> QED  BY <1>1, <2>1, <2>2, <2>3
<1>7. RemoveAt(t, p) = v
  BY <1>3, <1>5, <1>6, SeqEqual
<1> QED  BY <1>0, <1>7

\* A slot on top of what is below it.
Put(q, x) == IF x = NULL THEN q ELSE Append(q, x)

\* The recursion that defines UpTo has a solution.
LEMMA UpToDefined ==
  ASSUME NEW s
  PROVE  UpTo(s) = [i \in 0 .. MaxWindows |->
           IF i = 0 THEN <<>>
           ELSE Put(UpTo(s)[i - 1], s[i])]
<1> DEFINE Solves(f, m) == f = [i \in 0 .. m |-> IF i = 0 THEN <<>> ELSE Put(f[i - 1], s[i])]
           T == {m \in Nat : \E f : Solves(f, m)}
<1>1. 0 \in T
  <2>1. Solves([i \in 0 .. 0 |-> <<>>], 0)
    OBVIOUS
  <2> QED  BY <2>1
<1>2. ASSUME NEW m \in Nat, m \in T PROVE m + 1 \in T
  <2>1. PICK w : Solves(w, m)
    BY <1>2
  <2> DEFINE u == [i \in 0 .. m + 1 |-> IF i = 0 THEN <<>> ELSE Put(w[i - 1], s[i])]
  <2>2. \A j \in 0 .. m : w[j] = IF j = 0 THEN <<>> ELSE Put(w[j - 1], s[j])
    BY <2>1
  <2>3. \A i \in 1 .. m + 1 : i - 1 \in 0 .. m /\ u[i - 1] = w[i - 1]
    BY <2>2
  <2> HIDE DEF u
  <2>4. ASSUME NEW i \in 0 .. m + 1
        PROVE  (IF i = 0 THEN <<>> ELSE Put(w[i - 1], s[i])) = (IF i = 0 THEN <<>> ELSE Put(u[i - 1], s[i]))
    BY <2>3
  <2>5. u = [i \in 0 .. m + 1 |-> IF i = 0 THEN <<>> ELSE Put(u[i - 1], s[i])]
    BY <2>4 DEF u
  <2>6. Solves(u, m + 1)
    BY <2>5
  <2> HIDE DEF Solves
  <2> QED  BY <2>6
<1>3. \E f : Solves(f, MaxWindows)
  <2>1. \A m \in Nat : m \in T
    <3> HIDE DEF T
    <3> QED  BY <1>1, <1>2, Induct
  <2> QED  BY <2>1, WindowAssumption
<1>4. Solves(UpTo(s), MaxWindows)
  BY <1>3 DEF UpTo, Put
<1> QED  BY <1>4

\* The slots below the first hold nothing, and each that follows is put on top.
LEMMA UpToSteps ==
  ASSUME NEW s
  PROVE  /\ UpTo(s)[0] = <<>>
         /\ \A i \in Slot : UpTo(s)[i] = Put(UpTo(s)[i - 1], s[i])
<1> DEFINE f == UpTo(s)
<1>1. f = [i \in 0 .. MaxWindows |-> IF i = 0 THEN <<>> ELSE Put(f[i - 1], s[i])]
  BY UpToDefined
<1> HIDE DEF f
<1>2. \A i \in 0 .. MaxWindows : f[i] = IF i = 0 THEN <<>> ELSE Put(f[i - 1], s[i])
  BY <1>1
<1>3. MaxWindows \in Nat \ {0} /\ 0 \in 0 .. MaxWindows /\ \A i \in Slot : i \in 0 .. MaxWindows
        /\ i # 0
  BY WindowAssumption DEF Slot
<1> QED  BY <1>2, <1>3 DEF f

\* Induction over the slots from the a-th on.
LEMMA SlotInduct ==
  ASSUME NEW T, NEW a \in Nat, NEW z \in Nat, a \in T,
         \A i \in Nat : (a <= i /\ i < z /\ i \in T) => i + 1 \in T
  PROVE  \A i \in Nat : a <= i /\ i <= z => i \in T
<1> DEFINE R == {i \in Nat : a <= i /\ i <= z => i \in T}
<1>1. 0 \in R
  OBVIOUS
<1>2. ASSUME NEW i \in Nat, i \in R PROVE i + 1 \in R
  <2>1. CASE a = i + 1
    BY <2>1
  <2>2. CASE a # i + 1
    <3> SUFFICES ASSUME a <= i + 1, i + 1 <= z PROVE i + 1 \in T
      OBVIOUS
    <3>1. a <= i /\ i < z
      BY <2>2
    <3> QED  BY <1>2, <3>1
  <2> QED  BY <2>1, <2>2
<1> HIDE DEF R
<1>3. \A i \in Nat : i \in R
  BY <1>1, <1>2, Induct
<1> QED  BY <1>3 DEF R

\* What is in the slots up to the i-th: windows of these slots, at most one of each.
LEMMA UpToSeq ==
  ASSUME NEW s \in Table
  PROVE  \A i \in Nat : 0 <= i /\ i <= MaxWindows =>
           /\ UpTo(s)[i] \in Seq(Window) /\ Len(UpTo(s)[i]) <= i
           /\ \A k \in 1 .. Len(UpTo(s)[i]) : \E j \in 1 .. i : UpTo(s)[i][k] = s[j]
<1> DEFINE Fine(q, i) == /\ q \in Seq(Window) /\ Len(q) <= i
                         /\ \A k \in 1 .. Len(q) : \E j \in 1 .. i : q[k] = s[j]
           T == {i \in Nat : Fine(UpTo(s)[i], i)}
<1>1. 0 \in T
  <2>1. UpTo(s)[0] = <<>>
    BY UpToSteps
  <2>2. Fine(<<>>, 0)
    OBVIOUS
  <2> QED  BY <2>1, <2>2
<1>2. ASSUME NEW i \in Nat, 0 <= i, i < MaxWindows, i \in T PROVE i + 1 \in T
  <2>1. PICK q, x : q = UpTo(s)[i] /\ x = s[i + 1]
    OBVIOUS
  <2>2. i + 1 \in Slot /\ x \in Window \cup {NULL} /\ (i + 1) - 1 = i /\ i + 1 \in Nat
    BY <1>2, <2>1, WindowAssumption DEF Slot, Table
  <2>3. UpTo(s)[i + 1] = Put(q, x)
    BY <2>1, <2>2, UpToSteps
  <2>4. Fine(q, i)
    BY <1>2, <2>1
  <2>5. Fine(Put(q, x), i + 1)
    <3>1. CASE x = NULL
      BY <2>4, <3>1 DEF Put
    <3>2. CASE x # NULL
      <4>1. Put(q, x) = Append(q, x) /\ x \in Window
        BY <2>2, <3>2 DEF Put
      <4>2. PICK t, n : t = Append(q, x) /\ n = Len(q)
        OBVIOUS
      <4>3. /\ t \in Seq(Window) /\ n \in Nat /\ n <= i /\ Len(t) = n + 1
            /\ (\A k \in 1 .. n : t[k] = q[k]) /\ t[n + 1] = x
        BY <2>4, <4>1, <4>2
      <4>4. ASSUME NEW k \in 1 .. (n + 1) PROVE \E j \in 1 .. (i + 1) : t[k] = s[j]
        <5>1. CASE k = n + 1
          BY <2>1, <2>2, <4>3, <5>1
        <5>2. CASE k # n + 1
          <6>1. k \in 1 .. n
            BY <4>3, <5>2
          <6>2. PICK j \in 1 .. i : q[k] = s[j]
            BY <2>4, <4>2, <6>1
          <6>3. j \in 1 .. (i + 1)
            OBVIOUS
          <6> QED  BY <4>3, <6>1, <6>2, <6>3
        <5> QED  BY <5>1, <5>2
      <4>5. Fine(t, i + 1)
        BY <4>3, <4>4
      <4> QED  BY <4>1, <4>2, <4>5
    <3> QED  BY <3>1, <3>2
  <2> HIDE DEF Fine
  <2> QED  BY <2>2, <2>3, <2>5
<1>3. \A i \in Nat : 0 <= i /\ i <= MaxWindows => i \in T
  <2> HIDE DEF T
  <2>1. 0 \in Nat /\ MaxWindows \in Nat
    BY WindowAssumption
  <2> QED  BY <1>1, <1>2, <2>1, SlotInduct
<1> QED  BY <1>3

\* Tables that are alike up to a slot.
LEMMA UpToAlike ==
  ASSUME NEW s, NEW t, NEW a \in Nat, a <= MaxWindows, \A j \in 1 .. a : s[j] = t[j]
  PROVE  \A i \in Nat : 0 <= i /\ i <= a => UpTo(t)[i] = UpTo(s)[i]
<1> DEFINE T == {i \in Nat : UpTo(t)[i] = UpTo(s)[i]}
<1>1. 0 \in T
  BY UpToSteps
<1>2. ASSUME NEW i \in Nat, 0 <= i, i < a, i \in T PROVE i + 1 \in T
  <2>1. i + 1 \in Slot /\ (i + 1) - 1 = i /\ i + 1 \in Nat /\ i + 1 \in 1 .. a
    BY <1>2, WindowAssumption DEF Slot
  <2>2. UpTo(s)[i + 1] = Put(UpTo(s)[i], s[i + 1]) /\ UpTo(t)[i + 1] = Put(UpTo(t)[i], t[i + 1])
    BY <2>1, UpToSteps
  <2>3. UpTo(t)[i] = UpTo(s)[i] /\ s[i + 1] = t[i + 1]
    BY <1>2, <2>1
  <2> QED  BY <2>1, <2>2, <2>3
<1>3. \A i \in Nat : 0 <= i /\ i <= a => i \in T
  <2> HIDE DEF T
  <2> QED  BY <1>1, <1>2, SlotInduct
<1> QED  BY <1>3

\* The slots from the a-th on moved down by one, over a slot that was free.
MovedDown(s, t, a) == /\ \A j \in 1 .. (a - 1) : t[j] = s[j]
                      /\ \A j \in a .. (MaxWindows - 1) : t[j] = s[j + 1]

\* What lies in the slots is then the same.
LEMMA UpToHole ==
  ASSUME NEW s, NEW t, NEW a \in Slot, s[a] = NULL, MovedDown(s, t, a)
  PROVE  \A i \in Nat : a - 1 <= i /\ i <= MaxWindows - 1 => UpTo(t)[i] = UpTo(s)[i + 1]
<1> DEFINE T == {i \in Nat : UpTo(t)[i] = UpTo(s)[i + 1]}
<1>0. PICK b, z : b = a - 1 /\ z = MaxWindows - 1
  OBVIOUS
<1>1. b \in Nat /\ z \in Nat /\ b + 1 = a /\ b <= MaxWindows /\ z + 1 = MaxWindows
  BY <1>0, WindowAssumption DEF Slot
<1>2. b \in T
  <2>1. \A j \in 1 .. b : s[j] = t[j]
    BY <1>0 DEF MovedDown
  <2>2. UpTo(t)[b] = UpTo(s)[b]
    BY <1>1, <2>1, UpToAlike
  <2>3. UpTo(s)[a] = Put(UpTo(s)[b], NULL)
    BY <1>0, UpToSteps
  <2> QED  BY <1>1, <2>2, <2>3 DEF Put
<1>3. ASSUME NEW i \in Nat, b <= i, i < z, i \in T PROVE i + 1 \in T
  <2>1. PICK k : k = i + 1
    OBVIOUS
  <2>2. k \in Slot /\ k - 1 = i /\ k + 1 \in Slot /\ (k + 1) - 1 = k /\ k \in Nat
    BY <1>1, <1>3, <2>1, WindowAssumption DEF Slot
  <2>3. t[k] = s[k + 1]
    <3>1. k \in a .. (MaxWindows - 1)
      BY <1>1, <1>3, <2>1
    <3> QED  BY <3>1 DEF MovedDown
  <2>4. UpTo(s)[k + 1] = Put(UpTo(s)[k], s[k + 1]) /\ UpTo(t)[k] = Put(UpTo(t)[i], t[k])
    BY <2>2, UpToSteps
  <2>5. UpTo(t)[i] = UpTo(s)[k]
    BY <1>3, <2>1
  <2> QED  BY <2>1, <2>2, <2>3, <2>4, <2>5
<1>4. \A i \in Nat : b <= i /\ i <= z => i \in T
  <2> HIDE DEF T
  <2> QED  BY <1>1, <1>2, <1>3, SlotInduct
<1> QED  BY <1>0, <1>4

\* The same over a slot in use: its window is gone, the others are in their order.
LEMMA UpToWithout ==
  ASSUME NEW s \in Table, NEW t, NEW a \in Slot, s[a] # NULL, MovedDown(s, t, a)
  PROVE  \A i \in Nat : a - 1 <= i /\ i <= MaxWindows - 1 =>
           /\ Len(UpTo(s)[a]) \in 1 .. Len(UpTo(s)[i + 1])
           /\ UpTo(s)[i + 1][Len(UpTo(s)[a])] = s[a]
           /\ UpTo(t)[i] = RemoveAt(UpTo(s)[i + 1], Len(UpTo(s)[a]))
<1>0. PICK b, z, p : b = a - 1 /\ z = MaxWindows - 1 /\ p = Len(UpTo(s)[a])
  OBVIOUS
<1> DEFINE Fine(q, u) == p \in 1 .. Len(q) /\ q[p] = s[a] /\ u = RemoveAt(q, p)
           T == {i \in Nat : Fine(UpTo(s)[i + 1], UpTo(t)[i])}
<1>1. b \in Nat /\ z \in Nat /\ b + 1 = a /\ b <= MaxWindows /\ z + 1 = MaxWindows /\ a \in Nat
        /\ a <= MaxWindows
  BY <1>0, WindowAssumption DEF Slot
<1>2. b \in T
  <2>1. \A j \in 1 .. b : s[j] = t[j]
    BY <1>0 DEF MovedDown
  <2>2. UpTo(t)[b] = UpTo(s)[b]
    BY <1>1, <2>1, UpToAlike
  <2>3. PICK q, w : q = UpTo(s)[b] /\ w = s[a]
    OBVIOUS
  <2>4. q \in Seq(Window) /\ w \in Window
    BY <1>1, <2>3, UpToSeq DEF Table
  <2>5. UpTo(s)[a] = Append(q, w)
    BY <1>0, <2>3, UpToSteps DEF Put
  <2>6. p = Len(q) + 1 /\ p \in 1 .. Len(Append(q, w)) /\ Append(q, w)[p] = w
    BY <1>0, <2>4, <2>5
  <2>7. RemoveAt(Append(q, w), Len(q) + 1) = q
    BY <2>4, RemoveLast
  <2>8. Fine(Append(q, w), q)
    BY <2>3, <2>6, <2>7
  <2> HIDE DEF Fine
  <2> QED  BY <1>1, <2>2, <2>3, <2>5, <2>8
<1>3. ASSUME NEW i \in Nat, b <= i, i < z, i \in T PROVE i + 1 \in T
  <2>1. PICK k, q, x, u : k = i + 1 /\ q = UpTo(s)[k] /\ x = s[k + 1] /\ u = UpTo(t)[i]
    OBVIOUS
  <2>2. k \in Slot /\ k - 1 = i /\ k + 1 \in Slot /\ (k + 1) - 1 = k /\ k \in Nat /\ k <= MaxWindows
    BY <1>1, <1>3, <2>1, WindowAssumption DEF Slot
  <2>3. t[k] = x
    <3>1. k \in a .. (MaxWindows - 1)
      BY <1>1, <1>3, <2>1
    <3> QED  BY <2>1, <3>1 DEF MovedDown
  <2>4. UpTo(s)[k + 1] = Put(q, x) /\ UpTo(t)[k] = Put(u, x)
    BY <2>1, <2>2, <2>3, UpToSteps
  <2>5. Fine(q, u)
    BY <1>3, <2>1
  <2>6. q \in Seq(Window) /\ x \in Window \cup {NULL}
    BY <2>1, <2>2, UpToSeq DEF Table
  <2>7. Fine(Put(q, x), Put(u, x))
    <3>1. CASE x = NULL
      BY <2>5, <3>1 DEF Put
    <3>2. CASE x # NULL
      <4>1. RemoveAt(Append(q, x), p) = Append(RemoveAt(q, p), x)
        BY <2>5, <2>6, <3>2, RemoveEarlier
      <4>2. p \in 1 .. Len(Append(q, x)) /\ Append(q, x)[p] = q[p]
        BY <2>5, <2>6, <3>2
      <4> QED  BY <2>5, <3>2, <4>1, <4>2 DEF Put
    <3> QED  BY <3>1, <3>2
  <2> HIDE DEF Fine
  <2> QED  BY <2>1, <2>2, <2>4, <2>7
<1>4. \A i \in Nat : b <= i /\ i <= z => i \in T
  <2> HIDE DEF T
  <2> QED  BY <1>1, <1>2, <1>3, SlotInduct
<1> QED  BY <1>0, <1>4

\* The window on top of a stack, if there is one.
TopOf(q) == IF q = <<>> THEN NULL ELSE q[Len(q)]

\* The windows in use are windows of the table.
LEMMA InUseSeq ==
  ASSUME NEW s \in Table
  PROVE  /\ InUse(s) \in Seq(Window)
         /\ \A k \in 1 .. Len(InUse(s)) : Holds(s, InUse(s)[k])
<1>1. MaxWindows \in Nat /\ 0 <= MaxWindows /\ MaxWindows <= MaxWindows
  BY WindowAssumption
<1>2. /\ UpTo(s)[MaxWindows] \in Seq(Window)
      /\ \A k \in 1 .. Len(UpTo(s)[MaxWindows]) : \E j \in 1 .. MaxWindows : UpTo(s)[MaxWindows][k] = s[j]
  BY <1>1, UpToSeq
<1> QED BY <1>2 DEF InUse, Holds, Slot

\* Free slots add nothing.
LEMMA UpToFree ==
  ASSUME NEW s, NEW a \in Nat, a <= MaxWindows, \A j \in Slot : j > a => s[j] = NULL
  PROVE  InUse(s) = UpTo(s)[a]
<1> DEFINE T == {i \in Nat : UpTo(s)[i] = UpTo(s)[a]}
<1>1. a \in T
  OBVIOUS
<1>2. ASSUME NEW i \in Nat, a <= i, i < MaxWindows, i \in T PROVE i + 1 \in T
  <2>1. i + 1 \in Slot /\ (i + 1) - 1 = i /\ i + 1 > a
    BY <1>2, WindowAssumption DEF Slot
  <2>2. UpTo(s)[i + 1] = Put(UpTo(s)[i], NULL)
    BY <2>1, UpToSteps
  <2>3. UpTo(s)[i + 1] = UpTo(s)[i]
    BY <2>2 DEF Put
  <2> QED BY <1>2, <2>3
<1>3. \A i \in Nat : a <= i /\ i <= MaxWindows => i \in T
  <2> HIDE DEF T
  <2>1. MaxWindows \in Nat
    BY WindowAssumption
  <2> QED BY <1>1, <1>2, <2>1, SlotInduct
<1>4. MaxWindows \in Nat /\ a <= MaxWindows /\ MaxWindows <= MaxWindows
  BY WindowAssumption
<1> QED BY <1>3, <1>4 DEF InUse

\* The window of the highest slot in use is the one on top.
LEMMA TopInUse ==
  ASSUME NEW s \in Table
  PROVE  TopOf(InUse(s)) = Topmost(s)
<1>1. CASE Used(s) = {}
  <2>1. \A j \in Slot : s[j] = NULL
    BY <1>1 DEF Used
  <2>2. 0 \in Nat /\ 0 <= MaxWindows
    BY WindowAssumption
  <2>3. InUse(s) = UpTo(s)[0]
    BY <2>1, <2>2, UpToFree
  <2>4. InUse(s) = <<>>
    BY <2>3, UpToSteps
  <2> QED BY <1>1, <2>4 DEF TopOf, Topmost
<1>2. CASE Used(s) # {}
  <2>1. PICK h : h = Highest(Used(s))
    OBVIOUS
  <2>2. Used(s) \in SUBSET Slot
    BY DEF Used
  <2>3. h \in Used(s) /\ \A j \in Used(s) : j <= h
    BY <1>2, <2>1, <2>2, WindowAssumption, HighestSlot
  <2>4. h \in Slot /\ h \in Nat /\ h <= MaxWindows /\ s[h] \in Window /\ s[h] # NULL
    BY <2>3, WindowAssumption DEF Used, Slot, Table
  <2>5. \A j \in Slot : j > h => s[j] = NULL
    BY <2>3, <2>4 DEF Used, Slot
  <2>6. InUse(s) = UpTo(s)[h]
    BY <2>4, <2>5, UpToFree
  <2>7. PICK q, x : q = UpTo(s)[h - 1] /\ x = s[h]
    OBVIOUS
  <2>8. q \in Seq(Window)
    <3>1. PICK g : g = h - 1
      OBVIOUS
    <3>2. g \in Nat /\ 0 <= g /\ g <= MaxWindows
      BY <2>4, <3>1, WindowAssumption DEF Slot
    <3>3. UpTo(s)[g] \in Seq(Window)
      BY <3>2, UpToSeq
    <3> QED BY <2>7, <3>1, <3>3
  <2>9. InUse(s) = Append(q, x)
    BY <2>4, <2>6, <2>7, UpToSteps DEF Put
  <2>10. Append(q, x) # <<>> /\ Append(q, x)[Len(Append(q, x))] = x
    BY <2>4, <2>7, <2>8
  <2> QED BY <1>2, <2>1, <2>7, <2>9, <2>10 DEF TopOf, Topmost
<1> QED BY <1>1, <1>2

\* While there is a free slot, there is room on the stack.
LEMMA HoleIsRoom ==
  ASSUME NEW s \in Table, NEW a \in Slot, s[a] = NULL
  PROVE  Len(InUse(s)) < MaxWindows
<1> DEFINE t == [i \in Slot |-> IF i < a THEN s[i] ELSE IF i < MaxWindows THEN s[i + 1] ELSE NULL]
<1>1. t \in Table
  <2>1. ASSUME NEW i \in Slot PROVE t[i] \in Window \cup {NULL}
    <3>1. i < MaxWindows => i + 1 \in Slot
      BY WindowAssumption DEF Slot
    <3> QED BY <3>1 DEF Table
  <2> QED BY <2>1 DEF Table
<1>2. MovedDown(s, t, a)
  BY WindowAssumption DEF MovedDown, Slot
<1> HIDE DEF t
<1>3. PICK z : z = MaxWindows - 1
  OBVIOUS
<1>4. z \in Nat /\ z + 1 = MaxWindows /\ a - 1 <= z /\ z <= MaxWindows - 1 /\ 0 <= z
        /\ z <= MaxWindows
  BY <1>3, WindowAssumption DEF Slot
<1>5. UpTo(t)[z] = InUse(s)
  BY <1>2, <1>4, UpToHole DEF InUse
<1>6. Len(UpTo(t)[z]) <= z /\ UpTo(t)[z] \in Seq(Window)
  BY <1>1, <1>4, UpToSeq
<1> QED BY <1>4, <1>5, <1>6, WindowAssumption

\* A new window is put on top of what there is, wherever the free slot is.
LEMMA AddedOnTop ==
  ASSUME NEW s \in Table, NEW w \in Window, ~Holds(s, w), Slot \ Used(s) # {}
  PROVE  /\ InUse(Raised(Added(s, w), w)) = Append(InUse(s), w)
         /\ Len(InUse(s)) < MaxWindows /\ \A k \in 1 .. Len(InUse(s)) : InUse(s)[k] # w
<1> DEFINE a == Lowest(Slot \ Used(s))
           d == Added(s, w)
           at == Lowest({i \in Slot : d[i] = w})
           t == Raised(d, w)
<1>1. a \in Slot /\ s[a] = NULL
  <2>1. a \in Slot \ Used(s)
    BY LowestSlot
  <2> QED BY <2>1 DEF Used
<1>2. d = [s EXCEPT ![a] = w]
  BY DEF Added
<1> HIDE DEF a, d
<1>3. {i \in Slot : d[i] = w} = {a}
  BY <1>1, <1>2 DEF Holds, Table
<1>4. at = a
  <2>1. at \in {i \in Slot : d[i] = w}
    BY <1>3, LowestSlot
  <2> QED BY <1>3, <2>1
<1>5. t = [i \in Slot |-> IF i < at THEN d[i] ELSE IF i < MaxWindows THEN d[i + 1] ELSE w]
  BY DEF Raised
<1> HIDE DEF at, t
<1>6. \A i \in Slot : t[i] = IF i < a THEN d[i] ELSE IF i < MaxWindows THEN d[i + 1] ELSE w
  BY <1>4, <1>5
<1>7. \A i \in Slot : i # a => d[i] = s[i]
  BY <1>2 DEF Table
<1>8. MovedDown(s, t, a)
  <2>1. ASSUME NEW j \in 1 .. (a - 1) PROVE t[j] = s[j]
    <3>1. j \in Slot /\ j < a /\ j # a
      BY <1>1, WindowAssumption DEF Slot
    <3> QED BY <1>6, <1>7, <3>1
  <2>2. ASSUME NEW j \in a .. (MaxWindows - 1) PROVE t[j] = s[j + 1]
    <3>1. j \in Slot /\ ~(j < a) /\ j < MaxWindows /\ j + 1 \in Slot /\ j + 1 # a
      BY <1>1, WindowAssumption DEF Slot
    <3> QED BY <1>6, <1>7, <3>1
  <2> QED BY <2>1, <2>2 DEF MovedDown
<1>9. PICK z : z = MaxWindows - 1
  OBVIOUS
<1>10. /\ z \in Nat /\ z + 1 = MaxWindows /\ a - 1 <= z /\ z <= MaxWindows - 1
       /\ MaxWindows \in Slot /\ MaxWindows - 1 = z
  BY <1>1, <1>9, WindowAssumption DEF Slot
<1>11. UpTo(t)[z] = InUse(s)
  BY <1>1, <1>8, <1>10, UpToHole DEF InUse
<1>12. t[MaxWindows] = w
  BY <1>1, <1>6, <1>10, WindowAssumption DEF Slot
<1>13. InUse(t) = Append(InUse(s), w)
  BY <1>10, <1>11, <1>12, UpToSteps, WindowAssumption DEF InUse, Put
<1>14. Len(InUse(s)) < MaxWindows
  BY <1>1, HoleIsRoom
<1>15. \A k \in 1 .. Len(InUse(s)) : InUse(s)[k] # w
  BY InUseSeq
<1> QED BY <1>13, <1>14, <1>15 DEF t, d

\* A window that is raised goes from its place among the others to the top; when
\* it then leaves the table, the others are left in their order.
LEMMA RaisedOnTop ==
  ASSUME NEW s \in Table, NEW w \in Window, Apart(s), Holds(s, w)
  PROVE  \E k \in 1 .. Len(InUse(s)) :
           /\ InUse(Raised(s, w)) = Append(RemoveAt(InUse(s), k), InUse(s)[k])
           /\ InUse(Removed(Raised(s, w), w)) = RemoveAt(InUse(s), k)
<1> DEFINE at == Lowest({i \in Slot : s[i] = w})
           t == Raised(s, w)
           d == Removed(t, w)
<1>0. w # NULL
  BY WindowAssumption
<1>1. at \in Slot /\ s[at] = w
  <2>1. at \in {i \in Slot : s[i] = w}
    BY LowestSlot DEF Holds
  <2> QED BY <2>1
<1>2. t = [i \in Slot |-> IF i < at THEN s[i] ELSE IF i < MaxWindows THEN s[i + 1] ELSE w]
  BY DEF Raised
<1>3. t \in Table /\ Apart(t) /\ t[MaxWindows] = w
  BY WindowAssumption, RaisedTable
<1>4. d = [i \in Slot |-> IF t[i] = w THEN NULL ELSE t[i]]
  BY DEF Removed
<1> HIDE DEF at, t, d
<1>5. \A i \in Slot : t[i] = IF i < at THEN s[i] ELSE IF i < MaxWindows THEN s[i + 1] ELSE w
  BY <1>2
<1>6. MovedDown(s, t, at)
  <2>1. ASSUME NEW j \in 1 .. (at - 1) PROVE t[j] = s[j]
    <3>1. j \in Slot /\ j < at
      BY <1>1, WindowAssumption DEF Slot
    <3> QED BY <1>5, <3>1
  <2>2. ASSUME NEW j \in at .. (MaxWindows - 1) PROVE t[j] = s[j + 1]
    <3>1. j \in Slot /\ ~(j < at) /\ j < MaxWindows
      BY <1>1, WindowAssumption DEF Slot
    <3> QED BY <1>5, <3>1
  <2> QED BY <2>1, <2>2 DEF MovedDown
<1>7. PICK z, k : z = MaxWindows - 1 /\ k = Len(UpTo(s)[at])
  OBVIOUS
<1>8. /\ z \in Nat /\ z + 1 = MaxWindows /\ at - 1 <= z /\ z <= MaxWindows - 1 /\ z <= MaxWindows
      /\ MaxWindows \in Slot /\ MaxWindows - 1 = z /\ 0 <= z
  BY <1>1, <1>7, WindowAssumption DEF Slot
<1>9. k \in 1 .. Len(InUse(s)) /\ InUse(s)[k] = w /\ UpTo(t)[z] = RemoveAt(InUse(s), k)
  BY <1>0, <1>1, <1>6, <1>7, <1>8, UpToWithout DEF InUse
<1>10. InUse(t) = Append(RemoveAt(InUse(s), k), InUse(s)[k])
  <2>1. UpTo(t)[MaxWindows] = Put(UpTo(t)[MaxWindows - 1], t[MaxWindows])
    BY <1>8, UpToSteps
  <2>2. UpTo(t)[MaxWindows] = Put(RemoveAt(InUse(s), k), w)
    BY <1>3, <1>8, <1>9, <2>1
  <2>3. InUse(t) = Append(RemoveAt(InUse(s), k), w)
    BY <1>0, <2>2 DEF InUse, Put
  <2> QED BY <1>9, <2>3
<1>11. d[MaxWindows] = NULL
  BY <1>3, <1>4, <1>8
<1>12. \A j \in 1 .. z : t[j] = d[j]
  <2>1. ASSUME NEW j \in 1 .. z PROVE t[j] = d[j]
    <3>1. j \in Slot /\ j # MaxWindows
      BY <1>8, WindowAssumption DEF Slot
    <3>2. t[j] # w
      BY <1>0, <1>3, <1>8, <3>1 DEF Apart, Used
    <3> QED BY <1>4, <3>1, <3>2
  <2> QED BY <2>1
<1>13. UpTo(d)[z] = UpTo(t)[z]
  BY <1>8, <1>12, UpToAlike
<1>14. InUse(d) = UpTo(t)[z]
  BY <1>8, <1>11, <1>13, UpToSteps DEF InUse, Put
<1> QED BY <1>9, <1>10, <1>14 DEF t, d

-----------------------------------------------------------------------------
(* The operations on the stack.                                            *)

\* A step of the stack, or none.
StackStep == Stack!Next \/ UNCHANGED <<InUse(windows), focused_window>>

\* The operators of the stack.
LEMMA StackOperators ==
  /\ \A q : Stack!OnTop(q) = TopOf(q)
  /\ \A q, k : Stack!RemoveAt(q, k) = RemoveAt(q, k)
  /\ \A q : Stack!Range(q) = Range(q)
<1>1. \A q : Stack!OnTop(q) = TopOf(q)
  BY DEF Stack!OnTop, TopOf, Stack!Last
<1>2. \A q, k : Stack!RemoveAt(q, k) = RemoveAt(q, k)
  BY DEF Stack!RemoveAt, RemoveAt
<1>3. \A q : Stack!Range(q) = Range(q)
  BY DEF Stack!Range, Range
<1> QED BY <1>1, <1>2, <1>3

\* The windows in use of the next state.
LEMMA InUseNext == InUse(windows)' = InUse(windows')
BY DEF InUse, UpTo

\* What changes nothing in the table and leaves the focus changes nothing there.
LEMMA UnchangedStack ==
  ASSUME UNCHANGED <<windows, focused_window>>
  PROVE  StackStep
BY DEF StackStep, InUse, UpTo

\* window_create opens.
LEMMA CreateStack ==
  ASSUME WInv, WInv', NEW k, NEW w \in Window, ~Listed(w), window_create(k, w)
  PROVE  StackStep
<1>1. windows \in Table /\ ~Holds(windows, w)
  BY DEF WInv, Listed, Holds
<1>2. Slot \ Used(windows) # {}
  <2> SUFFICES ASSUME Slot \ Used(windows) = {} PROVE FALSE
    OBVIOUS
  <2>1. Used(windows) = Slot
    BY DEF Used
  <2>2. window_count = MaxWindows
    BY <2>1, UsedFinite, WindowAssumption DEF WInv, CountExact
  <2> QED BY <2>2, WindowAssumption DEF window_create, NoRoom
<1>3. windows' = Raised(Added(windows, w), w)
  BY DEF window_create
<1>4. PICK q, r : q = InUse(windows) /\ r = InUse(windows')
  OBVIOUS
<1>5. r = Append(q, w) /\ Len(q) < MaxWindows /\ q \in Seq(Window)
        /\ \A i \in 1 .. Len(q) : q[i] # w
  BY <1>1, <1>2, <1>3, <1>4, AddedOnTop, InUseSeq
<1>6. w \in Window \ Range(q)
  BY <1>5 DEF Range
<1>7. focused_window' = TopOf(r)
  BY <1>4, TopInUse DEF WInv, FocusOnTop, Topmost, Used, Highest
<1>9. Len(q) < MaxWindows /\ r = Append(q, w) /\ focused_window' = Stack!OnTop(r)
        /\ w \in Window \ Stack!Range(q)
  BY <1>4, <1>5, <1>6, <1>7, StackOperators
<1> QED BY <1>4, <1>9, InUseNext DEF StackStep, Stack!Next, Stack!Open, Stack!Set

\* window_bring_to_front raises.
LEMMA RaiseStack ==
  ASSUME WInv, WInv', NEW w \in Window, Listed(w), window_bring_to_front(w)
  PROVE  StackStep
<1>1. windows \in Table /\ Apart(windows) /\ Holds(windows, w)
  BY DEF WInv, CountExact, Apart, Listed, Holds
<1>2. windows' = Raised(windows, w)
  BY DEF window_bring_to_front
<1>3. PICK q, r : q = InUse(windows) /\ r = InUse(windows')
  OBVIOUS
<1>4. PICK k \in 1 .. Len(q) : r = Append(RemoveAt(q, k), q[k])
  BY <1>1, <1>2, <1>3, RaisedOnTop
<1>5. q \in Seq(Window) /\ k \in DOMAIN q
  BY <1>1, <1>3, InUseSeq
<1>6. focused_window' = TopOf(r)
  BY <1>3, TopInUse DEF WInv, FocusOnTop, Topmost, Used, Highest
<1>9. k \in DOMAIN q /\ r = Append(Stack!RemoveAt(q, k), q[k]) /\ focused_window' = Stack!OnTop(r)
  BY <1>4, <1>5, <1>6, StackOperators
<1> QED BY <1>3, <1>9, InUseNext DEF StackStep, Stack!Next, Stack!Raise, Stack!Set

\* The close button raises and then closes: for the stack it closes.
LEMMA CloseStack ==
  ASSUME WInv, WInv', NEW p, ClickClose(p)
  PROVE  StackStep
<1>1. PICK w : w = Hit(p)
  OBVIOUS
<1>2. w \in Window /\ Listed(w)
  BY <1>1, WindowAssumption, HitListed DEF ClickClose
<1>3. windows \in Table /\ Apart(windows) /\ Holds(windows, w)
  BY <1>2 DEF WInv, CountExact, Apart, Listed, Holds
<1>4. windows' = Removed(Raised(windows, w), w)
  BY <1>1 DEF ClickClose
<1>5. PICK q, r : q = InUse(windows) /\ r = InUse(windows')
  OBVIOUS
<1>6. PICK k \in 1 .. Len(q) : r = RemoveAt(q, k)
  BY <1>2, <1>3, <1>4, <1>5, RaisedOnTop
<1>7. q \in Seq(Window) /\ k \in DOMAIN q
  BY <1>3, <1>5, InUseSeq
<1>8. focused_window' = TopOf(r)
  BY <1>5, TopInUse DEF WInv, FocusOnTop, Topmost, Used, Highest
<1>9. k \in DOMAIN q /\ r = Stack!RemoveAt(q, k) /\ focused_window' = Stack!OnTop(r)
  BY <1>6, <1>7, <1>8, StackOperators
<1> QED BY <1>5, <1>9, InUseNext DEF StackStep, Stack!Next, Stack!Close, Stack!Set

\* Any click on a window.
LEMMA ClickStack ==
  ASSUME WInv, WInv', NEW p, ClickClose(p) \/ ClickTitle(p) \/ ClickWindow(p)
  PROVE  StackStep
<1>1. ASSUME Under(p) # {}, window_bring_to_front(Hit(p)) PROVE StackStep
  BY <1>1, WindowAssumption, HitListed, RaiseStack
<1> QED BY <1>1, CloseStack DEF ClickTitle, ClickWindow

\* Opening the editor or the file manager.
LEMMA OpenStack ==
  ASSUME WInv, WInv', NEW k, Open(k)
  PROVE  StackStep
<1>1. CASE FreeAddresses # {} /\ window_create(k, CHOOSE w \in FreeAddresses : TRUE)
  <2>1. (CHOOSE w \in FreeAddresses : TRUE) \in FreeAddresses
    BY <1>1
  <2> QED BY <1>1, <2>1, CreateStack DEF FreeAddresses
<1>2. CASE NoRoom /\ UNCHANGED managed
  BY <1>2, UnchangedStack DEF managed
<1> QED BY <1>1, <1>2 DEF Open

\* Every step of the loop is a step of the stack, or none.
LEMMA StackSteps ==
  ASSUME WInv, WInv', [Next]_vars
  PROVE  StackStep
<1>0. ASSUME UNCHANGED managed PROVE StackStep
  BY <1>0, UnchangedStack DEF managed
<1>1. CASE Frame
  <2>1. UNCHANGED <<windows, focused_window>>
    BY <1>1 DEF Frame, window_manager_update, managed
  <2> QED BY <2>1, UnchangedStack
<1>2. CASE window_handle_mouse
  BY <1>0, <1>2, ClickStack DEF window_handle_mouse
<1>3. CASE on_click
  BY <1>0, <1>3, OpenStack DEF on_click, file_manager_on_click, text_editor_open
<1>4. CASE desktop_handle_mouse
  BY <1>0, <1>4, OpenStack
     DEF desktop_handle_mouse, desktop_open_icon, file_manager_open, text_editor_open
<1>5. ASSUME NEW p \in Point, NEW b \in BOOLEAN, process_packet(p, b) PROVE StackStep
  BY <1>0, <1>5 DEF process_packet
<1>6. CASE UNCHANGED vars
  BY <1>0, <1>6 DEF vars
<1> QED BY <1>1, <1>2, <1>3, <1>4, <1>5, <1>6 DEF Next, Loop

\* The table of window_manager.c, with its holes and its moves of a slot at a
\* time, is a stack of windows: what is opened comes on top, what is clicked goes
\* there, what is closed leaves the rest in its order, and the focus is on top.
THEOREM WindowsAreStack == Spec => ImplementsStack
<1>1. Init => Stack!Init
  <2> SUFFICES ASSUME Init PROVE Stack!Init
    OBVIOUS
  <2>1. /\ \A j \in Slot : windows[j] = NULL
        /\ focused_window = NULL /\ 0 \in Nat /\ 0 <= MaxWindows
    BY WindowAssumption DEF Init, ManagerInit
  <2>2. InUse(windows) = UpTo(windows)[0]
    BY <2>1, UpToFree
  <2> QED BY <2>1, <2>2, UpToSteps DEF Stack!Init
<1>2. WInv /\ WInv' /\ [Next]_vars => [Stack!Next]_<<InUse(windows), focused_window>>
  BY StackSteps DEF StackStep
<1> QED BY <1>1, <1>2, AlwaysWInv, PTL DEF Spec, ImplementsStack, Stack!Spec
=============================================================================
