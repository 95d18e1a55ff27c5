---------------------------- MODULE FrameAllocator ----------------------------
(***************************************************************************)
(* The physical frame allocator of src/src/pmm.c: a bitmap of the frames   *)
(* in use and the frame the next search starts at, which is only sound as  *)
(* long as every frame below it is in use.                                 *)
(*                                                                         *)
(* The kernel initialises it and nothing calls the rest yet, so the        *)
(* callers here are any that give back what they were given.               *)
(***************************************************************************)
EXTENDS Integers

CONSTANT MaxFrames             \* MAX_FRAMES
ASSUME FramesAssumption == MaxFrames \in Nat \ {0}

Frames  == 0 .. (MaxFrames - 1)
NoFrame == -1                  \* (uint32_t)-1

VARIABLES
  frame_bitmap,  \* the frames whose bit is set
  last_frame,    \* where the next search starts
  held,          \* the frames the callers hold
  answer         \* what the last pmm_alloc_frame returned

vars == <<frame_bitmap, last_frame, held, answer>>

\* The search: the first clear bit from last_frame on.
FirstClear(i) == /\ i \in last_frame .. (MaxFrames - 1)
                 /\ i \notin frame_bitmap
                 /\ \A j \in last_frame .. (i - 1) : j \in frame_bitmap
After(i)    == i + 1
MarkedBug(i) == frame_bitmap                      \* fault: bit not set
Marked(i)    == frame_bitmap \cup {i}

pmm_alloc_frame ==
  \/ \E i \in Frames :
       /\ FirstClear(i)
       /\ frame_bitmap' = Marked(i)
       /\ last_frame' = After(i)
       /\ held' = held \cup {i} /\ answer' = i
  \/ /\ \A i \in Frames : ~FirstClear(i)
     /\ answer' = NoFrame
     /\ UNCHANGED <<frame_bitmap, last_frame, held>>

HintAfterFreeBug(f) == last_frame                \* fault: hint left where it is
HintAfterFree(f)    == IF f < last_frame THEN f ELSE last_frame

pmm_free_frame(f) ==
  /\ f \in held
  /\ frame_bitmap' = frame_bitmap \ {f}
  /\ last_frame' = HintAfterFree(f)
  /\ held' = held \ {f}
  /\ UNCHANGED answer

Init == frame_bitmap = {} /\ last_frame = 0 /\ held = {} /\ answer = NoFrame
Next == pmm_alloc_frame \/ \E f \in Frames : pmm_free_frame(f)
Spec == Init /\ [][Next]_vars

-----------------------------------------------------------------------------
TypeOK ==
  /\ frame_bitmap \subseteq Frames /\ held \subseteq Frames
  /\ last_frame \in 0 .. MaxFrames
  /\ answer \in Frames \cup {NoFrame}

\* The search skips no free frame: every frame below last_frame is in use,
\* whatever was freed and in which order.
HintSound == \A f \in Frames : f < last_frame => f \in frame_bitmap

\* The callers see a pool: no frame is given to two of them, and the
\* allocator refuses only when every frame is held.
Pool == INSTANCE FramePool
ImplementsPool == Pool!Spec
=============================================================================
