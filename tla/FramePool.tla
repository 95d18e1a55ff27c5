------------------------------ MODULE FramePool ------------------------------
(***************************************************************************)
(* What a frame allocator promises its callers: a frame nobody holds, if   *)
(* there is one.                                                           *)
(***************************************************************************)
CONSTANTS Frames, NoFrame
VARIABLES held, answer

Grant  == \E f \in Frames \ held : held' = held \cup {f} /\ answer' = f
Refuse == held = Frames /\ answer' = NoFrame /\ UNCHANGED held
Return == \E f \in held : held' = held \ {f} /\ UNCHANGED answer

Init == held = {} /\ answer = NoFrame
Next == Grant \/ Refuse \/ Return
Spec == Init /\ [][Next]_<<held, answer>>
=============================================================================
