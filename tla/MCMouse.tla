------------------------------- MODULE MCMouse -------------------------------
(***************************************************************************)
(* A mouse that reports one to the right and 16 down with the left button  *)
(* down, in bytes without bit 3, or 200 to the right, more than eight bits *)
(* hold, and 8 up with it up, in bytes with it. The release of the Enter   *)
(* key (156, which has bits 3 and 4) and a code with neither.              *)
(***************************************************************************)
EXTENDS Mouse

Packets == {<<41, 1, 240>>, <<8, 200, 8>>}
=============================================================================
