------------------------------ MODULE MCMemory -------------------------------
(***************************************************************************)
(* The frames and the heap of one kernel. They share nothing, the heap     *)
(* takes no frames: the steps of the two come in any order.                *)
(***************************************************************************)
EXTENDS FrameAllocator, KernelHeap

MemoryInit == Init /\ HeapInit
MemoryNext == \/ Next /\ UNCHANGED heap_vars
              \/ HeapNext /\ UNCHANGED vars
MemorySpec == MemoryInit /\ [][MemoryNext]_<<vars, heap_vars>>
=============================================================================
