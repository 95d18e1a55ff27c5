----------------------------- MODULE KernelHeap ------------------------------
(***************************************************************************)
(* The heap of src/src/kheap.c: a pointer that moves up by the size of     *)
(* each block, in 32-bit arithmetic.  Nothing is ever given back, and      *)
(* nothing is ever refused.                                                *)
(***************************************************************************)
EXTENDS Integers, Sequences

CONSTANTS
  Word,        \* 2^32
  Starts,      \* where the linker may put _end
  Requests,    \* sizes asked for, as 32-bit words: malloc -8 asks for Word - 8
  MaxBlocks    \* bound: blocks ever given

ASSUME HeapAssumption ==
  /\ Word \in Nat \ {0} /\ Word % 8 = 0
  /\ Starts \subseteq 0 .. (Word - 1) /\ Requests \subseteq 0 .. (Word - 1)
  /\ MaxBlocks \in Nat

VARIABLES
  heap_end,  \* where the next block begins
  blocks     \* the blocks given, oldest first

heap_vars == <<heap_end, blocks>>

NextEndBug(addr, size)      == (((addr + size) % Word) \div 8) * 8   \* fault: rounds down
NextEnd(addr, size)         == (((addr + size + 7) % Word) \div 8) * 8

kmalloc(size) ==
  /\ Len(blocks) < MaxBlocks
  /\ blocks' = Append(blocks, [addr |-> heap_end, size |-> size])
  /\ heap_end' = NextEnd(heap_end, size)

HeapInit == heap_end \in Starts /\ blocks = <<>>
HeapNext == \E size \in Requests : kmalloc(size)
HeapSpec == HeapInit /\ [][HeapNext]_heap_vars

-----------------------------------------------------------------------------
Block == [addr : 0 .. (Word - 1), size : 0 .. (Word - 1)]
HeapTypeOK ==
  /\ heap_end \in 0 .. (Word - 1)
  /\ blocks \in Seq(Block)

Apart(b, c) == b.addr + b.size <= c.addr \/ c.addr + c.size <= b.addr
InRange(b)  == b.addr + b.size + 7 < Word

\* No two blocks share a byte, whatever sizes were asked for in whatever
\* order, as long as no request has run past the last address.
BlocksApart ==
  (\A i \in DOMAIN blocks : InRange(blocks[i])) =>
    \A i, j \in DOMAIN blocks : i < j => Apart(blocks[i], blocks[j])
=============================================================================
