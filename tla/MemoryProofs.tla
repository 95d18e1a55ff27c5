---------------------------- MODULE MemoryProofs ----------------------------
(***************************************************************************)
(* Proofs about the frame allocator, for every number of frames, and about *)
(* the kernel heap, for every word size and every set of requests: no      *)
(* frame below the hint is free, and blocks of the heap never overlap      *)
(* before it has run past the last address.                                *)
(***************************************************************************)
EXTENDS FrameAllocator, KernelHeap, WellFoundedInduction, TLAPS

-----------------------------------------------------------------------------
\* Frames.

FramesInv == TypeOK /\ HintSound /\ held = frame_bitmap

\* A set of numbers that is not empty has a least one: what the searches from
\* below find.
LEMMA Least ==
  ASSUME NEW T, T \subseteq Nat, T # {}
  PROVE  \E m \in T : \A n \in T : m <= n
<1> DEFINE R == OpToRel(<, Nat)
<1>1. \A m, n \in Nat : m < n => <<m, n>> \in R
  BY Zenon DEF OpToRel
<1>2. IsWellFoundedOn(R, Nat)
  BY NatLessThanWellFounded, Zenon
<1> HIDE DEF R
<1>3. PICK m \in T : \A n \in T : <<n, m>> \notin R
  BY <1>2, WFMin, Zenon
<1>4. \A n \in T : ~(n < m)
  BY <1>1, <1>3, Zenon
<1> QED  BY <1>4, m \in Nat, SMT

\* The search fails only when every frame is in use.
LEMMA SearchComplete ==
  ASSUME FramesAssumption, FramesInv, \A i \in Frames : ~FirstClear(i)
  PROVE  frame_bitmap = Frames
<1> DEFINE T == Frames \ frame_bitmap
<1>1. SUFFICES ASSUME T # {} PROVE FALSE
  BY DEF FramesInv, TypeOK
<1>2. T \subseteq Nat
  BY DEF Frames
<1>3. PICK m \in T : \A n \in T : m <= n
  BY <1>1, <1>2, Least
<1>4. m \in last_frame .. (MaxFrames - 1)
  BY FramesAssumption DEF FramesInv, HintSound, TypeOK, Frames, FramesAssumption
<1>5. \A j \in last_frame .. (m - 1) : j \in frame_bitmap
  BY <1>3, <1>4, FramesAssumption DEF FramesInv, TypeOK, Frames, FramesAssumption
<1>6. FirstClear(m)
  BY <1>4, <1>5 DEF FirstClear
<1> QED  BY <1>6

LEMMA InitFrames ==
  ASSUME FramesAssumption, Init
  PROVE  FramesInv
  BY DEF FramesAssumption, Init, FramesInv, TypeOK, HintSound, Frames

LEMMA NextFrames ==
  ASSUME FramesAssumption, FramesInv, [Next]_vars
  PROVE  FramesInv'
<1> USE DEF FramesInv, TypeOK, HintSound, Frames, FramesAssumption
<1>1. ASSUME NEW i \in Frames, FirstClear(i), frame_bitmap' = Marked(i),
             last_frame' = After(i), held' = held \cup {i}, answer' = i
      PROVE  FramesInv'
  BY <1>1 DEF FirstClear, Marked, After
<1>2. ASSUME NEW f \in Frames, pmm_free_frame(f)
      PROVE  FramesInv'
  BY <1>2 DEF pmm_free_frame, HintAfterFree
<1>3. CASE answer' = NoFrame /\ UNCHANGED <<frame_bitmap, last_frame, held>>
  BY <1>3
<1>4. CASE UNCHANGED vars
  BY <1>4 DEF vars
<1> QED  BY <1>1, <1>2, <1>3, <1>4 DEF Next, pmm_alloc_frame

LEMMA AlwaysFrames == Spec => []FramesInv
  BY FramesAssumption, InitFrames, NextFrames, PTL DEF Spec

\* No frame below the start of the search is free, after any sequence of
\* allocations and frees.
THEOREM HintStaysSound == Spec => []HintSound
<1>1. FramesInv => HintSound
  BY DEF FramesInv
<1> QED  BY <1>1, AlwaysFrames, PTL

\* Every step is a step of the pool: no frame is granted twice, and none is
\* refused while one is free.
LEMMA StepIsPoolStep ==
  ASSUME FramesAssumption, FramesInv, [Next]_vars
  PROVE  [Pool!Next]_<<held, answer>>
<1>1. ASSUME NEW i \in Frames, FirstClear(i), held' = held \cup {i}, answer' = i
      PROVE  Pool!Grant
  BY <1>1 DEF Pool!Grant, FirstClear, FramesInv
<1>2. CASE /\ \A i \in Frames : ~FirstClear(i)
           /\ answer' = NoFrame /\ UNCHANGED <<frame_bitmap, last_frame, held>>
  BY <1>2, SearchComplete DEF Pool!Next, Pool!Refuse, FramesInv
<1>3. ASSUME NEW f \in Frames, pmm_free_frame(f)
      PROVE  Pool!Return
  BY <1>3 DEF pmm_free_frame, Pool!Return
<1>4. CASE UNCHANGED vars
  BY <1>4 DEF vars
<1> QED  BY <1>1, <1>2, <1>3, <1>4 DEF Next, pmm_alloc_frame, Pool!Next

\* The allocator implements the pool, for every number of frames.
THEOREM AllocatorIsPool == Spec => ImplementsPool
<1>1. Init => Pool!Init
  BY DEF Init, Pool!Init
<1>2. FramesInv /\ [Next]_vars => [Pool!Next]_<<held, answer>>
  BY FramesAssumption, StepIsPoolStep
<1> QED  BY <1>1, <1>2, AlwaysFrames, PTL DEF Spec, Pool!Spec, ImplementsPool

-----------------------------------------------------------------------------
\* The heap.

\* The invariant: while every request has stayed in range, the blocks lie in
\* the order they were given, below heap_end.
Ordered ==
  (\A i \in DOMAIN blocks : InRange(blocks[i])) =>
    /\ \A i \in DOMAIN blocks : blocks[i].addr + blocks[i].size <= heap_end
    /\ \A i, j \in DOMAIN blocks :
         i < j => blocks[i].addr + blocks[i].size <= blocks[j].addr
HeapInv == HeapTypeOK /\ Ordered

LEMMA RoundsUp ==
  ASSUME NEW addr \in 0 .. (Word - 1), NEW size \in 0 .. (Word - 1)
  PROVE  /\ NextEnd(addr, size) \in 0 .. (Word - 1)
         /\ addr + size + 7 < Word => addr + size <= NextEnd(addr, size)
BY HeapAssumption DEF HeapAssumption, NextEnd

LEMMA InitHeap == HeapInit => HeapInv
BY HeapAssumption DEF HeapAssumption, HeapInit, HeapInv, HeapTypeOK, Ordered

LEMMA NextHeap == HeapInv /\ [HeapNext]_heap_vars => HeapInv'
<1> SUFFICES ASSUME HeapInv, [HeapNext]_heap_vars PROVE HeapInv'
  OBVIOUS
<1>1. CASE UNCHANGED heap_vars
  BY <1>1 DEF heap_vars, HeapInv, HeapTypeOK, Ordered, InRange
<1>2. ASSUME NEW size \in Requests, kmalloc(size) PROVE HeapInv'
  <2> DEFINE b == [addr |-> heap_end, size |-> size]
  <2>1. size \in 0 .. (Word - 1) /\ heap_end \in 0 .. (Word - 1)
    BY HeapAssumption DEF HeapAssumption, HeapInv, HeapTypeOK
  <2>2. b \in Block /\ b.addr = heap_end /\ b.size = size
    BY <2>1 DEF Block
  <2>3. /\ heap_end' \in 0 .. (Word - 1)
        /\ heap_end + size + 7 < Word => heap_end + size <= heap_end'
    BY <1>2, <2>1, RoundsUp DEF kmalloc
  <2>4. blocks \in Seq(Block) /\ blocks' = Append(blocks, b)
    BY <1>2 DEF kmalloc, HeapInv, HeapTypeOK
  <2> HIDE DEF b
  <2>5. HeapTypeOK'
    BY <2>2, <2>3, <2>4 DEF HeapTypeOK, HeapInv
  <2>6. /\ DOMAIN blocks' = DOMAIN blocks \cup {Len(blocks) + 1}
        /\ \A i \in DOMAIN blocks : blocks'[i] = blocks[i] /\ i < Len(blocks) + 1
        /\ blocks'[Len(blocks) + 1] = b
    BY <2>2, <2>4
  <2>7. ASSUME \A i \in DOMAIN blocks' : InRange(blocks'[i])
        PROVE  /\ \A i \in DOMAIN blocks' :
                    blocks'[i].addr + blocks'[i].size <= heap_end'
               /\ \A i, j \in DOMAIN blocks' :
                    i < j => blocks'[i].addr + blocks'[i].size <= blocks'[j].addr
    <3>1. \A i \in DOMAIN blocks : InRange(blocks[i])
      BY <2>6, <2>7
    <3>2. heap_end + size + 7 < Word
      BY <2>2, <2>6, <2>7 DEF InRange
    <3>3. /\ \A i \in DOMAIN blocks : blocks[i].addr + blocks[i].size <= heap_end
          /\ \A i, j \in DOMAIN blocks :
               i < j => blocks[i].addr + blocks[i].size <= blocks[j].addr
      BY <3>1 DEF HeapInv, Ordered
    <3>4. \A i \in DOMAIN blocks : blocks[i].addr \in Int /\ blocks[i].size \in Int
      <4>1. \A i \in DOMAIN blocks : blocks[i] \in Block
        BY <2>4
      <4>. QED BY <4>1, HeapAssumption DEF HeapAssumption, Block
    <3>5. heap_end <= heap_end' /\ heap_end + size <= heap_end'
      BY <2>1, <2>3, <3>2, HeapAssumption DEF HeapAssumption
    <3>6. ASSUME NEW i \in DOMAIN blocks'
          PROVE  blocks'[i].addr + blocks'[i].size <= heap_end'
      <4>1. CASE i \in DOMAIN blocks
        BY <4>1, <2>1, <2>3, <2>6, <3>3, <3>4, <3>5, HeapAssumption DEF HeapAssumption
      <4>2. CASE i = Len(blocks) + 1
        BY <4>2, <2>2, <2>6, <3>5
      <4>. QED BY <4>1, <4>2, <2>6
    <3>7. ASSUME NEW i \in DOMAIN blocks', NEW j \in DOMAIN blocks', i < j
          PROVE  blocks'[i].addr + blocks'[i].size <= blocks'[j].addr
      <4>1. i \in DOMAIN blocks
        BY <2>4, <2>6, <3>7
      <4>2. CASE j \in DOMAIN blocks
        BY <4>1, <4>2, <2>6, <3>3, <3>7
      <4>3. CASE j = Len(blocks) + 1
        BY <4>1, <4>3, <2>2, <2>6, <3>3
      <4>. QED BY <4>2, <4>3, <2>6
    <3>. QED BY <3>6, <3>7
  <2>8. Ordered'
    BY <2>7 DEF Ordered, InRange
  <2>. QED BY <2>5, <2>8 DEF HeapInv
<1>. QED BY <1>1, <1>2 DEF HeapNext

\* No two blocks share a byte as long as no request has run past the last
\* address: kmalloc of kheap.c.
THEOREM BlocksStayApart == HeapSpec => []BlocksApart
<1>1. HeapInv => BlocksApart
  BY DEF HeapInv, Ordered, BlocksApart, Apart
<1>. QED BY <1>1, InitHeap, NextHeap, PTL DEF HeapSpec
=============================================================================
