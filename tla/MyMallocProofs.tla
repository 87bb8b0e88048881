--------------------------- MODULE MyMallocProofs ---------------------------
(***************************************************************************)
(* The safety of MyMalloc, for any sizes of units, lists and chunk table   *)
(* and any client: a sound heap stays sound, provided the OS maps each     *)
(* chunk above the earlier ones. (The run "descending" shows what happens  *)
(* otherwise.) From that, MyMalloc implements Allocator and takes best     *)
(* fits, and the loops over its heap meet every block.                     *)
(***************************************************************************)
EXTENDS MyMalloc, HeapProofs

-----------------------------------------------------------------------------
(* The invariant *)

\* The inductive invariant. What makes LiveBlocksFit and NoWildAccess hold is
\* all of Sound: the bits, footers and lists that later calls go by.
IInv ==
  /\ Sound(heap)
  /\ Client(heap, live)
  /\ heap.fault # "wild"

-----------------------------------------------------------------------------
(* One lemma for Init, and one per action *)

\* The heap is sound before the first call.
LEMMA InitSound == Init => IInv
<1>. SUFFICES ASSUME Init PROVE IInv
  OBVIOUS
<1>1. heap = InitHeap /\ live = [p \in {} |-> 0]
  BY DEF Init
<1>2. Sound(heap) /\ Blocks(heap) = {}
  BY <1>1, InitHeapSound
<1>3. Client(heap, live) /\ heap.fault # "wild"
  BY <1>1, <1>2 DEF Client, Allocated, InitHeap
<1>4. QED
  BY <1>2, <1>3 DEF IInv

\* The heaps after the requests of my_malloc.
LEMMA RequestsSound ==
  ASSUME Ascending = TRUE, NEW h, Sound(h), NEW n \in Nat,
         NEW h1 \in first_chunk(h, n), NEW h2 \in another_chunk(h1, n)
  PROVE  Requested(h, h1) /\ Requested(h1, h2)
<1>1. kMemorySize \in Nat \ {0}
  BY MemoryAssumption DEF SizeofChunk, kMetadataSize, SizeofFooter
<1>2. Requested(h, h1)
  <2>1. CASE h1 = h
    BY <2>1 DEF Requested, SameAllocated
  <2>2. CASE h1 \in get_chunk_from_OS(h, (n + SizeofChunk + kMemorySize - 1) \div kMemorySize)
    <3>1. (n + SizeofChunk + kMemorySize - 1) \div kMemorySize \in Int
      BY <1>1 DEF SizeofChunk
    <3>2. QED
      BY <2>2, <3>1, RequestSound
  <2>3. QED
    BY <2>1, <2>2 DEF first_chunk
<1>3. Requested(h1, h2)
  <2>1. CASE h2 = h1
    BY <1>2, <2>1 DEF Requested, SameAllocated
  <2>2. CASE h2 \in get_chunk_from_OS(h1, (n + kMemorySize - 1) \div kMemorySize)
    <3>1. (n + kMemorySize - 1) \div kMemorySize \in Int /\ Sound(h1)
      BY <1>1, <1>2 DEF Requested
    <3>2. QED
      BY <2>2, <3>1, RequestSound
  <2>3. QED
    BY <2>1, <2>2 DEF another_chunk
<1>4. QED
  BY <1>2, <1>3

\* my_malloc leaves a sound heap.
LEMMA MallocSound ==
  ASSUME Ascending = TRUE, IInv, NEW size \in Requests, my_malloc(size)
  PROVE  IInv'
<1>. DEFINE total == total_size(size)
<1>1. CASE UNCHANGED vars
  BY <1>1 DEF IInv, vars
<1>2. CASE /\ size > 0 /\ size <= kMaxAllocationSize
           /\ \E h1 \in first_chunk(heap, total) : \E h2 \in another_chunk(h1, total) :
                \/ /\ h2.fault # "none"
                   /\ heap' = h2
                   /\ UNCHANGED live
                \/ /\ h2.fault = "none"
                   /\ chosen(h1, h2, total) = {}
                   /\ heap' = Faulted(h2, "null")
                   /\ UNCHANGED live
                \/ /\ h2.fault = "none"
                   /\ \E b \in chosen(h1, h2, total) :
                        LET r == allocate(h2, b, total)
                            p == r.block + kMetadataSize
                        IN  /\ heap' = r.heap
                            /\ live' = [q \in DOMAIN live \cup {p} |->
                                          IF q = p THEN size ELSE live[q]]
  <2>1. size \in Nat /\ total \in Nat /\ total >= size + 32
    BY RequestsAssumption, TotalSize
  <2>. HIDE DEF total
  <2>2. PICK h1 \in first_chunk(heap, total) : \E h2 \in another_chunk(h1, total) :
                \/ /\ h2.fault # "none"
                   /\ heap' = h2
                   /\ UNCHANGED live
                \/ /\ h2.fault = "none"
                   /\ chosen(h1, h2, total) = {}
                   /\ heap' = Faulted(h2, "null")
                   /\ UNCHANGED live
                \/ /\ h2.fault = "none"
                   /\ \E b \in chosen(h1, h2, total) :
                        LET r == allocate(h2, b, total)
                            p == r.block + kMetadataSize
                        IN  /\ heap' = r.heap
                            /\ live' = [q \in DOMAIN live \cup {p} |->
                                          IF q = p THEN size ELSE live[q]]
    BY <1>2
  <2>3. PICK h2 \in another_chunk(h1, total) :
                \/ /\ h2.fault # "none"
                   /\ heap' = h2
                   /\ UNCHANGED live
                \/ /\ h2.fault = "none"
                   /\ chosen(h1, h2, total) = {}
                   /\ heap' = Faulted(h2, "null")
                   /\ UNCHANGED live
                \/ /\ h2.fault = "none"
                   /\ \E b \in chosen(h1, h2, total) :
                        LET r == allocate(h2, b, total)
                            p == r.block + kMetadataSize
                        IN  /\ heap' = r.heap
                            /\ live' = [q \in DOMAIN live \cup {p} |->
                                          IF q = p THEN size ELSE live[q]]
    BY <2>2
  <2>4. Requested(heap, h1) /\ Requested(h1, h2)
    BY <2>1, RequestsSound DEF IInv
  <2>5. Sound(h1) /\ Sound(h2) /\ SameAllocated(heap, h2) /\ h2.fault # "wild"
    BY <2>4 DEF Requested, SameAllocated, IInv
  <2>6. Client(h2, live)
    BY <2>5, ClientSame DEF IInv
  <2>7. CASE heap' = h2 /\ UNCHANGED live
    BY <2>5, <2>6, <2>7 DEF IInv
  <2>8. CASE heap' = Faulted(h2, "null") /\ UNCHANGED live
    <3>1. /\ Sound(Faulted(h2, "null")) /\ SameAllocated(h2, Faulted(h2, "null"))
          /\ Faulted(h2, "null").fault = "null"
      BY <2>5, FaultedSound DEF Faults
    <3>2. Client(Faulted(h2, "null"), live)
      BY <2>5, <2>6, <3>1, ClientSame
    <3>3. QED
      BY <2>8, <3>1, <3>2 DEF IInv
  <2>9. ASSUME NEW b \in chosen(h1, h2, total),
               heap' = allocate(h2, b, total).heap,
               live' = [q \in DOMAIN live \cup {allocate(h2, b, total).block + kMetadataSize} |->
                          IF q = allocate(h2, b, total).block + kMetadataSize
                          THEN size ELSE live[q]]
        PROVE  IInv'
    <3>. DEFINE g == allocate(h2, b, total).heap
                a == allocate(h2, b, total).block
    <3>1. b \in Blocks(h2) /\ IsFree(h2, b) /\ h2.block[b].size >= total
      BY <2>1, <2>5, ChosenFits
    <3>2. Allocates(h2, g, a, total)
      BY <2>1, <2>5, <3>1, AllocateSound
    <3>. HIDE DEF g, a
    <3>3. /\ heap' = g
          /\ live' = [q \in DOMAIN live \cup {a + kMetadataSize} |->
                        IF q = a + kMetadataSize THEN size ELSE live[q]]
      BY <2>9 DEF g, a
    <3>4. heap' = g /\ Client(g, live')
      BY <2>1, <2>5, <2>6, <3>2, <3>3, ClientMalloc
    <3>5. Sound(g) /\ g.fault # "wild"
      BY <2>5, <3>2 DEF Allocates
    <3>6. QED
      BY <3>4, <3>5 DEF IInv
  <2>10. QED
    BY <2>3, <2>7, <2>8, <2>9
<1>3. QED
  BY <1>1, <1>2 DEF my_malloc

\* my_free of a live pointer leaves a sound heap.
LEMMA FreeSound ==
  ASSUME IInv, NEW p \in DOMAIN live, my_free(p)
  PROVE  IInv'
<1>1. CASE UNCHANGED vars
  BY <1>1 DEF IInv, vars
<1>2. CASE /\ heap' = release(heap, p)
           /\ live' = [q \in DOMAIN live \ {p} |-> live[q]]
  <2>. DEFINE g == release(heap, p)
  <2>1. Sound(heap) /\ Client(heap, live) /\ heap.fault # "wild"
    BY DEF IInv
  <2>2. p - kMetadataSize \in Allocated(heap) /\ p \in Int
    BY <2>1, ClientBlock
  <2>3. /\ Sound(g) /\ g.fault = heap.fault
        /\ Allocated(g) = Allocated(heap) \ {p - kMetadataSize}
        /\ \A x \in Allocated(g) : g.block[x].size = heap.block[x].size
    BY <2>1, <2>2, ReleaseSound
  <2>. HIDE DEF g
  <2>4. Client(g, [q \in DOMAIN live \ {p} |-> live[q]])
    BY <2>1, <2>3, ClientFree
  <2>5. heap' = g /\ Client(g, live')
    BY <1>2, <2>4 DEF g
  <2>6. QED
    BY <2>1, <2>3, <2>5 DEF IInv
<1>3. QED
  BY <1>1, <1>2 DEF my_free

\* An address outside of every mapping has no header below it.
LEMMA ForeignSound ==
  ASSUME IInv, NEW p \in ForeignPtrs \cup {NULL}, Foreign(p), my_free(p)
  PROVE  IInv' /\ live' = live /\ heap' \in {heap, Faulted(heap, "foreign")}
<1>1. CASE UNCHANGED vars
  BY <1>1 DEF IInv, vars
<1>2. CASE /\ is_valid(heap, p)
           /\ heap' = release(heap, p)
           /\ live' = [q \in DOMAIN live \ {p} |-> live[q]]
  <2>. DEFINE b == p - kMetadataSize
  <2>1. Sound(heap) /\ Client(heap, live) /\ HeapType(heap) /\ ChunksApart(heap) /\ Tiled(heap)
    BY DEF IInv, Sound, SoundBut
  <2>2. p \in Int
    BY ForeignPtrsAssumption DEF NULL
  <2>3. b \notin Blocks(heap)
    <3>1. SUFFICES ASSUME b \in Blocks(heap) PROVE FALSE
      OBVIOUS
    <3>. DEFINE i == heap.block[b].index
                c == heap.ch_array[i]
    <3>2. /\ i \in ChunkIds(heap) /\ c.start <= b /\ EndOf(heap, b) <= c.end
          /\ heap.block[b].size >= 32
      BY <2>1, <3>1 DEF Tiled, InChunk, kMetadataSize, SizeofFooter
    <3>3. /\ c.start = c.base + 16 /\ c.end = c.base + heap.corr_size_arr[i]
          /\ i \in DOMAIN heap.ch_array
      BY <2>1, <3>2 DEF ChunksApart, SizeofChunk, HeapType
    <3>4. /\ b \in Nat /\ heap.block[b].size \in Nat /\ EndOf(heap, b) = b + heap.block[b].size
          /\ c.base \in Nat /\ c.end \in Nat /\ b = p - 16
      BY <2>1, <3>1, <3>2, BlockType, ChunkType DEF EndOf, kMetadataSize
    <3>5. p < c.base \/ p >= c.base + heap.corr_size_arr[i]
      BY <3>3 DEF Foreign
    <3>. HIDE DEF b, i, c
    <3>6. p < c.base \/ p >= c.end
      BY <3>3, <3>5 DEF c, i
    <3>7. QED
      BY <2>2, <3>2, <3>3, <3>4, <3>6
  <2>4. heap' = Faulted(heap, "foreign")
    BY <1>2, <2>3 DEF release, ptr_to_block, Blocks
  <2>5. p \notin DOMAIN live
    BY <2>1, <2>3, ClientBlock DEF Allocated
  <2>6. live' = live
    BY <1>2, <2>1, <2>5 DEF Client
  <2>7. /\ Sound(Faulted(heap, "foreign")) /\ SameAllocated(heap, Faulted(heap, "foreign"))
        /\ Faulted(heap, "foreign").fault = "foreign"
    BY <2>1, FaultedSound DEF Faults
  <2>8. Client(Faulted(heap, "foreign"), live)
    BY <2>1, <2>7, ClientSame
  <2>9. QED
    BY <2>4, <2>6, <2>7, <2>8 DEF IInv
<1>3. QED
  BY <1>1, <1>2 DEF my_free

-----------------------------------------------------------------------------
(* The theorems *)

\* The heap is sound in every reachable state.
THEOREM Soundness == ASSUME Ascending = TRUE PROVE Spec => []IInv
<1>1. IInv /\ [Next]_vars => IInv'
  <2>1. SUFFICES ASSUME IInv, [Next]_vars PROVE IInv'
    OBVIOUS
  <2>2. CASE \E size \in Requests : my_malloc(size)
    BY <2>1, <2>2, MallocSound
  <2>3. CASE \E p \in DOMAIN live : my_free(p)
    BY <2>1, <2>3, FreeSound
  <2>4. CASE \E p \in ForeignPtrs \cup {NULL} : Foreign(p) /\ my_free(p)
    BY <2>1, <2>4, ForeignSound
  <2>5. CASE UNCHANGED vars
    BY <2>1, <2>5 DEF IInv, vars
  <2>6. QED
    BY <2>1, <2>2, <2>3, <2>4, <2>5 DEF Next
<1>2. QED
  BY InitSound, <1>1, PTL DEF Spec

\* Every variable keeps holding values of the C types that store it.
THEOREM TypeCorrectness == ASSUME Ascending = TRUE PROVE Spec => []TypeOK
<1>1. IInv => TypeOK
  BY DEF IInv, Sound, SoundBut, Client, TypeOK
<1>2. QED
  BY Soundness, <1>1, PTL

\* However blocks are split and merged, they tile their chunk.
THEOREM Tiling == ASSUME Ascending = TRUE PROVE Spec => []BlocksTileChunks
<1>1. IInv => BlocksTileChunks
  BY DEF IInv, Sound, SoundBut, BlocksTileChunks
<1>2. QED
  BY Soundness, <1>1, PTL

\* The bit a block keeps about its left neighbour is right.
THEOREM PrevBitsRight == ASSUME Ascending = TRUE PROVE Spec => []PrevBitsExact
<1>1. IInv => PrevBitsExact
  BY DEF IInv, Sound, SoundBut, PrevBitsExact
<1>2. QED
  BY Soundness, <1>1, PTL

\* Coalescing leaves no two free neighbours.
THEOREM Coalescing == ASSUME Ascending = TRUE PROVE Spec => []NoFreeNeighbours
<1>1. IInv => NoFreeNeighbours
  BY DEF IInv, Sound, SoundBut, NoFreeNeighbours
<1>2. QED
  BY Soundness, <1>1, PTL

\* The free lists hold the free blocks, each once, in the list of its size.
THEOREM ListsExact == ASSUME Ascending = TRUE PROVE Spec => []FreeListsExact
<1>1. IInv => FreeListsExact
  BY DEF IInv, Sound, SoundBut, FreeListsExact
<1>2. QED
  BY Soundness, <1>1, PTL

\* Every block ends in a footer that leads back to its header.
THEOREM FootersRight == ASSUME Ascending = TRUE PROVE Spec => []FootersExact
<1>1. IInv => FootersExact
  BY DEF IInv, Sound, SoundBut, FootersExact
<1>2. QED
  BY Soundness, <1>1, PTL

\* What the client holds is what is allocated, with room for what it asked for.
THEOREM LiveFits == ASSUME Ascending = TRUE PROVE Spec => []LiveBlocksFit
<1>1. IInv => LiveBlocksFit
  BY DEF IInv, Client, LiveBlocksFit
<1>2. QED
  BY Soundness, <1>1, PTL

\* No header or footer is read where there is none.
THEOREM NoWild == ASSUME Ascending = TRUE PROVE Spec => []NoWildAccess
<1>1. IInv => NoWildAccess
  BY DEF IInv, NoWildAccess
<1>2. QED
  BY Soundness, <1>1, PTL

\* A chunk of which the client holds nothing is one free block: a block that
\* starts elsewhere has a free left neighbour.
THEOREM Defragmented == ASSUME Ascending = TRUE PROVE Spec => []AllFreeMeansWhole
<1>1. IInv => AllFreeMeansWhole
  <2>1. SUFFICES ASSUME IInv, DOMAIN live = {}
        PROVE  Blocks(heap) = {heap.ch_array[i].start : i \in ChunkIds(heap)}
    BY DEF AllFreeMeansWhole
  <2>2. Tiled(heap) /\ Coalesced(heap, {})
    BY <2>1 DEF IInv, Sound, SoundBut
  <2>3. \A b \in Blocks(heap) : IsFree(heap, b)
    BY <2>1 DEF IInv, Client, Allocated
  <2>4. ASSUME NEW b \in Blocks(heap)
        PROVE  /\ heap.block[b].index \in ChunkIds(heap)
               /\ b = heap.ch_array[heap.block[b].index].start
    BY <2>2, <2>3 DEF Tiled, InChunk, Coalesced
  <2>5. \A i \in ChunkIds(heap) : heap.ch_array[i].start \in Blocks(heap)
    BY <2>2 DEF Tiled
  <2>6. QED
    BY <2>4, <2>5
<1>2. QED
  BY Soundness, <1>1, PTL

-----------------------------------------------------------------------------
(* What the client holds *)

\* A pointer the client holds is a word of the address space.
LEMMA HeldAligned ==
  ASSUME NEW h, Sound(h), Grid(h), NEW l, Client(h, l), NEW p \in DOMAIN l
  PROVE  p \in Addr /\ p % kAlignment = 0
<1>. DEFINE b == p - kMetadataSize
<1>1. /\ b \in Blocks(h) /\ b \in Nat /\ p \in Nat /\ p = b + kMetadataSize
      /\ l[p] \in Nat /\ p + l[p] + SizeofFooter <= EndOf(h, b)
  BY ClientBlock DEF Allocated, Client
<1>2. b % 8 = 0 /\ EndOf(h, b) <= MmapTop /\ EndOf(h, b) \in Nat
  BY <1>1, EndOnGrid, BlockType DEF Grid, kAlignment, Sound, SoundBut
<1>. HIDE DEF b
<1>3. p % 8 = 0 /\ p <= MmapTop
  BY <1>1, <1>2, LimitsAssumption DEF kMetadataSize, SizeofFooter
<1>4. p \div 8 \in 0 .. MmapTop \div 8 /\ p = 8 * (p \div 8)
  BY <1>1, <1>3, LimitsAssumption
<1>5. QED
  BY <1>3, <1>4 DEF Addr, kAlignment

-----------------------------------------------------------------------------
(* The steps *)

\* g and m are what my_malloc leaves of h and l when it hands out the block a
\* it got out of b, a block of h2: the heap after the requests to the OS.
Served(h, l, size, h1, h2, b, a, g, m) ==
  LET total == total_size(size)
  IN  /\ h1 \in first_chunk(h, total) /\ h2 \in another_chunk(h1, total)
      /\ Requested(h, h1) /\ Requested(h1, h2) /\ h2.fault = "none"
      /\ b \in chosen(h1, h2, total) /\ b \in Blocks(h2) /\ IsFree(h2, b)
      /\ h2.block[b].size >= total
      /\ Allocates(h2, g, a, total)
      /\ a \in {b, EndOf(h2, b) - total} /\ b <= a /\ a < EndOf(h2, b)
      /\ m = [q \in DOMAIN l \cup {a + kMetadataSize} |->
                IF q = a + kMetadataSize THEN size ELSE l[q]]

\* my_malloc hands out nothing, and has asked the OS or not, or it serves.
LEMMA MallocOutcome ==
  ASSUME Ascending = TRUE, IInv, NEW size \in Requests, my_malloc(size)
  PROVE  \/ /\ live' = live
            /\ \E h1, h2 : /\ Requested(heap, h1) /\ Requested(h1, h2)
                           /\ heap' \in {h2, Faulted(h2, "null")}
         \/ /\ size > 0
            /\ \E h1, h2, b, a : Served(heap, live, size, h1, h2, b, a, heap', live')
<1>. DEFINE total == total_size(size)
            Ends(h1, h2) ==
                \/ /\ h2.fault # "none"
                   /\ heap' = h2
                   /\ UNCHANGED live
                \/ /\ h2.fault = "none"
                   /\ chosen(h1, h2, total) = {}
                   /\ heap' = Faulted(h2, "null")
                   /\ UNCHANGED live
                \/ /\ h2.fault = "none"
                   /\ \E b \in chosen(h1, h2, total) :
                        LET r == allocate(h2, b, total)
                            p == r.block + kMetadataSize
                        IN  /\ heap' = r.heap
                            /\ live' = [q \in DOMAIN live \cup {p} |->
                                          IF q = p THEN size ELSE live[q]]
<1>1. CASE UNCHANGED vars
  <2>1. Requested(heap, heap)
    BY DEF IInv, Requested, SameAllocated
  <2>2. QED
    BY <1>1, <2>1 DEF vars
<1>2. CASE /\ size > 0 /\ size <= kMaxAllocationSize
           /\ \E h1 \in first_chunk(heap, total) : \E h2 \in another_chunk(h1, total) : Ends(h1, h2)
  <2>1. size \in Nat /\ total \in Nat /\ total >= size + 32
    BY RequestsAssumption, TotalSize
  <2>. HIDE DEF total
  <2>7. PICK h1 \in first_chunk(heap, total) : \E h2 \in another_chunk(h1, total) : Ends(h1, h2)
    BY <1>2
  <2>2. PICK h2 \in another_chunk(h1, total) : Ends(h1, h2)
    BY <2>7
  <2>3. Requested(heap, h1) /\ Requested(h1, h2) /\ Sound(h1) /\ Sound(h2)
    BY <2>1, RequestsSound DEF IInv, Requested
  <2>4. CASE live' = live /\ heap' \in {h2, Faulted(h2, "null")}
    BY <2>3, <2>4
  <2>5. ASSUME h2.fault = "none", NEW b \in chosen(h1, h2, total),
               heap' = allocate(h2, b, total).heap,
               live' = [q \in DOMAIN live \cup {allocate(h2, b, total).block + kMetadataSize} |->
                          IF q = allocate(h2, b, total).block + kMetadataSize
                          THEN size ELSE live[q]]
        PROVE  \E a : Served(heap, live, size, h1, h2, b, a, heap', live')
    <3>. DEFINE a == allocate(h2, b, total).block
    <3>1. b \in Blocks(h2) /\ IsFree(h2, b) /\ h2.block[b].size >= total
      BY <2>1, <2>3, ChosenFits
    <3>2. /\ Allocates(h2, heap', a, total)
          /\ a \in {b, EndOf(h2, b) - total} /\ b <= a /\ a < EndOf(h2, b)
      BY <2>1, <2>3, <2>5, <3>1, AllocateSound
    <3>3. live' = [q \in DOMAIN live \cup {a + kMetadataSize} |->
                     IF q = a + kMetadataSize THEN size ELSE live[q]]
      BY <2>5
    <3>. HIDE DEF a
    <3>4. Served(heap, live, size, h1, h2, b, a, heap', live')
      BY <2>3, <2>5, <3>1, <3>2, <3>3 DEF Served, total
    <3>5. QED
      BY <3>4
  <2>6. QED
    BY <1>2, <2>2, <2>4, <2>5
<1>3. QED
  BY <1>1, <1>2 DEF my_malloc

\* The invariant of the refinement.
GridInv == IInv /\ Grid(heap)

\* Every step of MyMalloc keeps the blocks and chunks on the grid.
LEMMA GridStep ==
  ASSUME Ascending = TRUE, GridInv, [Next]_vars
  PROVE  Grid(heap')
<1>1. IInv /\ Grid(heap) /\ Sound(heap) /\ Client(heap, live)
  BY DEF GridInv, IInv
<1>2. ASSUME NEW size \in Requests, my_malloc(size) PROVE Grid(heap')
  <2>1. ASSUME NEW h1, NEW h2, Requested(heap, h1), Requested(h1, h2)
        PROVE  Grid(h2) /\ Sound(h2)
    BY <1>1, <2>1, GridRequested DEF Requested
  <2>2. ASSUME NEW h1, NEW h2, Requested(heap, h1), Requested(h1, h2),
               heap' \in {h2, Faulted(h2, "null")}
        PROVE  Grid(heap')
    BY <2>1, <2>2, GridFaulted
  <2>3. ASSUME NEW h1, NEW h2, NEW b, NEW a,
               Served(heap, live, size, h1, h2, b, a, heap', live')
        PROVE  Grid(heap')
    <3>1. total_size(size) \in Nat /\ total_size(size) % kAlignment = 0
      BY RequestsAssumption, TotalSize, TotalAligned
    <3>2. Grid(h2) /\ Sound(h2)
      BY <2>1, <2>3 DEF Served
    <3>3. QED
      BY <2>3, <3>1, <3>2, GridAllocated DEF Served
  <2>4. QED
    BY <1>1, <1>2, <2>2, <2>3, MallocOutcome
<1>3. ASSUME NEW p \in DOMAIN live, my_free(p) PROVE Grid(heap')
  <2>1. CASE UNCHANGED vars
    BY <1>1, <2>1 DEF vars
  <2>2. CASE heap' = release(heap, p)
    <3>1. p - kMetadataSize \in Allocated(heap) /\ p \in Int
      BY <1>1, ClientBlock
    <3>2. /\ SameChunks(heap, release(heap, p))
          /\ Blocks(release(heap, p)) \subseteq Blocks(heap)
      BY <1>1, <3>1, ReleaseSound
    <3>3. QED
      BY <1>1, <2>2, <3>2, GridShrunk
  <2>3. QED
    BY <1>3, <2>1, <2>2 DEF my_free
<1>4. ASSUME NEW p \in ForeignPtrs \cup {NULL}, Foreign(p), my_free(p) PROVE Grid(heap')
  <2>1. heap' \in {heap, Faulted(heap, "foreign")}
    BY <1>1, <1>4, ForeignSound
  <2>2. QED
    BY <1>1, <2>1, GridFaulted
<1>5. CASE UNCHANGED vars
  BY <1>1, <1>5 DEF vars
<1>6. QED
  BY <1>2, <1>3, <1>4, <1>5 DEF Next

\* A step of MyMalloc is a step of Allocator, or changes nothing for the client.
LEMMA StepRefines ==
  ASSUME Ascending = TRUE, IInv, IInv', Grid(heap'), [Next]_vars
  PROVE  [Promise!Next]_live
<1>1. /\ Sound(heap) /\ Client(heap, live)
      /\ Sound(heap') /\ Client(heap', live') /\ Grid(heap')
  BY DEF IInv
<1>2. ASSUME NEW size \in Requests, my_malloc(size) PROVE [Promise!Next]_live
  <2>1. ASSUME NEW h1, NEW h2, NEW b, NEW a,
               Served(heap, live, size, h1, h2, b, a, heap', live')
        PROVE  Promise!Malloc(size)
    <3>. DEFINE p == a + kMetadataSize
    <3>1. live' = [q \in DOMAIN live \cup {p} |-> IF q = p THEN size ELSE live[q]]
      BY <2>1 DEF Served
    <3>2. /\ a \notin Allocated(h2) /\ a \in Allocated(heap')
          /\ Allocated(h2) = Allocated(heap)
      BY <2>1 DEF Served, Allocates, Requested, SameAllocated
    <3>3. a \in Nat
      BY <1>1, <3>2, BlockType DEF Allocated, Sound, SoundBut
    <3>4. p \notin DOMAIN live
      <4>1. p - kMetadataSize = a
        BY <3>3 DEF kMetadataSize
      <4>2. QED
        BY <1>1, <3>2, <4>1, ClientBlock
    <3>. HIDE DEF p
    <3>5. /\ DOMAIN live' = DOMAIN live \cup {p} /\ live'[p] = size
          /\ \A q \in DOMAIN live : live'[q] = live[q]
      BY <3>1, <3>4
    <3>6. p \in Addr \ DOMAIN live /\ p % kAlignment = 0
      BY <1>1, <3>4, <3>5, HeldAligned
    <3>7. ASSUME NEW q \in DOMAIN live
          PROVE  \/ p + size + SizeofFooter <= q - kMetadataSize
                 \/ q + live[q] + SizeofFooter <= p - kMetadataSize
      <4>1. p \in DOMAIN live' /\ q \in DOMAIN live' /\ p # q
        BY <3>4, <3>5
      <4>2. \/ p + live'[p] + SizeofFooter <= q - kMetadataSize
            \/ q + live'[q] + SizeofFooter <= p - kMetadataSize
        BY <1>1, <4>1, HeldApart
      <4>3. QED
        BY <3>5, <4>2
    <3>8. QED
      BY <3>1, <3>6, <3>7 DEF Promise!Malloc, Promise!Apart
  <2>2. CASE live' = live
    BY <2>2
  <2>3. QED
    BY <1>2, <2>1, <2>2, MallocOutcome DEF Promise!Next
<1>3. ASSUME NEW p \in DOMAIN live, my_free(p) PROVE [Promise!Next]_live
  <2>1. CASE UNCHANGED vars
    BY <2>1 DEF vars
  <2>2. CASE live' = [q \in DOMAIN live \ {p} |-> live[q]]
    BY <2>2 DEF Promise!Next, Promise!Free
  <2>3. QED
    BY <1>3, <2>1, <2>2 DEF my_free
<1>4. ASSUME NEW p \in ForeignPtrs \cup {NULL}, Foreign(p), my_free(p)
      PROVE  [Promise!Next]_live
  BY <1>4, ForeignSound
<1>5. CASE UNCHANGED vars
  BY <1>5 DEF vars
<1>6. QED
  BY <1>2, <1>3, <1>4, <1>5 DEF Next

-----------------------------------------------------------------------------
(* The choice of the block *)

\* What the requests leave: the heap as it was, or one with more chunks, and
\* then no block fitted before.
LEMMA RequestsGrow ==
  ASSUME NEW h, Sound(h), h.fault = "none", NEW n \in Nat,
         NEW h1 \in first_chunk(h, n), NEW h2 \in another_chunk(h1, n),
         Requested(h, h1), Requested(h1, h2), h2.fault = "none"
  PROVE  \/ h1 = h /\ h2 = h
         \/ /\ h2.index_last_chunk_from_OS > h.index_last_chunk_from_OS
            /\ {b \in Blocks(h) : IsFree(h, b) /\ h.block[b].size >= n} = {}
<1>1. h1.fault = "none"
  <2>1. CASE h1.fault = "none"
    BY <2>1
  <2>2. CASE h1.fault # "none"
    BY <2>2 DEF another_chunk
  <2>3. QED
    BY <2>1, <2>2
<1>2. ASSUME NEW f, NEW g, Sound(f), Requested(f, g), g # f, g.fault = "none"
      PROVE  /\ g.index_last_chunk_from_OS = f.index_last_chunk_from_OS + 1
             /\ f.index_last_chunk_from_OS \in Int
  <2>1. HeapType(f)
    BY <1>2 DEF Sound, SoundBut
  <2>2. f = [index_last_chunk_from_OS |-> f.index_last_chunk_from_OS,
             ch_array |-> f.ch_array, corr_size_arr |-> f.corr_size_arr,
             free_lists |-> f.free_lists, block |-> f.block,
             footer |-> f.footer, fault |-> f.fault]
    BY <2>1 DEF HeapType
  <2>3. Faulted(f, "table").fault = "table"
    BY <2>2 DEF Faulted
  <2>4. g # Faulted(f, "table")
    BY <1>2, <2>3
  <2>5. PICK base \in Nat, len \in Nat : MapsChunk(f, g, base, len)
    BY <1>2, <2>4 DEF Requested
  <2>6. f.index_last_chunk_from_OS \in Int
    BY <2>1, LimitsAssumption DEF HeapType
  <2>7. QED
    BY <2>5, <2>6 DEF MapsChunk
<1>3. CASE h1 # h
  <2>1. h.index_last_chunk_from_OS = -1
    BY <1>3 DEF first_chunk
  <2>2. Blocks(h) = {}
    BY <2>1 DEF Sound, SoundBut, Tiled, InChunk, ChunkIds
  <2>3. Sound(h1) /\ h1.index_last_chunk_from_OS = 0
    BY <1>1, <1>2, <1>3, <2>1 DEF Requested
  <2>4. h2.index_last_chunk_from_OS \in {0, 1}
    BY <1>2, <2>3
  <2>5. QED
    BY <2>1, <2>2, <2>4
<1>4. CASE h1 = h /\ h2 # h
  <2>1. best_fit(h, n) = {}
    BY <1>4 DEF another_chunk
  <2>2. h2.index_last_chunk_from_OS > h.index_last_chunk_from_OS
    BY <1>2, <1>4
  <2>3. QED
    BY <2>1, <2>2, BestFitFound
<1>5. QED
  BY <1>3, <1>4

\* Without a new chunk the block comes from the search over all lists.
LEMMA ServedBestFit ==
  ASSUME Ascending = TRUE, IInv, Running, NEW size \in Requests,
         NEW h1, NEW h2, NEW b, NEW a,
         Served(heap, live, size, h1, h2, b, a, heap', live'),
         NEW p, p = a + kMetadataSize
  PROVE  IF heap'.index_last_chunk_from_OS > heap.index_last_chunk_from_OS
         THEN Fits(size) = {}
         ELSE \E c \in Fits(size) :
                /\ CutFrom(p, c)
                /\ \A x \in Fits(size) : heap.block[c].size <= heap.block[x].size
<1>. DEFINE n == total_size(size)
<1>1. /\ Sound(heap) /\ heap.fault = "none" /\ n \in Nat
      /\ h1 \in first_chunk(heap, n) /\ h2 \in another_chunk(h1, n)
      /\ Requested(heap, h1) /\ Requested(h1, h2) /\ h2.fault = "none"
      /\ b \in chosen(h1, h2, n) /\ b \in Blocks(h2) /\ IsFree(h2, b)
      /\ h2.block[b].size >= n
      /\ b <= a /\ a < EndOf(h2, b) /\ a \in {b, EndOf(h2, b) - n}
  BY RequestsAssumption, TotalSize DEF Served, IInv, Running
<1>2. heap'.index_last_chunk_from_OS = h2.index_last_chunk_from_OS
  BY DEF Served, Allocates, SameChunks
<1>3. Fits(size) = {x \in Blocks(heap) : IsFree(heap, x) /\ heap.block[x].size >= n}
  BY DEF Fits
<1>4. heap.index_last_chunk_from_OS \in Int
  BY <1>1 DEF Sound, SoundBut, HeapType
<1>. HIDE DEF n
<1>5. CASE h1 = heap /\ h2 = heap
  <2>1. b \in Fits(size)
    BY <1>1, <1>3, <1>5
  <2>2. b \in best_fit(heap, n)
    BY <1>1, <1>3, <1>5, <2>1, BestFitFound DEF chosen
  <2>3. \A x \in Fits(size) : heap.block[b].size <= heap.block[x].size
    BY <1>1, <1>3, <2>2, BestFitLeast
  <2>4. CutFrom(p, b)
    <3>1. b \in Nat /\ EndOf(heap, b) \in Nat
      BY <1>1, <1>5, BlockType DEF Sound, SoundBut
    <3>2. a \in Int
      BY <1>1, <1>5, <3>1
    <3>3. p - kMetadataSize = a
      BY <3>2 DEF kMetadataSize
    <3>4. QED
      BY <1>1, <1>5, <3>3 DEF CutFrom
  <2>5. ~(heap'.index_last_chunk_from_OS > heap.index_last_chunk_from_OS)
    BY <1>2, <1>4, <1>5
  <2>6. QED
    BY <2>1, <2>3, <2>4, <2>5
<1>6. CASE /\ h2.index_last_chunk_from_OS > heap.index_last_chunk_from_OS
           /\ {x \in Blocks(heap) : IsFree(heap, x) /\ heap.block[x].size >= n} = {}
  BY <1>2, <1>3, <1>6
<1>7. QED
  BY <1>1, <1>5, <1>6, RequestsGrow

\* Every step of MyMalloc takes a best fit; those that do not allocate take none.
LEMMA StepBestFit ==
  ASSUME Ascending = TRUE, IInv, [Next]_vars
  PROVE  BestFitStep
<1>1. ASSUME NEW size \in Requests, my_malloc(size) PROVE BestFitStep
  <2>1. CASE live' = live
    BY <2>1 DEF BestFitStep
  <2>2. ASSUME NEW h1, NEW h2, NEW b, NEW a,
               Served(heap, live, size, h1, h2, b, a, heap', live')
        PROVE  BestFitStep
    <3>. DEFINE p == a + kMetadataSize
    <3>1. Running
      BY <1>1 DEF my_malloc
    <3>2. live' = [q \in DOMAIN live \cup {p} |-> IF q = p THEN size ELSE live[q]]
      BY <2>2 DEF Served
    <3>3. IF heap'.index_last_chunk_from_OS > heap.index_last_chunk_from_OS
          THEN Fits(size) = {}
          ELSE \E c \in Fits(size) :
                 /\ CutFrom(p, c)
                 /\ \A x \in Fits(size) : heap.block[c].size <= heap.block[x].size
      BY <2>2, <3>1, ServedBestFit
    <3>. HIDE DEF p
    <3>4. ASSUME NEW q \in DOMAIN live' \ DOMAIN live PROVE q = p /\ live'[q] = size
      BY <3>2
    <3>5. QED
      BY <3>3, <3>4 DEF BestFitStep
  <2>3. QED
    BY <1>1, <2>1, <2>2, MallocOutcome
<1>2. ASSUME NEW p \in DOMAIN live, my_free(p) PROVE BestFitStep
  <2>1. DOMAIN live' \subseteq DOMAIN live
    BY <1>2 DEF my_free, vars
  <2>2. QED
    BY <2>1 DEF BestFitStep
<1>3. ASSUME NEW p \in ForeignPtrs \cup {NULL}, Foreign(p), my_free(p) PROVE BestFitStep
  BY <1>3, ForeignSound DEF BestFitStep
<1>4. CASE UNCHANGED vars
  BY <1>4 DEF vars, BestFitStep
<1>5. QED
  BY <1>1, <1>2, <1>3, <1>4 DEF Next

-----------------------------------------------------------------------------
(* The walks over the heap *)

\* The loop of the internal tests.
LEMMA AllBlocksMet ==
  ASSUME NEW h, Sound(h), Grid(h), ChunkIds(h) # {}
  PROVE  LET s == all_blocks(h)
         IN  /\ Elements(s) = Blocks(h)
             /\ \A k \in DOMAIN s \ {1} : s[k - 1] < s[k]
             /\ get_next_block(h, s[Len(s)]) = NULL
<1>. DEFINE next == [b \in DOMAIN h.block |-> get_next_block(h, b)]
            W    == Blocks(h)
            p    == h.ch_array[0].start
            n    == Cardinality(DOMAIN h.block)
            s    == Follow(next, p, n)
<1>1. HeapType(h) /\ Tiled(h)
  BY DEF Sound, SoundBut
<1>2. W = DOMAIN next /\ \A b \in W : next[b] = get_next_block(h, b)
  BY DEF Blocks
<1>3. IsFiniteSet(W) /\ W \subseteq Nat \ {NULL} /\ n \in Nat /\ n = Cardinality(W)
  BY <1>1, FiniteBlocks, FS_CardinalityType DEF HeapType, Blocks
<1>4. p \in W
  <2>1. 0 \in ChunkIds(h)
    BY <1>1, LimitsAssumption DEF ChunkIds, HeapType
  <2>2. QED
    BY <1>1, <2>1 DEF Tiled
<1>. HIDE DEF next, n
<1>5. \A b \in W : next[b] = NULL \/ (next[b] \in W /\ b < next[b])
  BY <1>2, NextUpwards
<1>6. \A b \in W \ {p} : \E a \in W : next[a] = b
  BY <1>2, NextReaches
<1>. HIDE DEF W, p
<1>7. /\ s \in Seq(W) /\ s # << >> /\ Elements(s) = W
      /\ \A k \in DOMAIN s \ {1} : s[k - 1] < s[k]
      /\ next[s[Len(s)]] = NULL
  BY <1>2, <1>3, <1>4, <1>5, <1>6, FollowMeets
<1>8. s[Len(s)] \in W
  BY <1>7
<1>9. all_blocks(h) = s
  BY DEF all_blocks, get_start_block, next, p, n
<1>. HIDE DEF s
<1>10. QED
  BY <1>2, <1>7, <1>8, <1>9 DEF W

\* What print_heap prints.
LEMMA ChunkPrinted ==
  ASSUME NEW h, Sound(h), Grid(h), NEW i \in ChunkIds(h)
  PROVE  Elements(print_heap(h, i)) = {b \in Blocks(h) : h.block[b].index = i}
<1>. DEFINE c    == h.ch_array[i]
            In(b) == IF b < c.base + h.corr_size_arr[i] THEN b ELSE NULL
            next == [b \in DOMAIN h.block |-> In(get_next_block(h, b))]
            W    == {b \in Blocks(h) : h.block[b].index = i}
            n    == Cardinality(DOMAIN h.block)
            s    == Follow(next, c.start, n)
<1>1. HeapType(h) /\ ChunksApart(h) /\ Tiled(h)
  BY DEF Sound, SoundBut
<1>2. c.base + h.corr_size_arr[i] = c.end /\ c.end \in Nat /\ c.start < c.end
  BY <1>1, ChunkType DEF ChunksApart
<1>3. \A b \in Blocks(h) : b \in DOMAIN next /\ next[b] = In(get_next_block(h, b))
  BY DEF Blocks
<1>4. /\ IsFiniteSet(W) /\ W \subseteq Nat \ {NULL} /\ W \subseteq DOMAIN next
      /\ n \in Nat /\ Cardinality(W) <= n
  <2>1. IsFiniteSet(Blocks(h)) /\ W \in SUBSET Blocks(h) /\ n = Cardinality(Blocks(h))
    BY FiniteBlocks DEF Blocks
  <2>2. IsFiniteSet(W) /\ Cardinality(W) <= n /\ n \in Nat
    BY <2>1, FS_Subset, FS_CardinalityType
  <2>3. QED
    BY <1>1, <1>3, <2>2 DEF HeapType
<1>5. c.start \in W
  BY <1>1 DEF Tiled
<1>. HIDE DEF next, n
<1>6. ASSUME NEW b \in W
      PROVE  /\ EndOf(h, b) # c.end => next[b] = EndOf(h, b) /\ next[b] \in W /\ b < next[b]
             /\ EndOf(h, b) = c.end => next[b] = NULL
  <2>1. b \in Nat /\ EndOf(h, b) \in Nat /\ b < EndOf(h, b)
    BY <1>1, BlockType DEF Tiled, EndOf, kMetadataSize, SizeofFooter
  <2>2. CASE EndOf(h, b) # c.end
    <3>1. /\ EndOf(h, b) < c.end /\ get_next_block(h, b) = EndOf(h, b)
          /\ EndOf(h, b) \in W
      BY <1>1, <2>2, NextBlock
    <3>2. QED
      BY <1>2, <1>3, <2>1, <2>2, <3>1
  <2>3. CASE EndOf(h, b) = c.end
    <3>1. get_next_block(h, b) = IF i + 1 \in ChunkIds(h) THEN h.ch_array[i + 1].start ELSE NULL
      BY <2>3, NextChunk
    <3>2. CASE i + 1 \in ChunkIds(h)
      <4>1. /\ h.ch_array[i + 1].start > c.end /\ h.ch_array[i + 1].start \in Nat
        BY <3>2, ChunkAbove
      <4>2. ~(h.ch_array[i + 1].start < c.base + h.corr_size_arr[i])
        BY <1>2, <4>1
      <4>3. QED
        BY <1>3, <2>3, <3>1, <3>2, <4>2
    <3>3. CASE i + 1 \notin ChunkIds(h)
      BY <1>3, <2>3, <3>1, <3>3
    <3>4. QED
      BY <3>2, <3>3
  <2>4. QED
    BY <2>2, <2>3
<1>7. \A b \in W : next[b] = NULL \/ (next[b] \in W /\ b < next[b])
  BY <1>6
<1>8. ASSUME NEW b \in W \ {c.start} PROVE \E a \in W : next[a] = b
  <2>1. PICK a \in Blocks(h) : EndOf(h, a) = b /\ h.block[a].index = i
    BY <1>1, <1>8 DEF Tiled, InChunk
  <2>2. b < c.end /\ b \in Nat
    BY <1>1, <2>1, NeighbourInChunk, BlockType
  <2>3. a \in W /\ EndOf(h, a) # c.end
    BY <1>2, <2>1, <2>2
  <2>4. QED
    BY <1>6, <2>1, <2>3
<1>. HIDE DEF W
<1>9. Elements(s) = W
  BY <1>4, <1>5, <1>7, <1>8, FollowMeets
<1>10. print_heap(h, i) = s
  BY DEF print_heap, next, n
<1>11. QED
  BY <1>9, <1>10 DEF W

-----------------------------------------------------------------------------
(* The theorems *)

\* The heap is sound and on the grid in every reachable state.
THEOREM OnGrid == ASSUME Ascending = TRUE PROVE Spec => []GridInv
<1>1. Init => GridInv
  BY InitSound, GridInit DEF Init, GridInv
<1>2. GridInv /\ [Next]_vars /\ IInv' => GridInv'
  BY GridStep DEF GridInv
<1>3. QED
  BY Soundness, <1>1, <1>2, PTL DEF Spec

\* What my_malloc hands out is aligned, disjoint from all that is live,
\* bookkeeping included, and stays the client's until it is freed.
THEOREM RefinesAllocator == ASSUME Ascending = TRUE PROVE Spec => ImplementsAllocator
<1>1. Init => Promise!Init
  BY DEF Init, Promise!Init
<1>2. GridInv /\ GridInv' /\ [Next]_vars => [Promise!Next]_live
  BY StepRefines DEF GridInv
<1>3. QED
  BY OnGrid, <1>1, <1>2, PTL DEF Spec, ImplementsAllocator, Promise!Spec

\* A block is cut from a smallest free block that fits among all the blocks of
\* the heap, and the OS is asked only when none fits.
THEOREM TakesBestFit == ASSUME Ascending = TRUE PROVE Spec => BestFit
<1>1. IInv /\ [Next]_vars => [BestFitStep]_vars
  BY StepBestFit
<1>2. QED
  BY Soundness, <1>1, PTL DEF Spec, BestFit

\* The loops that count and print the blocks meet each block of each chunk
\* once, in order of address, and end.
THEOREM WalksExact == ASSUME Ascending = TRUE PROVE Spec => []HeapWalkExact
<1>1. GridInv => HeapWalkExact
  BY AllBlocksMet, ChunkPrinted DEF GridInv, IInv, HeapWalkExact
<1>2. QED
  BY OnGrid, <1>1, PTL
=============================================================================
