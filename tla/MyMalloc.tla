------------------------------ MODULE MyMalloc ------------------------------
(***************************************************************************)
(* The allocator of src/mymalloc.c driven by a client that obeys its       *)
(* contract: any sizes are asked for, and my_free gets NULL, a pointer     *)
(* obtained from my_malloc and not freed since, or an address the          *)
(* allocator never mapped. The code has no threads and takes no locks: a   *)
(* call is one step.                                                       *)
(***************************************************************************)
EXTENDS HeapInvariant

CONSTANTS
  Requests,      \* sizes the client asks for
  ForeignPtrs    \* addresses of other memory the client may pass to my_free

VARIABLES
  heap,   \* the allocator's memory
  live    \* the client's: pointer it holds -> size it asked for

vars == <<heap, live>>

ASSUME RequestsAssumption == Requests \subseteq Nat

ASSUME ForeignPtrsAssumption == ForeignPtrs \subseteq Nat

Running == heap.fault = "none"

my_malloc(size) ==
  LET total == total_size(size) IN
  /\ Running
  /\ \/ /\ size = 0 \/ size > kMaxAllocationSize
        /\ UNCHANGED vars
     \/ /\ size > 0 /\ size <= kMaxAllocationSize
        /\ \E h1 \in first_chunk(heap, total) : \E h2 \in another_chunk(h1, total) :
             \/ /\ h2.fault # "none"
                /\ heap' = h2
                /\ UNCHANGED live
             \/ /\ h2.fault = "none"
                /\ chosen(h1, h2, total) = {}
                /\ heap' = Faulted(h2, "null")   \* get_size(NULL)
                /\ UNCHANGED live
             \/ /\ h2.fault = "none"
                /\ \E b \in chosen(h1, h2, total) :
                     LET r == allocate(h2, b, total)
                         p == r.block + kMetadataSize
                     IN  /\ heap' = r.heap
                         /\ live' = [q \in DOMAIN live \cup {p} |->
                                       IF q = p THEN size ELSE live[q]]

\* An address outside of every mapping, so that it is not the allocator's.
Foreign(p) ==
  \A i \in DOMAIN heap.ch_array :
    LET c == heap.ch_array[i]
    IN  p < c.base \/ p >= c.base + heap.corr_size_arr[i]

my_free(p) ==
  /\ Running
  /\ \/ /\ p = NULL \/ ~is_valid(heap, p)
        /\ UNCHANGED vars
     \/ /\ p # NULL /\ is_valid(heap, p)
        /\ heap' = release(heap, p)
        /\ live' = [q \in DOMAIN live \ {p} |-> live[q]]

Init ==
  /\ heap = InitHeap
  /\ live = [p \in {} |-> 0]

Next ==
  \/ \E size \in Requests : my_malloc(size)
  \/ \E p \in DOMAIN live : my_free(p)
  \/ \E p \in ForeignPtrs \cup {NULL} : Foreign(p) /\ my_free(p)

Spec == Init /\ [][Next]_vars

-----------------------------------------------------------------------------
(* Properties. Tiled, PrevBits and the other parts are in HeapInvariant.   *)

\* Every variable holds values of the C types that store it.
TypeOK == HeapType(heap) /\ live \in [DOMAIN live -> Nat]

\* Chunks do not overlap, and the blocks of a chunk tile it: walking by sizes
\* from "start" (get_next_block, print_heap) meets each block once and stops
\* exactly at "end", however the chunk was split and merged.
BlocksTileChunks == ChunksApart(heap) /\ Tiled(heap)

\* The loops that count and print the blocks end, and meet each block of each
\* chunk once, in order of address: the fence that a walk steps over from one
\* chunk to the next is the one a merge may not cross.
HeapWalkExact ==
  Running /\ ChunkIds(heap) # {} =>
    LET s == all_blocks(heap) IN
    /\ Elements(s) = Blocks(heap)
    /\ \A k \in DOMAIN s \ {1} : s[k - 1] < s[k]
    /\ get_next_block(heap, s[Len(s)]) = NULL
    /\ \A i \in ChunkIds(heap) :
         Elements(print_heap(heap, i)) = {b \in Blocks(heap) : heap.block[b].index = i}

\* The bit a block keeps about its left neighbour is that neighbour's status:
\* it is written by other calls than the ones that read it in freeing_up.
PrevBitsExact == PrevBits(heap)

\* Coalescing is complete: no two free blocks are neighbours.
NoFreeNeighbours == Coalesced(heap, {})

\* The free lists hold the free blocks, each once, in the list of its size.
FreeListsExact == Listed(heap, {})

\* Every block ends in a footer with its size: what freeing_up reads below a
\* block leads to the header of its left neighbour.
FootersExact == Footed(heap)

\* The allocated blocks are the client's, with room for what it asked for
\* between header and footer: its writes touch no bookkeeping.
LiveBlocksFit ==
  /\ {b + kMetadataSize : b \in Allocated(heap)} = DOMAIN live
  /\ \A p \in DOMAIN live :
       p + live[p] + SizeofFooter <= EndOf(heap, p - kMetadataSize)

\* No call reads a header or a footer where there is none.
NoWildAccess == heap.fault # "wild"

\* my_malloc never goes on with the NULL of a failed search.
NoNullBlock == heap.fault # "null"

\* my_free ignores an address the allocator never mapped.
ForeignIgnored == heap.fault # "foreign"

\* Once the client holds nothing, each chunk is one free block again, however
\* it was cut up and in whatever order the pieces came back.
AllFreeMeansWhole ==
  DOMAIN live = {} =>
    Blocks(heap) = {heap.ch_array[i].start : i \in ChunkIds(heap)}

\* The block a pointer is cut from is a smallest one that fits among all the
\* blocks of the heap, and the OS is asked only when none fits.
Fits(n) == {b \in Blocks(heap) : IsFree(heap, b) /\ heap.block[b].size >= total_size(n)}

CutFrom(p, b) == b <= p - kMetadataSize /\ p - kMetadataSize < EndOf(heap, b)

BestFitStep ==
  \A p \in DOMAIN live' \ DOMAIN live :
    IF heap'.index_last_chunk_from_OS > heap.index_last_chunk_from_OS
    THEN Fits(live'[p]) = {}
    ELSE \E c \in Fits(live'[p]) :
           /\ CutFrom(p, c)
           /\ \A b \in Fits(live'[p]) : heap.block[c].size <= heap.block[b].size

BestFit == [][BestFitStep]_vars

-----------------------------------------------------------------------------
(* Refinement: the client's pointers and sizes are those of Allocator.      *)

Addr == {kAlignment * k : k \in 0 .. MmapTop \div kAlignment}

Promise ==
  INSTANCE Allocator WITH
    Sizes  <- Requests,
    Header <- kMetadataSize,
    Footer <- SizeofFooter,
    Align  <- kAlignment

\* The allocator implements Allocator: what it hands out is aligned, disjoint
\* from all that is live, bookkeeping included, and stays put until freed.
ImplementsAllocator == Promise!Spec
=============================================================================
