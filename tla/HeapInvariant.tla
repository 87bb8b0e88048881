--------------------------- MODULE HeapInvariant ----------------------------
(***************************************************************************)
(* What a sound heap of Heap is, in parts. Between two calls of the        *)
(* allocator the parts hold of every block; within a call, the free blocks *)
(* in "odd" are in no list yet, and at the addresses in "seams" a free     *)
(* block may follow a free block.                                          *)
(***************************************************************************)
EXTENDS Heap

Blocks(h)     == DOMAIN h.block
ChunkIds(h)   == 0 .. h.index_last_chunk_from_OS
EndOf(h, b)   == b + h.block[b].size
IsFree(h, b)  == h.block[b].alloc = 0
FreeLists     == 0 .. N_LISTS - 1
Faults        == {"none", "null", "wild", "table", "foreign"}

Field == [size : Nat, alloc : {0, 1}, prev_alloc : {0, 1}, index : Nat]

\* The fields and their types.
HeapType(h) ==
  /\ h = [index_last_chunk_from_OS |-> h.index_last_chunk_from_OS,
          ch_array      |-> h.ch_array,
          corr_size_arr |-> h.corr_size_arr,
          free_lists    |-> h.free_lists,
          block         |-> h.block,
          footer        |-> h.footer,
          fault         |-> h.fault]
  /\ h.index_last_chunk_from_OS \in -1 .. MAX_REQ - 1
  /\ h.ch_array \in [ChunkIds(h) -> [base : Nat, start : Nat, end : Nat]]
  /\ h.corr_size_arr \in [ChunkIds(h) -> Nat]
  /\ h.free_lists \in [FreeLists -> Seq(Nat)]
  /\ h.block \in [Blocks(h) -> Field]
  /\ Blocks(h) \subseteq Nat \ {NULL}
  /\ h.footer \in [DOMAIN h.footer -> [size : Nat, allocated : {0, 1}]]
  /\ DOMAIN h.footer \subseteq Int
  /\ h.fault \in Faults

\* A chunk is its mapping less the Chunk at its start; a chunk requested later
\* is mapped higher.
ChunksApart(h) ==
  /\ \A i \in ChunkIds(h) :
       LET c == h.ch_array[i]
       IN  /\ c.start = c.base + SizeofChunk
           /\ c.end = c.base + h.corr_size_arr[i]
           /\ c.start < c.end
  /\ \A i, j \in ChunkIds(h) : i < j => h.ch_array[i].end <= h.ch_array[j].base

\* Each block lies in its chunk and is followed by a block of that chunk or by
\* its end, preceded by a block of that chunk or at its start.
InChunk(h, b) ==
  LET i == h.block[b].index
      c == h.ch_array[i]
  IN  /\ i \in ChunkIds(h)
      /\ c.start <= b
      /\ EndOf(h, b) <= c.end
      /\ EndOf(h, b) = c.end \/ (EndOf(h, b) \in Blocks(h) /\ h.block[EndOf(h, b)].index = i)
      /\ b = c.start \/ \E p \in Blocks(h) : EndOf(h, p) = b /\ h.block[p].index = i

Tiled(h) ==
  /\ \A i \in ChunkIds(h) :
       /\ h.ch_array[i].start \in Blocks(h)
       /\ h.block[h.ch_array[i].start].index = i
  /\ \A b \in Blocks(h) : InChunk(h, b) /\ h.block[b].size >= kMetadataSize + SizeofFooter
  /\ \A b1, b2 \in Blocks(h) : b1 < b2 => EndOf(h, b1) <= b2

PrevBits(h) ==
  \A p, b \in Blocks(h) : EndOf(h, p) = b => h.block[b].prev_alloc = h.block[p].alloc

Footed(h) ==
  \A b \in Blocks(h) :
    /\ EndOf(h, b) - SizeofFooter \in DOMAIN h.footer
    /\ h.footer[EndOf(h, b) - SizeofFooter].size = h.block[b].size

Coalesced(h, seams) ==
  \A p, b \in Blocks(h) :
    EndOf(h, p) = b /\ IsFree(h, p) /\ IsFree(h, b) => b \in seams

\* The lists hold the free blocks but odd, each in the list of its size, once.
Listed(h, odd) ==
  /\ \A i \in FreeLists : \A k \in DOMAIN h.free_lists[i] :
       LET b == h.free_lists[i][k]
       IN  /\ b \in Blocks(h) \ odd
           /\ IsFree(h, b)
           /\ calculate_index(h.block[b].size) = i
           /\ \A j \in DOMAIN h.free_lists[i] : h.free_lists[i][j] = b => j = k
  /\ \A b \in Blocks(h) \ odd :
       IsFree(h, b) => b \in Elements(h.free_lists[calculate_index(h.block[b].size)])

SoundBut(h, odd, seams) ==
  /\ HeapType(h)
  /\ ChunksApart(h)
  /\ Tiled(h)
  /\ PrevBits(h)
  /\ Footed(h)
  /\ Coalesced(h, seams)
  /\ Listed(h, odd)

Sound(h) == SoundBut(h, {}, {})

\* The chunks of a heap, and its allocated blocks with their extent.
SameChunks(h1, h2) ==
  /\ h2.index_last_chunk_from_OS = h1.index_last_chunk_from_OS
  /\ h2.ch_array = h1.ch_array
  /\ h2.corr_size_arr = h1.corr_size_arr

Allocated(h) == {b \in Blocks(h) : ~IsFree(h, b)}

SameAllocated(h1, h2) ==
  /\ Allocated(h2) = Allocated(h1)
  /\ \A b \in Allocated(h1) : h2.block[b].size = h1.block[b].size
=============================================================================
