-------------------------------- MODULE Heap --------------------------------
(***************************************************************************)
(* The data structure of src/mymalloc.c and the functions over it, one     *)
(* operator per C function, under the name it has in the source.           *)
(*                                                                         *)
(* A heap is a record:                                                     *)
(*   index_last_chunk_from_OS  the global of that name (-1: no chunk yet)  *)
(*   ch_array        [0..last -> [base, start, end]]: the address mmap     *)
(*                   returned and the two fields of the Chunk stored there *)
(*   corr_size_arr   [0..last -> bytes mapped for that chunk]              *)
(*   free_lists      [0..N_LISTS-1 -> sequence of block addresses]: the    *)
(*                   chain head, head->next, ... of each list              *)
(*   block           partial function: address -> the Block header there   *)
(*   footer          partial function: address -> the Footer there         *)
(*   fault           "none", or how the program left defined behaviour     *)
(*                                                                         *)
(* Addresses and sizes are in bytes; the struct sizes are those of LP64.   *)
(* Only the headers and footers of current blocks are in "block" and       *)
(* "footer": what remains of one inside a merged block is plain memory, so *)
(* a read of it is a read of no header and faults.                         *)
(*                                                                         *)
(* Each "Mutant" is a slip the code could contain; the property named with *)
(* it tells the slip from the code.                                        *)
(***************************************************************************)
EXTENDS Sizes, FiniteSets

CONSTANTS
  Ascending,            \* TRUE: each chunk is mapped above all earlier ones
  MmapMayFail           \* TRUE: mmap may return MAP_FAILED with room left

ASSUME EnvironmentAssumption == Ascending \in BOOLEAN /\ MmapMayFail \in BOOLEAN

-----------------------------------------------------------------------------
(* Headers, footers and neighbours *)

Faulted(h, how) == [h EXCEPT !.fault = how]

get_size(h, b) == h.block[b].size

get_chunk(h, b) == h.ch_array[h.block[b].index]

set_footer(h, b) ==
  LET at == b + get_size(h, b) - SizeofFooter
      f  == [size |-> get_size(h, b), allocated |-> h.block[b].alloc]
  IN  [h EXCEPT !.footer = [a \in DOMAIN h.footer \cup {at} |->
                              IF a = at THEN f ELSE h.footer[a]]]

\* Mutant (HeapWalkExact): the walk ends with the chunk it starts in.
get_next_block_of_chunk(h, b) ==
  LET i    == h.block[b].index
      next == b + get_size(h, b)
  IN  IF next < h.ch_array[i].base + h.corr_size_arr[i] THEN next ELSE NULL

\* The next block in memory: past the last block of a chunk, the first block
\* of the chunk requested after it, wherever that chunk is mapped.
get_next_block(h, b) ==
  LET i    == h.block[b].index
      next == b + get_size(h, b)
  IN  IF next < h.ch_array[i].base + h.corr_size_arr[i] THEN next
      ELSE IF i + 1 < MAX_REQ /\ i + 1 <= h.index_last_chunk_from_OS
           THEN h.ch_array[i + 1].start
           ELSE NULL

\* Mutant (NoFreeNeighbours, AllFreeMeansWhole): the comparison of the fence is inverted.
is_prev_inside_chunk(h, b) == b # get_chunk(h, b).start

is_prev_outside_chunk(h, b) == b = get_chunk(h, b).start

is_next_outside_chunk(h, b) ==
  LET next == get_next_block(h, b)
  IN  next = NULL \/ next >= get_chunk(h, b).end

\* Mutant (PrevBitsExact): the neighbour keeps the status it had.
tell_nobody(h, b, status) == h

\* Writes the status of b into the block next to it in its chunk.
tell_next(h, b, status) ==
  IF is_next_outside_chunk(h, b) THEN h
  ELSE [h EXCEPT !.block[get_next_block(h, b)].prev_alloc = status]

-----------------------------------------------------------------------------
(* Walks over the whole heap *)

get_start_block(h) == h.ch_array[0].start

\* What the loop of the internal tests meets: from get_start_block on, up to
\* NULL.
all_blocks(h) ==
  Follow([b \in DOMAIN h.block |-> get_next_block(h, b)], get_start_block(h),
         Cardinality(DOMAIN h.block))

\* The blocks print_heap prints for chunk i.
print_heap(h, i) ==
  LET InMapping(b) == IF b < h.ch_array[i].base + h.corr_size_arr[i] THEN b ELSE NULL
  IN  Follow([b \in DOMAIN h.block |-> InMapping(get_next_block(h, b))],
             h.ch_array[i].start, Cardinality(DOMAIN h.block))

-----------------------------------------------------------------------------
(* Free lists *)

\* s without its first occurrence of b.
Without(s, b) ==
  IF \E k \in DOMAIN s : s[k] = b
  THEN LET k == CHOOSE k \in DOMAIN s : s[k] = b /\ \A j \in 1 .. k - 1 : s[j] # b
       IN  [j \in 1 .. Len(s) - 1 |-> IF j < k THEN s[j] ELSE s[j + 1]]
  ELSE s

\* Mutant (FreeListsExact): a block that leaves the free blocks stays listed.
remove_nothing(h, b) == h

remove_from_free_list(h, b) ==
  [h EXCEPT !.free_lists[calculate_index(get_size(h, b))] = Without(@, b)]

put_block_in_free_list(h, b, index) ==
  [h EXCEPT !.free_lists[index] = <<b>> \o @]

\* Mutant (BestFit): the first block that fits is taken.
list_first_fit(h, list, size) ==
  LET fits == {k \in DOMAIN list : get_size(h, list[k]) >= size}
  IN  {list[k] : k \in {k \in fits : \A j \in fits : k <= j}}

\* The best fit of one list, the first one among equals: the empty set for NULL.
list_fit(h, list, size) ==
  LET fits    == {k \in DOMAIN list : get_size(h, list[k]) >= size}
      Beats(k, j) == \/ get_size(h, list[k]) < get_size(h, list[j])
                     \/ get_size(h, list[k]) = get_size(h, list[j]) /\ k <= j
  IN  {list[k] : k \in {k \in fits : \A j \in fits : Beats(k, j)}}

best_fit(h, size) ==
  LET Found(i) == list_fit(h, h.free_lists[i], size)
      first    == {i \in calculate_index(size) .. N_LISTS - 1 :
                     /\ Found(i) # {}
                     /\ \A j \in calculate_index(size) .. i - 1 : Found(j) = {}}
  IN  UNION {Found(i) : i \in first}

-----------------------------------------------------------------------------
(* Merging and splitting *)

\* Mutant (BlocksTileChunks): the size of the merged block is not set.
coalesce_keeps_size(h, b1, b2) ==
  [remove_from_free_list(remove_from_free_list(h, b1), b2) EXCEPT
     !.block = [b \in DOMAIN h.block \ {b2} |-> h.block[b]]]

\* Mutant (FootersExact, NoWildAccess): the footer of the merged block is not set.
coalesce_keeps_footer(h, b1, b2) ==
  LET size == get_size(h, b1) + get_size(h, b2)
  IN  [remove_from_free_list(remove_from_free_list(h, b1), b2) EXCEPT
         !.block = [b \in DOMAIN h.block \ {b2} |->
                      IF b = b1 THEN [h.block[b1] EXCEPT !.size = size] ELSE h.block[b]]]

coalesce(h, b1, b2) ==
  LET h1   == remove_from_free_list(remove_from_free_list(h, b1), b2)
      size == get_size(h, b1) + get_size(h, b2)
      mid  == b1 + get_size(h, b1) - SizeofFooter
      at   == b1 + size - SizeofFooter
  IN  [h1 EXCEPT
         !.block  = [b \in DOMAIN h.block \ {b2} |->
                       IF b = b1 THEN [h.block[b1] EXCEPT !.size = size]
                                 ELSE h.block[b]],
         !.footer = [a \in (DOMAIN h.footer \ {mid}) \cup {at} |->
                       IF a = at THEN [size |-> size, allocated |-> 0]
                                 ELSE h.footer[a]]]

\* Merges a block just freed with its free neighbours and lists the result.
\* The neighbour to the left is found through the footer below the block, the
\* one to the right by address: neither exists when the fences are misjudged.
freeing_up(h, b) ==
  LET next_fence == is_next_outside_chunk(h, b)
      join_prev  == h.block[b].prev_alloc = 0 /\ ~is_prev_outside_chunk(h, b)
      join_next  == ~next_fence /\ h.block[get_next_block(h, b)].alloc = 0
      below      == b - SizeofFooter
      prev       == b - h.footer[below].size
      next       == b + get_size(h, b)
      wild       == \/ join_prev /\ (below \notin DOMAIN h.footer \/ prev \notin DOMAIN h.block)
                    \/ join_next /\ next \notin DOMAIN h.block
      left       == IF join_prev THEN prev ELSE b
      h1         == IF join_prev THEN coalesce(h, prev, b) ELSE h
      h2         == IF join_next THEN coalesce(h1, left, next) ELSE h1
  IN  IF wild THEN Faulted(h, "wild")
      ELSE put_block_in_free_list(h2, left, calculate_index(get_size(h2, left)))

\* Cuts the upper "size" bytes off a free block; "right" is the new block.
split_block(h, b, size) ==
  LET h1    == [h EXCEPT !.block[b].size = @ - size, !.block[b].alloc = 0]
      right == get_next_block(h1, b)
      hdr   == [size |-> size, alloc |-> 0, prev_alloc |-> 0, index |-> h.block[b].index]
      h2    == [h1 EXCEPT !.block = [x \in DOMAIN h.block \cup {right} |->
                                       IF x = right THEN hdr ELSE h1.block[x]]]
  IN  [heap |-> set_footer(set_footer(h2, b), right), right |-> right]

-----------------------------------------------------------------------------
(* Chunks from the OS *)

\* Where the OS may put a mapping of len bytes: over no mapped chunk.
Mappings(h, len) ==
  {a \in MmapBases :
     /\ a + len <= MmapTop
     /\ \A i \in DOMAIN h.ch_array :
          \/ a >= h.ch_array[i].base + h.corr_size_arr[i]
          \/ ~Ascending /\ a + len <= h.ch_array[i].base}

\* The heap after the OS mapped len bytes at base: one free block.
NewChunk(h, base, len) ==
  LET n     == h.index_last_chunk_from_OS + 1
      start == round_up(base + SizeofChunk, kAlignment)
      size  == round_up(len - (start - base), kAlignment)
      hdr   == [size |-> size, alloc |-> 0, prev_alloc |-> 1, index |-> n]
      chunk == [base |-> base, start |-> start, end |-> start + size]
      h1    == [index_last_chunk_from_OS |-> n,
                ch_array      |-> [i \in 0 .. n |-> IF i = n THEN chunk ELSE h.ch_array[i]],
                corr_size_arr |-> [i \in 0 .. n |-> IF i = n THEN len ELSE h.corr_size_arr[i]],
                free_lists    |-> h.free_lists,
                block         |-> [b \in DOMAIN h.block \cup {start} |->
                                     IF b = start THEN hdr ELSE h.block[b]],
                footer        |-> h.footer,
                fault         |-> h.fault]
  IN  freeing_up(set_footer(h1, start), start)

\* The heaps get_chunk_from_OS may leave: unchanged when it fails. Past the
\* last entry the store into ch_array falls outside of the array.
get_chunk_from_OS(h, multiple) ==
  LET len   == multiple * kMemorySize
      bases == IF multiple < 1 THEN {} ELSE Mappings(h, len)
  IN  {IF h.index_last_chunk_from_OS + 1 >= MAX_REQ
       THEN Faulted(h, "table")
       ELSE NewChunk(h, base, len) : base \in bases}
      \cup {f \in {h} : MmapMayFail \/ bases = {}}

-----------------------------------------------------------------------------
(* The two entry points *)

\* Takes a free block that fits out of its list and turns it, or its upper
\* part when the rest can hold a block of its own, into the block returned.
allocate(h, b, total) ==
  LET h2   == remove_from_free_list(tell_next(h, b, 1), b)
      cut  == split_block(h2, b, total)
      h3   == set_footer([cut.heap EXCEPT !.block[cut.right].alloc = 1], cut.right)
      left == cut.right - h3.footer[cut.right - SizeofFooter].size
  IN  IF get_size(h, b) - total < kMinAllocationSize + kMetadataSize + SizeofFooter
      THEN [heap |-> [h2 EXCEPT !.block[b].alloc = 1], block |-> b]
      ELSE [heap |-> freeing_up(h3, left), block |-> cut.right]

\* The chunk requests of my_malloc, before the first search and after a
\* search that found nothing. The second one leaves no room for the Chunk.
first_chunk(h, total) ==
  IF h.index_last_chunk_from_OS = -1
  THEN get_chunk_from_OS(h, (total + SizeofChunk + kMemorySize - 1) \div kMemorySize)
  ELSE {h}

another_chunk(h, total) ==
  IF h.fault = "none" /\ best_fit(h, total) = {}
  THEN get_chunk_from_OS(h, (total + kMemorySize - 1) \div kMemorySize)
  ELSE {h}

\* The block my_malloc settles on in the heap h2 it has after its requests;
\* h1 is the heap it searched first.
chosen(h1, h2, total) ==
  IF best_fit(h1, total) # {} THEN best_fit(h1, total)
  ELSE list_fit(h2, h2.free_lists[N_LISTS - 1], total)

is_valid(h, p) ==
  \E i \in 0 .. h.index_last_chunk_from_OS :
    /\ h.ch_array[i].start < p
    /\ p < h.ch_array[i].start + h.corr_size_arr[i]

ptr_to_block(p) == p - kMetadataSize

\* my_free past its early returns, for a pointer is_valid accepts.
release(h, p) ==
  LET b  == ptr_to_block(p)
      i  == h.block[b].index
      h1 == set_footer([h EXCEPT !.block[b].alloc = 0], b)
      h2 == IF get_next_block(h1, b) < h.ch_array[i].base + h.corr_size_arr[i]
            THEN tell_next(h1, b, 0) ELSE h1
  IN  IF b \in DOMAIN h.block THEN freeing_up(h2, b) ELSE Faulted(h, "foreign")

\* Mutant (TypeOK): the index starts as if a chunk were there.
first_index_zero == 0

first_index == -1

InitHeap ==
  [index_last_chunk_from_OS |-> first_index,
   ch_array      |-> [i \in {} |-> 0],
   corr_size_arr |-> [i \in {} |-> 0],
   free_lists    |-> [i \in 0 .. N_LISTS - 1 |-> << >>],
   block         |-> [b \in {} |-> 0],
   footer        |-> [a \in {} |-> 0],
   fault         |-> "none"]
=============================================================================
