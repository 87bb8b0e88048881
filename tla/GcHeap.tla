------------------------------- MODULE GcHeap --------------------------------
(***************************************************************************)
(* The memory of src/mygc.c, word by word, and the functions that read and *)
(* write it. Every word keeps what was last stored there, whatever it is   *)
(* read as later: the header of a merged block, an old footer and what the *)
(* client stored all show through when a new header is laid over them.     *)
(*                                                                         *)
(* m is a record: index_last_chunk_from_OS, ch_array (addresses of the     *)
(* chunks), corr_size_arr, free_lists (heads), alloc_block_end (the head   *)
(* of the list of allocated blocks, in spite of its name), mem, and fault: *)
(* "none", or how the program left defined behaviour.                      *)
(*                                                                         *)
(* A word has a low half "lo", and a high half split in the bit "mark" and *)
(* the rest "hi". A header is two words: size and flags; next_offset (lo), *)
(* mark and chunk index (hi). Addresses are small here, so a pointer or a  *)
(* size has nothing in its high half, and offsets fit in 32 bits.          *)
(***************************************************************************)
EXTENDS Sizes, FiniteSets

Word(n)       == [lo |-> n, hi |-> 0, mark |-> 0]
Bit(status)   == IF status THEN 1 ELSE 0

Faulted(m, how) == IF m.fault = "none" THEN [m EXCEPT !.fault = how] ELSE m

\* A load from outside of the mappings yields 0: what is then done with the
\* value stores to the same place, and faults.
At(m, a) == IF a \in DOMAIN m.mem THEN m.mem[a] ELSE Word(0)

Store(m, a, w) ==
  IF a \in DOMAIN m.mem THEN [m EXCEPT !.mem[a] = w] ELSE Faulted(m, "wild")

-----------------------------------------------------------------------------
(* Headers and footers *)

get_size(m, b) == At(m, b).lo - (At(m, b).lo % 4)

set_size(m, b, size) == Store(m, b, Word(size + (At(m, b).lo % 4)))

is_allocated(m, b) == At(m, b).lo % 2 = 1

is_prev_allocated(m, b) == (At(m, b).lo \div 2) % 2 = 1

\* The status of b, and of the block to its left.
set_status(m, b, status) ==
  Store(m, b, [At(m, b) EXCEPT !.lo = @ + Bit(status) - Bit(is_allocated(m, b))])

set_prev_status(m, b, status) ==
  Store(m, b, [At(m, b) EXCEPT !.lo = @ + 2 * (Bit(status) - Bit(is_prev_allocated(m, b)))])

get_chunk_index(m, b) == At(m, b + 8).hi

set_chunk_index(m, b, i) == Store(m, b + 8, [At(m, b + 8) EXCEPT !.hi = i])

is_marked(m, b) == At(m, b + 8).mark = 1

\* The link of a list, free or allocated: the same field.
get_next_through_off(m, b) ==
  IF b = NULL \/ At(m, b + 8).lo = 0 THEN NULL ELSE b + At(m, b + 8).lo

set_next_off(m, from, to) ==
  Store(m, from + 8, [At(m, from + 8) EXCEPT !.lo = IF to = NULL THEN 0 ELSE to - from])

\* "allocated" is one byte: the rest of its word keeps what it had.
store_footer(m, at, size, status) ==
  Store(Store(m, at, Word(size)),
        at + 8, [At(m, at + 8) EXCEPT !.lo = @ - (@ % 256) + Bit(status)])

footer_of(m, b) == b + get_size(m, b) - SizeofFooter

set_footer(m, b) == store_footer(m, footer_of(m, b), get_size(m, b), is_allocated(m, b))

\* The footer that coalesce writes.
set_free_footer(m, b) == store_footer(m, footer_of(m, b), get_size(m, b), FALSE)

-----------------------------------------------------------------------------
(* Walks *)

\* The list that starts with b, free or allocated.
Chain(m, b) ==
  Follow([x \in DOMAIN m.mem |-> get_next_through_off(m, x)], b, Cardinality(DOMAIN m.mem))

\* A loop along the links from b leaves the mappings, or does not end.
Lost(m, b) ==
  LET s == Chain(m, b)
  IN  s # << >> /\ (~ Elements(s) \subseteq DOMAIN m.mem \/ get_next_through_off(m, s[Len(s)]) # NULL)

ChunkIds(m) == 0 .. m.index_last_chunk_from_OS
StartOf(m, i) == At(m, m.ch_array[i]).lo
EndOfChunk(m, i) == At(m, m.ch_array[i] + 8).lo

get_next_block(m, b) ==
  LET i    == get_chunk_index(m, b)
      next == b + get_size(m, b)
  IN  IF b = NULL THEN NULL
      ELSE IF next < m.ch_array[i] + m.corr_size_arr[i] THEN next
      ELSE IF i + 1 < MAX_REQ /\ i + 1 \in ChunkIds(m) THEN StartOf(m, i + 1)
      ELSE NULL

is_prev_outside_chunk(m, b) == b = StartOf(m, get_chunk_index(m, b))

is_next_outside_chunk(m, b) ==
  LET next == get_next_block(m, b)
  IN  next = NULL \/ next >= EndOfChunk(m, get_chunk_index(m, b))

\* The blocks of chunk i, free or not, as find_block and print_heap walk them.
BlocksOf(m, i) ==
  LET next == [b \in DOMAIN m.mem |->
                 IF get_next_block(m, b) < EndOfChunk(m, i) THEN get_next_block(m, b) ELSE NULL]
  IN  Follow(next, StartOf(m, i), Cardinality(DOMAIN m.mem))

\* Mutant (StackRetained): a pointer to the payload is taken for one past it.
find_block_header_only(m, p) ==
  {b \in UNION {Elements(BlocksOf(m, i)) : i \in ChunkIds(m)} :
     b <= p /\ p < b + kMetadataSize}

\* The block an address lies in, header and footer included: {} for NULL.
find_block(m, p) ==
  {b \in UNION {Elements(BlocksOf(m, i)) : i \in ChunkIds(m)} :
     b <= p /\ p < b + get_size(m, b)}

-----------------------------------------------------------------------------
(* Lists *)

\* The list from head without b, b's own link cleared. A block that is in no
\* list is left alone, its link included.
Unlinked(m, head, b) ==
  LET s    == Chain(m, head)
      k    == CHOOSE k \in DOMAIN s : s[k] = b
      next == get_next_through_off(m, b)
      m1   == IF k = 1 THEN m ELSE set_next_off(m, s[k - 1], next)
  IN  IF b \in Elements(s)
      THEN [heap |-> set_next_off(m1, b, NULL), head |-> IF k = 1 THEN next ELSE head]
      ELSE [heap |-> IF Lost(m, head) THEN Faulted(m, "wild") ELSE m, head |-> head]

with_free_list(u, i) == [u.heap EXCEPT !.free_lists[i] = u.head]

remove_from_free_list(m, b) ==
  LET i == calculate_index(get_size(m, b))
  IN  with_free_list(Unlinked(m, m.free_lists[i], b), i)

\* Mutant (ListsPartitionBlocks): a swept block stays in the list.
remove_nothing(m, b) == m

with_alloc_list(u) == [u.heap EXCEPT !.alloc_block_end = u.head]

remove_from_alloc_list(m, b) ==
  IF b = NULL THEN m ELSE with_alloc_list(Unlinked(m, m.alloc_block_end, b))

put_block_in_free_list(m, b, i) ==
  [set_next_off(m, b, m.free_lists[i]) EXCEPT !.free_lists[i] = b]

\* The end of my_malloc: b goes after the last of the list of allocated
\* blocks. Its own link is not written.
append_to_alloc_list(m, b) ==
  LET s == Chain(m, m.alloc_block_end)
  IN  IF m.alloc_block_end = NULL THEN [m EXCEPT !.alloc_block_end = b]
      ELSE IF Lost(m, m.alloc_block_end) THEN Faulted(m, "wild")
      ELSE set_next_off(m, s[Len(s)], b)

\* The best fit of one list, the first one among equals: {} for NULL.
list_fit(m, head, size) ==
  LET s    == Chain(m, head)
      fits == {k \in DOMAIN s : get_size(m, s[k]) >= size}
      Beats(k, j) == \/ get_size(m, s[k]) < get_size(m, s[j])
                     \/ get_size(m, s[k]) = get_size(m, s[j]) /\ k <= j
  IN  {s[k] : k \in {k \in fits : \A j \in fits : Beats(k, j)}}

best_fit(m, size) ==
  LET Found(i) == list_fit(m, m.free_lists[i], size)
      first    == {i \in calculate_index(size) .. N_LISTS - 1 :
                     /\ Found(i) # {}
                     /\ \A j \in calculate_index(size) .. i - 1 : Found(j) = {}}
  IN  UNION {Found(i) : i \in first}

-----------------------------------------------------------------------------
(* Merging and splitting *)

take_both(m, b1, b2) == remove_from_free_list(remove_from_free_list(m, b1), b2)

set_merged_size(m, b1, b2) ==
  set_next_off(set_size(m, b1, get_size(m, b1) + get_size(m, b2)), b1, NULL)

\* Mutant (WalkMeetsEveryBlock): the footer of the merged block is not written.
coalesce_keeps_footer(m, b1, b2) == set_merged_size(take_both(m, b1, b2), b1, b2)

coalesce(m, b1, b2) == set_free_footer(set_merged_size(take_both(m, b1, b2), b1, b2), b1)

listed(m, b) == put_block_in_free_list(m, b, calculate_index(get_size(m, b)))

freeing_up(m, b) ==
  LET join_prev == ~is_prev_allocated(m, b) /\ ~is_prev_outside_chunk(m, b)
      join_next == ~is_next_outside_chunk(m, b) /\ ~is_allocated(m, get_next_block(m, b))
      prev      == b - At(m, b - SizeofFooter).lo
      next      == b + get_size(m, b)
      left      == IF join_prev THEN prev ELSE b
      m1        == IF join_prev THEN coalesce(m, prev, b) ELSE m
      m2        == IF join_next THEN coalesce(m1, left, next) ELSE m1
  IN  listed(m2, left)

\* The header of the new block: its link and its mark are what its memory held.
lay_upper(m, b, right, size) ==
  set_size(set_chunk_index(m, right, get_chunk_index(m, b)), right, size)

set_free(m, b) == set_footer(set_status(m, b, FALSE), b)

\* Cuts the upper "size" bytes off b.
split_block(m, b, size) ==
  LET m1    == set_size(m, b, get_size(m, b) - size)
      right == get_next_block(m1, b)
  IN  [heap  |-> set_prev_status(
                   set_free(set_free(lay_upper(m1, b, right, size), b), right), right, FALSE),
       right |-> right]

-----------------------------------------------------------------------------
(* Chunks from the OS, mapped upwards                                      *)

\* The OS maps zeroed words at base; a Chunk and one free block are laid out.
NewChunk(m, base, len) ==
  LET n      == m.index_last_chunk_from_OS + 1
      start  == round_up(base + SizeofChunk, kAlignment)
      size   == round_up(len - (start - base), kAlignment)
      words  == {base + kAlignment * k : k \in 0 .. len \div kAlignment - 1}
      mapped == [m EXCEPT
                  !.index_last_chunk_from_OS = n,
                  !.ch_array      = [i \in 0 .. n |-> IF i = n THEN base ELSE @[i]],
                  !.corr_size_arr = [i \in 0 .. n |-> IF i = n THEN len ELSE @[i]],
                  !.mem           = [a \in DOMAIN @ \cup words |->
                                       IF a \in DOMAIN @ THEN @[a] ELSE Word(0)]]
      chunk  == Store(Store(mapped, base, Word(start)), base + 8, Word(start + size))
      header == set_chunk_index(set_next_off(
                  set_prev_status(set_size(chunk, start, size), start, TRUE), start, NULL), start, n)
  IN  freeing_up(set_footer(header, start), start)

Room(m, base, len) ==
  /\ base + len <= MmapTop
  /\ \A i \in ChunkIds(m) : base >= m.ch_array[i] + m.corr_size_arr[i]

\* What get_chunk_from_OS may leave; the OS may refuse.
get_chunk_from_OS(m, multiple) ==
  LET len   == multiple * kMemorySize
      bases == IF multiple < 1 THEN {} ELSE {a \in MmapBases : Room(m, a, len)}
  IN  {m} \cup {IF m.index_last_chunk_from_OS + 1 >= MAX_REQ THEN Faulted(m, "table")
                ELSE NewChunk(m, base, len) : base \in bases}

-----------------------------------------------------------------------------
(* The body of my_malloc and of my_free *)

first_chunk(m, total) ==
  IF m.index_last_chunk_from_OS = -1
  THEN get_chunk_from_OS(m, (total + SizeofChunk + kMemorySize - 1) \div kMemorySize)
  ELSE {m}

another_chunk(m, total) ==
  IF best_fit(m, total) = {}
  THEN get_chunk_from_OS(m, (total + kMemorySize - 1) \div kMemorySize)
  ELSE {m}

chosen(m1, m2, total) ==
  IF best_fit(m1, total) # {} THEN best_fit(m1, total)
  ELSE list_fit(m2, m2.free_lists[N_LISTS - 1], total)

set_taken(m, b) == set_footer(set_status(m, b, TRUE), b)

list_rest(m, right) == freeing_up(m, right - At(m, right - SizeofFooter).lo)

hand_out(cut) ==
  [heap |-> list_rest(set_taken(cut.heap, cut.right), cut.right), block |-> cut.right]

\* Mutant (HandedFits): the neighbour keeps the status it had.
tell_nobody(m, b, status) == m

tell_next(m, b, status) ==
  IF is_next_outside_chunk(m, b) THEN m ELSE set_prev_status(m, get_next_block(m, b), status)

\* A block of "total" bytes out of the free block b, allocated, and its heap:
\* all of b, or what split_block cut off.
allocate(m, b, total) ==
  LET m1 == remove_from_free_list(tell_next(m, b, TRUE), b)
  IN  IF get_size(m, b) - total < kMinAllocationSize + kMetadataSize + SizeofFooter
      THEN [heap |-> set_status(m1, b, TRUE), block |-> b]
      ELSE hand_out(split_block(m1, b, total))

is_valid(m, p) ==
  \E i \in ChunkIds(m) : StartOf(m, i) < p /\ p < StartOf(m, i) + m.corr_size_arr[i]

ptr_to_block(p) == p - kMetadataSize

my_free(m, p) ==
  LET b  == ptr_to_block(p)
      i  == get_chunk_index(m, b)
      m1 == set_free(m, b)
      m2 == IF get_next_block(m1, b) < m.ch_array[i] + m.corr_size_arr[i]
            THEN tell_next(m1, b, FALSE) ELSE m1
  IN  IF p = NULL \/ ~is_valid(m, p) THEN m ELSE freeing_up(m2, b)

\* Mutant (GcTypeOK): the index starts as if a chunk were there.
first_index_zero == 0

first_index == -1

InitMemory ==
  [index_last_chunk_from_OS |-> first_index,
   ch_array        |-> [i \in {} |-> 0],
   corr_size_arr   |-> [i \in {} |-> 0],
   free_lists      |-> [i \in 0 .. N_LISTS - 1 |-> NULL],
   alloc_block_end |-> NULL,
   mem             |-> [a \in {} |-> Word(0)],
   fault           |-> "none"]
=============================================================================
