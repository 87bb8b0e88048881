------------------------------- MODULE RawHeap -------------------------------
(***************************************************************************)
(* The memory of src/mymalloc-raw.c, the first allocator, word by word,    *)
(* and the functions that read and write it, one operator per C function   *)
(* under its name. A chunk keeps two lists of its blocks, the free and the *)
(* allocated ones, doubly linked and meant to be in order of address.      *)
(*                                                                         *)
(* m is a record: first_map, mem (a word for each address of a mapping),   *)
(* maps (the mappings: address -> length) and fault, "none" or how the     *)
(* program left defined behaviour.                                         *)
(***************************************************************************)
EXTENDS Walks, FiniteSets

CONSTANTS
  HalfWord,             \* 2^32 in the source: words are below HalfWord^2
  FENCEPOST,            \* the half word written at both ends of a chunk
  kMemorySize,          \* unit of a request to the OS (64 MB in the source)
  kMaxAllocationSize,   \* largest request served (128 MB - 24 in the source)
  MmapBases,            \* addresses the OS may map a chunk at
  MmapTop,              \* end of the address space
  MmapMayFail           \* TRUE: mmap may return MAP_FAILED with room left

kAlignment         == 8
kMinAllocationSize == kAlignment
kMetadataSize      == 24   \* sizeof(Block)
SizeofChunk        == 48

\* The fields of Block, then those of Chunk that differ.
SIZE       == 0
NEXT       == 8
PREV       == 16
FREE       == 24   \* start_free_list
ALLOC      == 32   \* start_alloc_list
CHUNK_SIZE == 40

ASSUME RawMemoryAssumption ==
  /\ kMemorySize \in Nat /\ kMemorySize % kAlignment = 0
  /\ kMemorySize >= SizeofChunk + kMetadataSize + kMinAllocationSize
  /\ \A a \in MmapBases : a \in Nat /\ a > 0 /\ a % kAlignment = 0
  /\ kMaxAllocationSize \in Nat /\ MmapMayFail \in BOOLEAN

\* Addresses and sizes fit in a word, and a fencepost is the size of no block.
ASSUME WordAssumption ==
  /\ HalfWord \in Nat /\ MmapTop \in Nat /\ MmapTop < HalfWord * HalfWord
  /\ kMaxAllocationSize + kMetadataSize + kAlignment < HalfWord * HalfWord
  /\ FENCEPOST \in 0 .. HalfWord - 1 /\ FENCEPOST % kAlignment # 0

-----------------------------------------------------------------------------
(* Words: unsigned arithmetic wraps *)

Wrap(n) == n % (HalfWord * HalfWord)

Get(m, p, field) == IF p + field \in DOMAIN m.mem THEN m.mem[p + field] ELSE 0

Set(m, p, field, v) ==
  IF p + field \in DOMAIN m.mem THEN [m EXCEPT !.mem[p + field] = v]
  ELSE [m EXCEPT !.fault = "wild"]

\* if (p) p->field = v;
SetIf(m, p, field, v) == IF p = NULL THEN m ELSE Set(m, p, field, v)

round_up(n, alignment) == ((n + alignment - 1) \div alignment) * alignment

-----------------------------------------------------------------------------
(* Walks *)

\* The list, of blocks or of chunks, that starts with p.
Chain(m, p) ==
  Follow([x \in DOMAIN m.mem |-> Get(m, x, NEXT)], p, Cardinality(DOMAIN m.mem))

\* A loop along the list from p on does not end.
Ring(m, p) == p # NULL /\ LET s == Chain(m, p) IN Get(m, s[Len(s)], NEXT) # NULL

Chunks(m) == Chain(m, m.first_map)

FreeChain(m, c) == Chain(m, Get(m, c, FREE))

AllocChain(m, c) == Chain(m, Get(m, c, ALLOC))

\* Where a loop over the sequence s stops: the first with P, or NULL.
FirstWith(s, P(_)) ==
  LET hits == {k \in DOMAIN s : P(s[k])}
  IN  IF hits = {} THEN NULL ELSE s[CHOOSE k \in hits : \A j \in hits : k <= j]

chunk_from_block(m, b) ==
  IF b = NULL THEN NULL
  ELSE FirstWith(Chunks(m), LAMBDA c : b < c + Get(m, c, CHUNK_SIZE))

is_fencepost(m, b) == Get(m, b, SIZE) = FENCEPOST

is_free(m, b) == b # NULL /\ b \in Elements(FreeChain(m, chunk_from_block(m, b)))

get_start_block_in_chunk(m, c) ==
  LET starts == {Get(m, c, FREE), Get(m, c, ALLOC)} \ {NULL}
  IN  IF starts = {} THEN NULL ELSE CHOOSE b \in starts : \A x \in starts : b <= x

\* Past the end of the chunk, what the next chunk in the list starts with.
block_after(m, c, next) ==
  IF next < c + Get(m, c, CHUNK_SIZE) THEN next
  ELSE IF Get(m, c, NEXT) = NULL THEN NULL
  ELSE get_start_block_in_chunk(m, Get(m, c, NEXT))

get_next_block(m, b) ==
  IF b = NULL THEN NULL
  ELSE block_after(m, chunk_from_block(m, b), Wrap(b + Get(m, b, SIZE)))

-----------------------------------------------------------------------------
(* Chunks from the OS *)

\* Where the OS may put a mapping of len bytes.
Room(m, len) ==
  {a \in MmapBases :
     /\ a + len <= MmapTop
     /\ \A x \in DOMAIN m.maps : a + len <= x \/ x + m.maps[x] <= a}

\* The memory after the OS mapped len bytes at c: one free block.
Mapped(m, c, len) ==
  [m EXCEPT
     !.maps = [x \in DOMAIN @ \cup {c} |-> IF x = c THEN len ELSE @[x]],
     !.mem  = [a \in DOMAIN @ \cup {c + kAlignment * k : k \in 0 .. len \div kAlignment - 1} |->
                 IF a \in DOMAIN @ THEN @[a] ELSE 0]]

last_chunk_from_OS(m) ==
  IF m.first_map = NULL THEN NULL ELSE Chunks(m)[Len(Chunks(m))]

\* The fences: the lower half of the first word of the chunk, and the upper
\* half of the last word of its first unit, which is in the last block.
Fenced(m, c) == Set(Set(m, c, 0, FENCEPOST), c, kMemorySize - 8, FENCEPOST * HalfWord)

\* The rest of get_chunk_from_OS, which sets fields that a mapping has zeroed:
\* "next" of the chunk and of its block, "prev" of the block, start_alloc_list.
Laid(m, c, len, last, start) ==
  SetIf(Set(Set(Set(Set(m, c, PREV, last), c, CHUNK_SIZE, len), c, FREE, start),
            start, SIZE, len - (start - c)),
        last, NEXT, c)

\* What get_chunk_from_OS may return, NULL or a chunk, and leave.
get_chunk_from_OS(m, multiple) ==
  LET len == multiple * kMemorySize IN
  {[m |-> Laid(Fenced(Mapped(m, c, len), c), c, len, last_chunk_from_OS(m),
               round_up(c + SizeofChunk, kAlignment)),
    chunk |-> c] : c \in Room(m, len)}
  \cup {r \in {[m |-> m, chunk |-> NULL]} : MmapMayFail \/ Room(m, len) = {}}

-----------------------------------------------------------------------------
(* Searches *)

\* The first of s with the least cost, or NULL.
Least(s, Cost(_)) == FirstWith(s, LAMBDA x : \A y \in Elements(s) : Cost(x) <= Cost(y))

\* calc_diff: for a block that is too small it wraps to a large number, and so
\* is never below 0.
excess(m, b, total) == Wrap(Get(m, b, SIZE) - total)

best_fit_in_chunk(m, c, total) == Least(FreeChain(m, c), LAMBDA b : excess(m, b, total))

\* The smallest of what the chunks offer.
best_fit(m, total) ==
  LET chunks == Chunks(m)
      offers == [k \in DOMAIN chunks |-> best_fit_in_chunk(m, chunks[k], total)]
  IN  FirstWith(offers, LAMBDA b : b # NULL /\ \A x \in Elements(offers) \ {NULL} :
                                    Get(m, b, SIZE) <= Get(m, x, SIZE))

-----------------------------------------------------------------------------
(* Taking a block *)

\* Links "right" into a list after b.
link_after(m, b, right) ==
  Set(Set(SetIf(Set(m, right, NEXT, Get(m, b, NEXT)), Get(m, b, NEXT), PREV, right),
          b, NEXT, right),
      right, PREV, b)

lay_right(m, b, right, n) == link_after(Set(m, right, SIZE, n), b, right)

\* Mutant (RawTypeOK): sizes are signed.
split_block_signed(m, b, n) ==
  {[m |-> lay_right(cut, b, get_next_block(cut, b), n), block |-> get_next_block(cut, b)] :
     cut \in {Set(m, b, SIZE, Get(m, b, SIZE) - n)}}

\* The block cut off, and the memory. With n larger than the block its size
\* wraps, and "right" is below it.
split_block(m, b, n) ==
  {[m |-> lay_right(cut, b, get_next_block(cut, b), n), block |-> get_next_block(cut, b)] :
     cut \in {Set(m, b, SIZE, Wrap(Get(m, b, SIZE) - n))}}

\* p and n are the neighbours of a block of the free list of c that is taken out.
unlink_free(m, c, p, n) ==
  SetIf(IF p # NULL THEN Set(m, p, NEXT, n) ELSE Set(m, c, FREE, n), n, PREV, p)

\* Where the loop of mallocing_up stops: before, or NULL.
alloc_before(m, c, b) == FirstWith(AllocChain(m, c), LAMBDA x : x >= b)

\* Mutant (RawListsSorted): the block after the new one is not told.
link_alloc_forward(m, c, b, before, after) ==
  LET m1 == Set(Set(m, b, NEXT, before), b, PREV, after)
  IN  IF after # NULL THEN Set(m1, after, NEXT, b) ELSE Set(m1, c, ALLOC, b)

\* When all blocks of the list are lower, "after" is NULL and b becomes its head.
link_alloc(m, c, b, before, after) ==
  SetIf(IF after # NULL
        THEN Set(Set(Set(m, b, NEXT, before), b, PREV, after), after, NEXT, b)
        ELSE Set(Set(Set(m, b, NEXT, before), b, PREV, after), c, ALLOC, b),
        before, PREV, b)

insert_alloc(m, c, b, before) ==
  link_alloc(m, c, b, before, IF before = NULL THEN NULL ELSE Get(m, before, PREV))

\* The first half of mallocing_up: b leaves its free list.
unlisted(m, b) ==
  unlink_free(m, chunk_from_block(m, b), Get(m, b, PREV), Get(m, b, NEXT))

\* Where its second half finds that b belongs.
place(m, b) == alloc_before(unlisted(m, b), chunk_from_block(m, b), b)

mallocing_up(m, b) ==
  IF chunk_from_block(m, b) = NULL THEN m
  ELSE insert_alloc(unlisted(m, b), chunk_from_block(m, b), b, place(m, b))

taken(m, b) == [m |-> mallocing_up(m, b), block |-> b, before |-> place(m, b)]

\* What my_malloc does with the block it found: the block it returns, the
\* allocated block that is put after it, and the memory.
take(m, b, total) ==
  IF excess(m, b, total) < kMinAllocationSize + kMetadataSize THEN {taken(m, b)}
  ELSE {taken(r.m, r.block) : r \in split_block(m, b, total)}

-----------------------------------------------------------------------------
(* Giving a block back *)

\* Out of the list of allocated blocks; start_alloc_list is left as it is.
freeing_up(m, b) ==
  IF chunk_from_block(m, b) = NULL \/ is_fencepost(m, b) THEN m
  ELSE SetIf(SetIf(m, Get(m, b, PREV), NEXT, Get(m, b, NEXT)),
             Get(m, b, NEXT), PREV, Get(m, b, PREV))

\* Between p and n, blocks of the free list of c or NULL; n is its head, or
\* NULL when the list is empty, if b is to be its head.
link_free(m, c, p, b, n) ==
  LET m1 == SetIf(SetIf(Set(Set(m, b, NEXT, n), b, PREV, p), p, NEXT, b), n, PREV, b)
  IN  IF n = Get(m, c, FREE) THEN Set(m1, c, FREE, b) ELSE m1

insert_free(m, c, b) ==
  LET s       == FreeChain(m, c)
      current == FirstWith(s, LAMBDA x : x >= b)
      last    == IF s = << >> THEN NULL ELSE s[Len(s)]
  IN  link_free(m, c, IF current = NULL THEN last ELSE Get(m, current, PREV), b, current)

\* Mutant (RawBlocksTile): the size is that of the second block.
join_second_size(m, b1, b2) ==
  SetIf(Set(Set(m, b1, SIZE, Get(m, b2, SIZE)), b1, NEXT, Get(m, b2, NEXT)),
        Get(m, b2, NEXT), PREV, b1)

join(m, b1, b2) ==
  SetIf(Set(Set(m, b1, SIZE, Wrap(Get(m, b1, SIZE) + Get(m, b2, SIZE))), b1, NEXT, Get(m, b2, NEXT)),
        Get(m, b2, NEXT), PREV, b1)

\* A neighbour that my_free merges with.
joinable(m, b) == b # NULL /\ is_free(m, b) /\ ~is_fencepost(m, b)

join_next(m, b) ==
  LET next == get_next_block(m, b) IN IF joinable(m, next) THEN join(m, b, next) ELSE m

\* The block before b in its list, next to it in memory or not.
join_prev(m, b) ==
  LET prev == Get(m, b, PREV) IN IF joinable(m, prev) THEN join(m, prev, b) ELSE m

put_back(m, b) == insert_free(freeing_up(m, b), chunk_from_block(m, b), b)

my_free(m, b) ==
  IF chunk_from_block(m, b) = NULL \/ is_free(m, b) \/ is_fencepost(m, b) THEN m
  ELSE join_prev(join_next(put_back(m, b), b), b)

ptr_to_block(p) == p - kMetadataSize

InitRaw == [first_map |-> NULL, mem |-> [a \in {} |-> 0], maps |-> [a \in {} |-> 0], fault |-> "none"]
=============================================================================
